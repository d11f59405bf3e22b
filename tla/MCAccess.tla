------------------------------- MODULE MCAccess -------------------------------
EXTENDS Access
=============================================================================
