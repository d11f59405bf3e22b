---------------------------- MODULE MCOffboxBackup ----------------------------
EXTENDS OffboxBackup
Kept == [k \in Kinds |-> IF k = "daily" THEN 2 ELSE 1]
=============================================================================
