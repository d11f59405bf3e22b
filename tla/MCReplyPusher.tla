--------------------------- MODULE MCReplyPusher ---------------------------
(***************************************************************************)
(* Two homes, one with a reply to somebody else's note in between.         *)
(***************************************************************************)
EXTENDS ReplyPusher

KitReplies == <<{1, 2}, {2}>>
=============================================================================
