--------------------------- MODULE MCConversation ---------------------------
(* Small instances of Conversation for TLC: the bounds are in the .cfg files. *)
EXTENDS Conversation
=============================================================================
