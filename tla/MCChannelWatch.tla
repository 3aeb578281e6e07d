--------------------------- MODULE MCChannelWatch ---------------------------
(* Model-checking instance of ChannelWatch.                                 *)
EXTENDS ChannelWatch
=============================================================================
