--------------------------- MODULE MCChatConnection ---------------------------
(* ChatConnection on a few managers, sockets and cards, for TLC.           *)
EXTENDS ChatConnection

CONSTANTS c1

MCCards == {c1}
=============================================================================
