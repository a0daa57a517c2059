--------------------------- MODULE MCPahoTransport ---------------------------
(***************************************************************************)
(* Instance for TLC: a queue of two reports, and runs long enough to fill  *)
(* it twice and to connect, lose the connection and connect again.         *)
(***************************************************************************)
EXTENDS PahoTransport
=============================================================================
