---- MODULE MCTcpConnection ----
(***************************************************************************)
(* Small instances of TcpConnection: a send buffer of two bytes and sends  *)
(* of one, two and three, so that writes are partial or refused and sends  *)
(* queue up behind each other.                                             *)
(***************************************************************************)
EXTENDS TcpConnection
=============================================================================
