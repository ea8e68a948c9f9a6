---- MODULE MCEventLoop ----
(***************************************************************************)
(* A small instance of EventLoop: two remote threads race with each other  *)
(* and with the loop thread over two tasks and one timer.                  *)
(***************************************************************************)
EXTENDS EventLoop
=============================================================================
