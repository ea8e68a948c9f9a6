---------------------------- MODULE MCEchoServer ----------------------------
(* Two loops that post to one worker, two connections and two descriptors, *)
(* so that a number is used twice.                                         *)
EXTENDS EchoServer

MCWork == Conn \X (1..MaxMsg)
MCPoster == 1..NumLoops
=============================================================================
