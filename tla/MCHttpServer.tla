---- MODULE MCHttpServer ----
(***************************************************************************)
(* A small instance of HttpServer: four pipelined requests, a pooled       *)
(* block of four units and an extrabuf of six.                             *)
(***************************************************************************)
EXTENDS HttpServer

MCRequest == {[kind |-> "static", keep |-> TRUE, body |-> 0],
              [kind |-> "echo", keep |-> TRUE, body |-> 2],
              [kind |-> "route", keep |-> FALSE, body |-> 0],
              [kind |-> "missing", keep |-> TRUE, body |-> 1]}
=============================================================================
