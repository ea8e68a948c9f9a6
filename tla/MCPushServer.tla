---------------------------- MODULE MCPushServer ----------------------------
(* One TCP and one web client, two ids; a list of both with a repetition,  *)
(* and one that is empty but for a zero.                                   *)
EXTENDS PushServer

MCLists == {<<0>>, <<1, 2, 1>>}
=============================================================================
