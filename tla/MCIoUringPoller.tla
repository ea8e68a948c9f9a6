---- MODULE MCIoUringPoller ----
(***************************************************************************)
(* A small instance of IoUringPoller: two addresses that are freed and     *)
(* used again, and generations that outgrow the user data.                 *)
(***************************************************************************)
EXTENDS IoUringPoller
=============================================================================
