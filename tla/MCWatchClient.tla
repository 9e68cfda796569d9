--------------------------- MODULE MCWatchClient ---------------------------
(***************************************************************************)
(* WatchClient for TLC: its constants are numbers, given by the cfg files. *)
(***************************************************************************)
EXTENDS WatchClient
=============================================================================
