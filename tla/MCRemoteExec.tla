---------------------------- MODULE MCRemoteExec ----------------------------
(* Small instances of RemoteExec for TLC.  A second has two ticks, so        *)
(* timeouts with a fraction exist; grace, margin and daemon timeout are      *)
(* shortened, in the order they have in the code (grace < margin).           *)
EXTENDS RemoteExec
=============================================================================
