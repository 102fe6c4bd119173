---------------------------- MODULE MCClusterJob ----------------------------
(* Two instances of the plugin, one that runs the job and one that comes   *)
(* next, crashes or is closed meanwhile; each of them may be scheduled     *)
(* with either rule.                                                       *)
EXTENDS ClusterJob

CONSTANTS p1, p2

MCClients == {p1, p2}
=============================================================================
