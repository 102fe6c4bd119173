----------------------------- MODULE MCJobOnce -----------------------------
(* Servers of the plugin, the JobOnce objects of one key on them and the   *)
(* calls going on. Two objects let the one of a schedule that is gone on a *)
(* server meet the one of the next.                                        *)
EXTENDS JobOnce, TLC

CONSTANTS s1, s2, j1, j2, k1, k2

MCOneServer == {s1}
MCTwoServers == {s1, s2}
MCTwoJobs == {j1, j2}
MCOneCall == {k1}
MCClients == Jobs \cup Calls
MCSymmetry == Permutations(Servers) \cup Permutations(Jobs) \cup Permutations(Calls)
MCRunAt == {1}
MCRunAts == {1, 2}
=============================================================================
