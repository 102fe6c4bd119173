--------------------------- MODULE MCClusterMutex ---------------------------
(* Three clients, so that one may hold the mutex, one have lost it and one *)
(* wait for it, and the smallest times that leave room for delays.         *)
EXTENDS ClusterMutex, TLC

CONSTANTS p1, p2, p3

MCClients == {p1, p2, p3}
=============================================================================
