---------------------------- MODULE ClusterLock ----------------------------
(***************************************************************************)
(* What a mutex of the plugin cluster package promises its clients: at any *)
(* moment one of them has it or none has. A client that has it gives it    *)
(* back, or stops.                                                         *)
(***************************************************************************)
CONSTANTS Clients,   \* those who may lock the mutex
          NoClient   \* nobody has it

ASSUME NoClientAssumption == NoClient \notin Clients

VARIABLE holder

LockInit == holder = NoClient

Acquire(p) == holder = NoClient /\ holder' = p

Release(p) == holder = p /\ holder' = NoClient

LockSpec == LockInit /\ [][\E p \in Clients : Acquire(p) \/ Release(p)]_holder
=============================================================================
