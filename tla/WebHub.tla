------------------------------- MODULE WebHub -------------------------------
(***************************************************************************)
(* The hub goroutine of web_hub.go that owns the connections of one user.  *)
(* Every action below is one receive of its select loop, so it is atomic   *)
(* towards the others; the pumps of WebConn run beside it.                 *)
(***************************************************************************)
EXTENDS WebConn

CONSTANTS MaxResponses,  \* bound on the responses sent to the client
          MaxFaults      \* bound on broken sockets, crashes and store errors

ASSUME WebHubAssumption == MaxResponses \in Nat /\ MaxFaults \in Nat

VARIABLES connIndex,    \* the hub's index of connections
          broadcasts,   \* how many broadcasts the hub has processed
          responses,    \* how many responses it has been asked to send
          faults        \* how many faults have happened

hubVars == <<connIndex, broadcasts, responses, faults>>

HubInit ==
    /\ ConnInit
    /\ connIndex = {}
    /\ broadcasts = 0
    /\ responses = 0
    /\ faults = 0

Fault == faults < MaxFaults /\ faults' = faults + 1

(* RemoveInactiveByConnectionID looks for these.                           *)
Resumable(id) ==
    {c \in connIndex : conn[c].id = id /\ ~conn[c].Active}

(* PopulateWebConnConfig and NewWebConn, when the request names no         *)
(* connection or the hub does not find it: a new id and empty queues.      *)
CheckConnNew(c) ==
    /\ conn[c].phase = "upgraded"
    /\ conn[c].reqId = 0 \/ Resumable(conn[c].reqId) = {}
    /\ nextId \in Ids
    /\ nextId' = nextId + 1
    /\ conn' = [conn EXCEPT ![c].phase = "checked",
                            ![c].id = nextId,
                            ![c].Active = TRUE]
    /\ UNCHANGED <<sock, stream, hubVars>>

(* Mutant of CheckConnFound: the old connection stays in the index.        *)
CheckConnKeepsOld(c) ==
    /\ conn[c].phase = "upgraded"
    /\ conn[c].reqId # 0
    /\ \E old \in Resumable(conn[c].reqId) :
         conn' = [conn EXCEPT
              ![c] = [@ EXCEPT
                        !.phase = "checked",
                        !.id = conn[c].reqId,
                        !.Sequence = conn[c].reqSeq,
                        !.reuse = TRUE,
                        !.send = conn[old].send,
                        !.closed = conn[old].closed,
                        !.deadQueue = conn[old].deadQueue,
                        !.deadQueuePointer = conn[old].deadQueuePointer]]
    /\ UNCHANGED <<sock, nextId, stream, hubVars>>

(* The hub finds it: the old connection leaves the index there and then,   *)
(* and the new one takes over its queues and the client's sequence number. *)
(* It is in the index only when it registers.                              *)
CheckConnFound(c) ==
    /\ conn[c].phase = "upgraded"
    /\ conn[c].reqId # 0
    /\ \E old \in Resumable(conn[c].reqId) :
         /\ connIndex' = connIndex \ {old}
         /\ conn' = [conn EXCEPT
              ![c] = [@ EXCEPT
                        !.phase = "checked",
                        !.id = conn[c].reqId,
                        !.Sequence = conn[c].reqSeq,
                        !.reuse = TRUE,
                        !.send = conn[old].send,
                        !.closed = conn[old].closed,
                        !.deadQueue = conn[old].deadQueue,
                        !.deadQueuePointer = conn[old].deadQueuePointer],
              ![old] = FreeConn]
    /\ UNCHANGED <<sock, nextId, stream, broadcasts, responses, faults>>

(* The register case, then Pump: a fresh connection gets its hello.        *)
Register(c) ==
    LET wc == conn[c]
    IN  /\ wc.phase = "checked"
        /\ connIndex' = connIndex \cup {c}
        /\ conn' = [conn EXCEPT
              ![c] = [wc EXCEPT
                        !.phase = "start",
                        !.reading = TRUE,
                        !.Active = TRUE,
                        !.send = IF wc.reuse THEN @
                                             ELSE Append(@, Hello(wc.id))]]
        /\ UNCHANGED <<sock, nextId, stream, broadcasts, responses, faults>>

(* connIndex.Add fails (the channel members cannot be read):               *)
(* connectWebSocket closes the socket and drops the connection.            *)
RegisterFails(c) ==
    /\ conn[c].phase = "checked"
    /\ Fault
    /\ conn' = [conn EXCEPT ![c] = FreeConn]
    /\ sock' = [sock EXCEPT ![c].up = FALSE]
    /\ UNCHANGED <<nextId, stream, connIndex, broadcasts, responses>>

(* The unregister case, once both pumps have ended: the connection stays   *)
(* in the index, inactive, unless its full queue has removed it before.    *)
Unregister(c) ==
    /\ conn[c].phase = "ended"
    /\ ~conn[c].reading
    /\ conn' = [conn EXCEPT
          ![c] = IF c \in connIndex
                   THEN [@ EXCEPT !.phase = "parked", !.Active = FALSE]
                   ELSE FreeConn]
    /\ UNCHANGED <<sock, nextId, stream, hubVars>>

(* A send to a channel without room closes it and removes the connection.  *)
(* An inactive one is then reachable from nowhere.                         *)
HasRoom(c) == Len(conn[c].send) < sendQueueSize

ClosedConn(c) ==
    IF conn[c].phase = "parked" THEN FreeConn
                                ELSE [conn[c] EXCEPT !.closed = TRUE]

(* Mutant of Broadcast: the connection is closed but not removed.          *)
BroadcastClosesOnly ==
    LET n == broadcasts + 1
        taking == {c \in connIndex : HasRoom(c)}
    IN  /\ n \in Broadcasts
        /\ broadcasts' = n
        /\ conn' = [c \in Conns |->
              CASE c \in taking -> [conn[c] EXCEPT !.send = Append(@, Event(n))]
                [] c \in connIndex \ taking -> ClosedConn(c)
                [] OTHER -> conn[c]]
        /\ stream' = [id \in Ids |->
              IF Deliverable(n) /\ \E c \in taking : conn[c].id = id
                THEN Append(stream[id], n) ELSE stream[id]]
        /\ UNCHANGED <<sock, nextId, connIndex, responses, faults>>

(* The broadcast case, for an event every connection of the user is to get *)
Broadcast ==
    LET n == broadcasts + 1
        taking == {c \in connIndex : HasRoom(c)}
    IN  /\ n \in Broadcasts
        /\ broadcasts' = n
        /\ connIndex' = taking
        /\ conn' = [c \in Conns |->
              CASE c \in taking -> [conn[c] EXCEPT !.send = Append(@, Event(n))]
                [] c \in connIndex \ taking -> ClosedConn(c)
                [] OTHER -> conn[c]]
        /\ stream' = [id \in Ids |->
              IF Deliverable(n) /\ \E c \in taking : conn[c].id = id
                THEN Append(stream[id], n) ELSE stream[id]]
        /\ UNCHANGED <<sock, nextId, responses, faults>>

(* The directMsg case: the response to a request the client has made.      *)
SendMessage(c) ==
    /\ responses < MaxResponses
    /\ conn[c].phase \in Pumping
    /\ responses' = responses + 1
    /\ IF c \notin connIndex
         THEN UNCHANGED <<conn, connIndex>>
         ELSE IF HasRoom(c)
           THEN /\ conn' = [conn EXCEPT ![c].send = Append(@, Response)]
                /\ UNCHANGED connIndex
           ELSE /\ conn' = [conn EXCEPT ![c] = ClosedConn(c)]
                /\ connIndex' = connIndex \ {c}
    /\ UNCHANGED <<sock, nextId, stream, broadcasts, faults>>

(* The invalidateUser case when the channel members cannot be read: every  *)
(* connection of the user is closed.                                       *)
InvalidateFails ==
    /\ Fault
    /\ connIndex # {}
    /\ conn' = [c \in Conns |-> IF c \in connIndex THEN ClosedConn(c)
                                                   ELSE conn[c]]
    /\ connIndex' = {}
    /\ UNCHANGED <<sock, nextId, stream, broadcasts, responses>>

(* The reaper's tick: a connection inactive for long enough leaves.        *)
RemoveInactiveConnection(c) ==
    /\ c \in connIndex
    /\ ~conn[c].Active
    /\ connIndex' = connIndex \ {c}
    /\ conn' = [conn EXCEPT ![c] = FreeConn]
    /\ UNCHANGED <<sock, nextId, stream, broadcasts, responses, faults>>

(* The server goes down and comes up again: nothing of this is persisted.  *)
Restart ==
    /\ Fault
    /\ conn' = [c \in Conns |-> FreeConn]
    /\ sock' = [c \in Conns |-> [up |-> FALSE, toClient |-> <<>>]]
    /\ connIndex' = {}
    /\ UNCHANGED <<nextId, stream, broadcasts, responses>>

(* The network breaks the socket; what was on its way is lost.             *)
Break(c) ==
    /\ Fault
    /\ sock[c].up \/ sock[c].toClient # <<>>
    /\ sock' = [sock EXCEPT ![c] = [up |-> FALSE, toClient |-> <<>>]]
    /\ UNCHANGED <<conn, nextId, stream, connIndex, broadcasts, responses>>

HubStep(c) ==
    \/ CheckConnNew(c) \/ CheckConnFound(c)
    \/ Register(c) \/ Unregister(c)
=============================================================================
