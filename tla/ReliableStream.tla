--------------------------- MODULE ReliableStream ---------------------------
(***************************************************************************)
(* What the reliable websocket promises the client: the broadcasts taken   *)
(* for it reach the listeners one by one, in order, without a gap and      *)
(* without a repetition, over any number of sockets; and if the stream is  *)
(* given up the client is told that it has missed events.                  *)
(***************************************************************************)
EXTENDS Naturals, Sequences

CONSTANT Broadcasts   \* what may be taken for the client

VARIABLES begun,      \* the client has had its first hello
          accepted,   \* the broadcasts taken for its stream
          delivered,  \* those its listeners have been given
          missed      \* how often it was told that it has missed events

vars == <<begun, accepted, delivered, missed>>

Init ==
    /\ begun = FALSE
    /\ accepted = <<>>
    /\ delivered = <<>>
    /\ missed = 0

(* The stream begins, with the broadcasts that did not wait for the client *)
Begin ==
    /\ ~begun
    /\ begun' = TRUE
    /\ accepted' \in Seq(Broadcasts)
    /\ UNCHANGED <<delivered, missed>>

Accept ==
    /\ begun
    /\ \E n \in Broadcasts : accepted' = Append(accepted, n)
    /\ UNCHANGED <<begun, delivered, missed>>

Deliver ==
    /\ begun
    /\ Len(delivered) < Len(accepted)
    /\ delivered' = Append(delivered, accepted[Len(delivered) + 1])
    /\ UNCHANGED <<begun, accepted, missed>>

(* The stream is given up for another one, and the client is told.         *)
StartOver ==
    /\ begun
    /\ accepted' \in Seq(Broadcasts)
    /\ delivered' = <<>>
    /\ missed' = missed + 1
    /\ UNCHANGED begun

Next == Begin \/ Accept \/ Deliver \/ StartOver

Spec == Init /\ [][Next]_vars
=============================================================================
