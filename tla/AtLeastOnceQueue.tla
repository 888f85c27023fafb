-------------------------- MODULE AtLeastOnceQueue --------------------------
(***************************************************************************)
(* What the scheduler's dispatch path promises (spec section 4.5): a task  *)
(* put on the dispatch queue is published to the broker at least once, and *)
(* its queue entry is acknowledged (deleted) only after it has been        *)
(* published.  Duplicate publishes are allowed; losing a task is not.      *)
(*                                                                         *)
(* pending   - tasks whose dispatch message is still on the queue          *)
(* delivered - tasks published to the broker at least once                 *)
(***************************************************************************)
CONSTANT Msgs

VARIABLES pending, delivered

vars == <<pending, delivered>>

Init ==
    /\ pending = {}
    /\ delivered = {}

\* A producer puts a message for m on the queue.
Send(m) ==
    /\ pending' = pending \cup {m}
    /\ UNCHANGED delivered

\* A consumer hands a pending message to the broker; it may do so again.
Deliver(m) ==
    /\ m \in pending
    /\ delivered' = delivered \cup {m}
    /\ UNCHANGED pending

\* The entry of a message leaves the queue, but only once it was delivered.
Ack(m) ==
    /\ m \in pending
    /\ m \in delivered
    /\ pending' = pending \ {m}
    /\ UNCHANGED delivered

Next == \E m \in Msgs : Send(m) \/ Deliver(m) \/ Ack(m)

\* Every pending message is eventually delivered and eventually acknowledged.
Spec ==
    /\ Init
    /\ [][Next]_vars
    /\ \A m \in Msgs : WF_vars(Deliver(m)) /\ WF_vars(Ack(m))

=============================================================================
