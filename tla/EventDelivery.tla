---------------------------- MODULE EventDelivery ----------------------------
(***************************************************************************)
(* What a transactional outbox promises, without saying how: an event that  *)
(* was accepted (its row committed with the domain write) may be delivered  *)
(* to the targets of its route, in route order, any number of times, and is *)
(* settled only after every target has received it at least once.  Nothing  *)
(* is ever delivered that was not accepted.  OutboxRelay implements this.   *)
(***************************************************************************)
EXTENDS Naturals, Sequences

CONSTANTS Event,     \* identities of events
          Routes     \* the routes an event may take, sequences of targets

VARIABLES accepted,  \* events whose row is committed
          route,     \* the route of each accepted event
          delivered, \* for each event, the targets that have received it
          settled    \* events that need no further publishing

vars == <<accepted, route, delivered, settled>>

Init == /\ accepted = {}
        /\ route = [e \in Event |-> <<>>]
        /\ delivered = [e \in Event |-> {}]
        /\ settled = {}

TargetsOf(e) == {route[e][i] : i \in 1..Len(route[e])}

\* The route is fixed when the event is accepted, and never changes after.
Accept(e, rt) == /\ e \notin accepted
                 /\ accepted' = accepted \cup {e}
                 /\ route' = [route EXCEPT ![e] = rt]
                 /\ UNCHANGED <<delivered, settled>>

\* Fan-out is in route order: every earlier target already has the event.
Deliver(e, i) == /\ e \in accepted
                 /\ \A j \in 1..(i - 1) : route[e][j] \in delivered[e]
                 /\ delivered' = [delivered EXCEPT ![e] = @ \cup {route[e][i]}]
                 /\ UNCHANGED <<accepted, route, settled>>

\* Several events may be settled at once: a batch commits as a whole.
Settle(S) == /\ S \subseteq accepted
             /\ \A e \in S : TargetsOf(e) \subseteq delivered[e]
             /\ settled' = settled \cup S
             /\ UNCHANGED <<accepted, route, delivered>>

Next == \/ \E e \in Event, rt \in Routes : Accept(e, rt)
        \/ \E e \in Event : \E i \in 1..Len(route[e]) : Deliver(e, i)
        \/ \E S \in SUBSET Event : Settle(S)

Spec == Init /\ [][Next]_vars
=============================================================================
