----------------------------- MODULE RmqConsumer -----------------------------
(***************************************************************************)
(* One RabbitMQ queue and the replicas of the service that consume it, as   *)
(* configureRmqMicroservice wires them: manual ack, prefetch 1, and the     *)
(* RmqReliabilityInterceptor around every handler.  A failed event is       *)
(* copied to <queue>.retry with its counter bumped, comes back when its TTL *)
(* expires, and is parked in <queue>.dlq once the retries are used up;      *)
(* a service configured without those queues drops it.  Requests (RPC) are  *)
(* acked whatever the outcome, unless a guard rejects them: guards run      *)
(* outside the interceptor.                                                 *)
(*                                                                         *)
(* A message is an element of Msg; copies of it with the same retry count   *)
(* are indistinguishable, so queues are bags.  A slot is one execution of   *)
(* a handler.  When the connection dies under a handler the broker requeues *)
(* the message while the handler runs on: the slot is no longer live, and   *)
(* what it does to the channel has no effect.                               *)
(***************************************************************************)
EXTENDS Naturals, FiniteSets

CONSTANTS Msg,         \* messages
          Rpc,         \* those that carry replyTo
          Guarded,     \* those whose handler has a guard that may reject
          Slot,        \* handler executions that may overlap
          Consumers,   \* connections with prefetch 1
          MaxRetries,  \* options.maxRetries
          RetryQueue,  \* options.retryQueue is set
          DeadLetterQueue, \* options.deadLetterQueue is set
          MaxPublish,  \* bound: copies of one message the producer puts
          MaxFaults    \* bound: crashes and lost connections

ASSUME ConsumerAssumption ==
  /\ Rpc \subseteq Msg
  /\ Guarded \subseteq Rpc
  /\ Consumers \in Nat /\ MaxRetries \in Nat
  /\ MaxPublish \in Nat /\ MaxFaults \in Nat
  /\ RetryQueue \in BOOLEAN /\ DeadLetterQueue \in BOOLEAN

VARIABLES
  main,      \* main[m][n]: copies of m in the main queue with retry count n
  retry,     \* retry[m][n]: the same for the retry queue
  dlq,       \* copies of m parked in the dead-letter queue
  dropped,   \* copies of m discarded by nack without requeue
  run,       \* what each slot is executing
  handled,   \* handler executions for m that returned normally
  failures,  \* handler executions for m that threw
  published, \* copies of m the producer has put on the main queue
  faults     \* disturbances so far

broker == <<main, retry, dlq, dropped>>
history == <<handled, failures, published>>
rmqVars == <<broker, run, history, faults>>

Count == 0..MaxRetries
Idle == [pc |-> "idle"]

\* "running": inside the handler; "succeeded", "failed": it is over and the
\* channel has not been told; "rerouted": a copy was republished, the original
\* not acked yet; "rejected": a guard threw, nobody will ack.
Busy == [pc : {"running", "succeeded", "failed", "rerouted", "rejected"},
         msg : Msg, n : Count, live : BOOLEAN]

RmqTypeOK ==
  /\ main \in [Msg -> [Count -> Nat]]
  /\ retry \in [Msg -> [Count -> Nat]]
  /\ dlq \in [Msg -> Nat]
  /\ dropped \in [Msg -> Nat]
  /\ run \in [Slot -> Busy \cup {Idle}]
  /\ handled \in [Msg -> Nat]
  /\ failures \in [Msg -> Nat]
  /\ published \in [Msg -> Nat]
  /\ faults \in Nat

RmqInit ==
  /\ main = [m \in Msg |-> [n \in Count |-> 0]]
  /\ retry = [m \in Msg |-> [n \in Count |-> 0]]
  /\ dlq = [m \in Msg |-> 0]
  /\ dropped = [m \in Msg |-> 0]
  /\ run = [k \in Slot |-> Idle]
  /\ handled = [m \in Msg |-> 0]
  /\ failures = [m \in Msg |-> 0]
  /\ published = [m \in Msg |-> 0]
  /\ faults = 0

IsIdle(k) == run[k] = Idle
At(k, pc) == ~IsIdle(k) /\ run[k].pc = pc
Live(k) == ~IsIdle(k) /\ run[k].live
Goto(k, pc) == run' = [run EXCEPT ![k].pc = pc]
Free(k) == run' = [run EXCEPT ![k] = Idle]
\* Mutant of Requeued: deliveries are acked when they are made (noAck).
NotRequeued(k) == k \in Slot /\ UNCHANGED main

Requeued(k) == main' = [main EXCEPT ![run[k].msg][run[k].n] = @ + 1]
-----------------------------------------------------------------------------
\* The producer: an outbox relay may put several copies of an event, a
\* requester sends a request once.
Publish(m) ==
  /\ published[m] < IF m \in Rpc THEN 1 ELSE MaxPublish
  /\ published' = [published EXCEPT ![m] = @ + 1]
  /\ main' = [main EXCEPT ![m][0] = @ + 1]
  /\ UNCHANGED <<retry, dlq, dropped, run, handled, failures, faults>>

\* The broker pushes a copy to a connection that has nothing unacked.
Deliver(k, m, n) ==
  /\ IsIdle(k)
  /\ Cardinality({j \in Slot : Live(j)}) < Consumers
  /\ main[m][n] > 0
  /\ main' = [main EXCEPT ![m][n] = @ - 1]
  /\ run' = [run EXCEPT ![k] = [pc |-> "running", msg |-> m, n |-> n,
                                live |-> TRUE]]
  /\ UNCHANGED <<retry, dlq, dropped, history, faults>>

\* Mutant of RetryExpires: only a first retry has a TTL.
RetryExpiresFirst(m, n) ==
  /\ n <= 1 /\ retry[m][n] > 0
  /\ retry' = [retry EXCEPT ![m][n] = @ - 1]
  /\ main' = [main EXCEPT ![m][n] = @ + 1]
  /\ UNCHANGED <<dlq, dropped, run, history, faults>>

\* The TTL of the retry queue dead-letters the copy back to the main queue.
RetryExpires(m, n) ==
  /\ retry[m][n] > 0
  /\ retry' = [retry EXCEPT ![m][n] = @ - 1]
  /\ main' = [main EXCEPT ![m][n] = @ + 1]
  /\ UNCHANGED <<dlq, dropped, run, history, faults>>
-----------------------------------------------------------------------------
HandlerReturns(k) ==
  /\ At(k, "running")
  /\ Goto(k, "succeeded")
  /\ handled' = [handled EXCEPT ![run[k].msg] = @ + 1]
  /\ UNCHANGED <<broker, failures, published, faults>>

HandlerThrows(k) ==
  /\ At(k, "running")
  /\ Goto(k, "failed")
  /\ failures' = [failures EXCEPT ![run[k].msg] = @ + 1]
  /\ UNCHANGED <<broker, handled, published, faults>>

\* The guard throws before the interceptor is entered: the error reply goes
\* out, the delivery stays unacked.
GuardRejects(k) ==
  /\ At(k, "running")
  /\ run[k].msg \in Guarded
  /\ Goto(k, "rejected")
  /\ UNCHANGED <<broker, history, faults>>

\* Mutant of Ack: a request is nacked and requeued once it is answered.
NackRequest(k) ==
  /\ At(k, "succeeded") \/ At(k, "failed")
  /\ Live(k)
  /\ Requeued(k)
  /\ Free(k)
  /\ UNCHANGED <<retry, dlq, dropped, history, faults>>

\* tap: ack after the handler; catchError: ack a failed request, and ack an
\* event whose copy has been re-routed.
Ack(k) ==
  /\ \/ At(k, "succeeded")
     \/ At(k, "failed") /\ run[k].msg \in Rpc
     \/ At(k, "rerouted")
  /\ Live(k)
  /\ Free(k)
  /\ UNCHANGED <<broker, history, faults>>

FailedEvent(k) == At(k, "failed") /\ Live(k) /\ run[k].msg \notin Rpc

\* Mutant of RouteToRetry: the original is also put back on the queue.
RouteToRetryAndRequeue(k) ==
  /\ FailedEvent(k)
  /\ run[k].n < MaxRetries /\ RetryQueue
  /\ retry' = [retry EXCEPT ![run[k].msg][run[k].n + 1] = @ + 1]
  /\ Requeued(k)
  /\ Free(k)
  /\ UNCHANGED <<dlq, dropped, history, faults>>

\* handleEventFailure: retry queue, then dead-letter queue, else drop.
RouteToRetry(k) ==
  /\ FailedEvent(k)
  /\ run[k].n < MaxRetries /\ RetryQueue
  /\ retry' = [retry EXCEPT ![run[k].msg][run[k].n + 1] = @ + 1]
  /\ Goto(k, "rerouted")
  /\ UNCHANGED <<main, dlq, dropped, history, faults>>

\* Mutant of GiveUp: an event is parked at its first failure.
GiveUpAtOnce(k) ==
  /\ FailedEvent(k)
  /\ dlq' = [dlq EXCEPT ![run[k].msg] = @ + 1]
  /\ Goto(k, "rerouted")
  /\ UNCHANGED <<main, retry, dropped, history, faults>>

Park(k) ==
  /\ dlq' = [dlq EXCEPT ![run[k].msg] = @ + 1]
  /\ Goto(k, "rerouted")
  /\ UNCHANGED <<main, retry, dropped, history, faults>>

Drop(k) ==
  /\ dropped' = [dropped EXCEPT ![run[k].msg] = @ + 1]
  /\ Free(k)
  /\ UNCHANGED <<main, retry, dlq, history, faults>>

GiveUp(k) ==
  /\ FailedEvent(k)
  /\ ~(run[k].n < MaxRetries /\ RetryQueue)
  /\ IF DeadLetterQueue THEN Park(k) ELSE Drop(k)

\* A handler that outlived its channel: its ack or republish goes nowhere.
StaleEnds(k) ==
  /\ ~IsIdle(k) /\ ~Live(k) /\ ~At(k, "running")
  /\ Free(k)
  /\ UNCHANGED <<broker, history, faults>>
-----------------------------------------------------------------------------
\* The connection dies: the unacked copy is requeued, the handler runs on.
LoseConnection(k) ==
  /\ faults < MaxFaults
  /\ faults' = faults + 1
  /\ Live(k)
  /\ Requeued(k)
  /\ run' = [run EXCEPT ![k].live = FALSE]
  /\ UNCHANGED <<retry, dlq, dropped, history>>

\* The process dies: the handler with it.
Crash(k) ==
  /\ faults < MaxFaults
  /\ faults' = faults + 1
  /\ ~IsIdle(k)
  /\ IF Live(k) THEN Requeued(k) ELSE UNCHANGED main
  /\ Free(k)
  /\ UNCHANGED <<retry, dlq, dropped, history>>
-----------------------------------------------------------------------------
Settle(k) == \/ Ack(k) \/ RouteToRetry(k) \/ GiveUp(k) \/ StaleEnds(k)

\* What goes on without the handler's doing, for modules that refine it.
Transport == \/ \E m \in Msg : Publish(m)
             \/ \E k \in Slot, m \in Msg, n \in Count : Deliver(k, m, n)
             \/ \E m \in Msg, n \in Count : RetryExpires(m, n)

RmqNext == \/ Transport
           \/ \E k \in Slot : \/ HandlerReturns(k) \/ HandlerThrows(k)
                              \/ GuardRejects(k)
                              \/ Settle(k)
                              \/ LoseConnection(k) \/ Crash(k)

RmqSpec == RmqInit /\ [][RmqNext]_rmqVars
-----------------------------------------------------------------------------
\* A copy of m the broker still owes somebody.
InFlight(m) == \/ \E n \in Count : main[m][n] > 0 \/ retry[m][n] > 0
               \/ \E k \in Slot : Live(k) /\ run[k].msg = m

\* An event that was published and that no handler has finished is still in
\* the broker or parked in the DLQ, through any crash, lost connection and
\* failure: "a handler that crashes mid-processing leaves the message unacked
\* and it gets redelivered, instead of being lost" (rmq-reliability
\* .interceptor.ts:22-25).
NeverLost ==
  \A m \in Msg \ Rpc :
    published[m] > 0 /\ handled[m] = 0 => InFlight(m) \/ dlq[m] > 0

\* Without retry and dead-letter queues (auth, farms) only a failing handler
\* loses an event; crashes and lost connections still do not.
LostOnlyByFailure ==
  \A m \in Msg \ Rpc :
    published[m] > 0 /\ handled[m] = 0 /\ failures[m] = 0 => InFlight(m)

\* The part of NeverLost that is inductive: what will still be handled is not
\* the copy whose outcome is already decided.
Owed(m) == \/ \E n \in Count : main[m][n] > 0 \/ retry[m][n] > 0
           \/ \E k \in Slot : Live(k) /\ run[k].msg = m
                               /\ run[k].pc \in {"running", "failed"}
OwedUntilHandled ==
  \A m \in Msg \ Rpc :
    published[m] > 0 /\ handled[m] = 0 => Owed(m) \/ dlq[m] > 0

\* An event is parked only after maxRetries retries of that copy, so after
\* one execution more than that has failed.
ParkedAfterRetries ==
  \A m \in Msg : dlq[m] > 0 => failures[m] > MaxRetries

\* The copies a queue holds of one message, numbered for each retry count.
Copies(q) == UNION {{<<n, i>> : i \in 1..q[n]} : n \in Count}

\* Copies of m in the queues, or discarded from them.
Queued(m) == Cardinality(Copies(main[m])) + Cardinality(Copies(retry[m]))
             + dlq[m] + dropped[m]

\* "RPC: ack on success and on error" (rmq-reliability.interceptor.ts:29-30):
\* a delivery is unacked only while its handler or its outcome is being
\* processed, so no connection stays blocked on a finished request.
FinishedIsAcked == \A k \in Slot : ~(At(k, "rejected") /\ Live(k))
=============================================================================
