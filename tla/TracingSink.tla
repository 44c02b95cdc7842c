----------------------------- MODULE TracingSink -----------------------------
(***************************************************************************)
(* The tracing service: TracingService.recordEvent as the handler of the    *)
(* consumer in RmqConsumer.  A handler claims the event's idempotency key   *)
(* in Redis (SET NX), writes the history document to Mongo, and deletes the *)
(* claim again if the write fails.  The three stores are not one            *)
(* transaction, so the handler takes several steps, and other deliveries,   *)
(* lost connections and crashes come between them.                          *)
(***************************************************************************)
EXTENDS RmqConsumer, Functions

CONSTANT StoreFaults \* the store failures considered, see StoreFault

\* "claimInDoubt": SET NX took effect but the call rejected; "saveInDoubt": so
\* did the insert; "undoFails": the compensating DEL rejected; "keyExpires": a
\* claim reached its TTL.  They count as disturbances under the bound MaxFaults,
\* a call that just fails does not.
StoreFault == {"claimInDoubt", "saveInDoubt", "undoFails", "keyExpires"}

ASSUME StoreAssumption == StoreFaults \subseteq StoreFault

VARIABLES
  claims, \* idempotency keys set in Redis, one per event
  docs,   \* documents of each event in the history
  step,   \* where each running handler is: "start", "claimed", "undo"
  mishaps \* how many store failures of each kind there were

store == <<claims, docs, step, mishaps>>
vars == <<rmqVars, store>>

TypeOK ==
  /\ RmqTypeOK
  /\ claims \in SUBSET Msg
  /\ docs \in [Msg -> Nat]
  /\ step \in [Slot -> {"start", "claimed", "undo"}]
  /\ mishaps \in [StoreFault -> Nat]

Init ==
  /\ RmqInit
  /\ claims = {}
  /\ docs = [m \in Msg |-> 0]
  /\ step = [k \in Slot |-> "start"]
  /\ mishaps = [f \in StoreFault |-> 0]

InStep(k, s) == At(k, "running") /\ step[k] = s
\* A handler that owns the claim of m and has not decided its outcome.
Writes(k, m) == /\ At(k, "running")
                /\ step[k] \in {"claimed", "undo"}
                /\ run[k].msg = m
Become(k, s) == step' = [step EXCEPT ![k] = s]
Record(k) == docs' = [docs EXCEPT ![run[k].msg] = @ + 1]
\* Everything that has gone wrong so far.
Disturbances == FoldFunction(+, faults, mishaps)
Mishap(f) == /\ f \in StoreFaults
             /\ Disturbances < MaxFaults
             /\ mishaps' = [mishaps EXCEPT ![f] = @ + 1]
-----------------------------------------------------------------------------
\* Mutant of Claim: SET without NX.
ClaimUnchecked(k) ==
  /\ InStep(k, "start")
  /\ claims' = claims \cup {run[k].msg}
  /\ Become(k, "claimed")
  /\ UNCHANGED <<rmqVars, docs, mishaps>>

\* setIfAbsent returned true: the key was not there.
Claim(k) ==
  /\ InStep(k, "start")
  /\ run[k].msg \notin claims
  /\ claims' = claims \cup {run[k].msg}
  /\ Become(k, "claimed")
  /\ UNCHANGED <<rmqVars, docs, mishaps>>

\* setIfAbsent returned false: nothing to do, the delivery is acked.
Dedupe(k) ==
  /\ InStep(k, "start")
  /\ run[k].msg \in claims
  /\ HandlerReturns(k)
  /\ UNCHANGED store

\* setIfAbsent rejected; no compensation, the call is outside the try.
ClaimFails(k) ==
  /\ InStep(k, "start")
  /\ \/ UNCHANGED <<claims, mishaps>>
     \/ Mishap("claimInDoubt") /\ claims' = claims \cup {run[k].msg}
  /\ HandlerThrows(k)
  /\ UNCHANGED <<docs, step>>

\* Mutant of Save: the claim is released after success as well.
SaveReleases(k) ==
  /\ InStep(k, "claimed")
  /\ Record(k)
  /\ claims' = claims \ {run[k].msg}
  /\ Become(k, "start")
  /\ HandlerReturns(k)
  /\ UNCHANGED mishaps

\* The document is written and the handler returns it.
Save(k) ==
  /\ InStep(k, "claimed")
  /\ Record(k)
  /\ Become(k, "start")
  /\ HandlerReturns(k)
  /\ UNCHANGED <<claims, mishaps>>

\* The write rejected.
SaveFails(k) ==
  /\ InStep(k, "claimed")
  /\ UNCHANGED <<docs, mishaps>> \/ (Mishap("saveInDoubt") /\ Record(k))
  /\ Become(k, "undo")
  /\ UNCHANGED <<rmqVars, claims>>

\* Mutant of Undo: the catch rethrows without deleting the claim.
UndoKeepsClaim(k) ==
  /\ InStep(k, "undo")
  /\ Become(k, "start")
  /\ HandlerThrows(k)
  /\ UNCHANGED <<claims, docs, mishaps>>

\* The claim is rolled back and the error rethrown.
Undo(k) ==
  /\ InStep(k, "undo")
  /\ \/ claims' = claims \ {run[k].msg} /\ UNCHANGED mishaps
     \/ Mishap("undoFails") /\ UNCHANGED claims
  /\ Become(k, "start")
  /\ HandlerThrows(k)
  /\ UNCHANGED docs

\* The process dies: whatever the handler had not done is not done.
Die(k) ==
  /\ Crash(k)
  /\ Become(k, "start")
  /\ UNCHANGED <<claims, docs, mishaps>>
-----------------------------------------------------------------------------
RecordEvent(k) == \/ Claim(k) \/ Dedupe(k) \/ ClaimFails(k)
                  \/ Save(k) \/ SaveFails(k) \/ Undo(k)

\* The key reaches IDEM_TTL_SECONDS; a day is longer than any handler takes.
Expire(m) ==
  /\ m \in claims
  /\ \A k \in Slot : ~Writes(k, m)
  /\ Mishap("keyExpires")
  /\ claims' = claims \ {m}
  /\ UNCHANGED <<rmqVars, docs, step>>

Around(k) == (Settle(k) \/ LoseConnection(k)) /\ UNCHANGED store

Next == \/ Transport /\ UNCHANGED store
        \/ \E k \in Slot : RecordEvent(k) \/ Around(k) \/ Die(k)
        \/ \E m \in Msg : Expire(m)

Spec == Init /\ [][Next]_vars

FairSpec ==
  /\ Spec
  /\ \A k \in Slot :
       /\ WF_vars((\E m \in Msg, n \in Count : Deliver(k, m, n)) /\ UNCHANGED store)
       /\ WF_vars(RecordEvent(k))
       /\ WF_vars(Settle(k) /\ UNCHANGED store)
  /\ WF_vars((\E m \in Msg, n \in Count : RetryExpires(m, n)) /\ UNCHANGED store)
-----------------------------------------------------------------------------
\* The claim is a lock: however deliveries overlap, at most one handler is
\* between claiming an event and settling the claim, and the key is set while
\* it is there.
OneWriter ==
  \A m \in Msg :
    /\ Cardinality({k \in Slot : Writes(k, m)}) <= 1
    /\ (\E k \in Slot : Writes(k, m)) => m \in claims

\* "Process-once" (tracing.service.ts:28): an event has one document in the
\* history, through duplicates, redeliveries, crashes and claims in doubt; every
\* document more is a write that took effect and was reported as failed, or a
\* copy that came after the key's TTL.
OneDocPerEvent ==
  \A m \in Msg : docs[m] <= 1 + mishaps["saveInDoubt"] + mishaps["keyExpires"]

\* "so a failure doesn't permanently swallow the event" (tracing.service.ts:
\* 28-30): an event with no document is still in the broker or in the DLQ.
NotSwallowed ==
  \A m \in Msg : published[m] > 0 /\ docs[m] = 0 => InFlight(m) \/ dlq[m] > 0

\* What the compensation does achieve: as long as no process dies, no
\* connection is lost, no store call is in doubt and no key expires, two
\* replicas whose writes fail and whose copies are deduplicated against each
\* other swallow nothing, and every event is recorded or parked in the end.
Calm == faults = 0 /\ \A f \in StoreFault : mishaps[f] = 0
RecordedOrParked ==
  []Calm => \A m \in Msg : published[m] > 0 ~> (docs[m] > 0 \/ dlq[m] > 0)
=============================================================================
