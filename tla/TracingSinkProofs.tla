--------------------------- MODULE TracingSinkProofs ---------------------------
(***************************************************************************)
(* For any events, handlers, faults and store failures: the tracing service *)
(* is a consumer as RmqConsumer describes one, the claim in Redis is a lock, *)
(* each document more than one of an event has its cause, and so has each   *)
(* event that is swallowed.                                                 *)
(***************************************************************************)
EXTENDS TracingSink, RmqConsumerProofs, FiniteSetTheorems

USE DEF store, broker, history, rmqVars

\* The actions under Next, for case splits.
LEMMA NextCases ==
  ASSUME [Next]_vars
  PROVE  \/ Transport /\ UNCHANGED store
         \/ \E k \in Slot : \/ Claim(k) \/ Dedupe(k) \/ ClaimFails(k)
                            \/ Save(k) \/ SaveFails(k) \/ Undo(k)
                            \/ Settle(k) /\ UNCHANGED store
                            \/ LoseConnection(k) /\ UNCHANGED store
                            \/ Die(k)
         \/ \E m \in Msg : Expire(m)
         \/ UNCHANGED vars
  BY DEF Next, RecordEvent, Around

\* Every step of the service is a step of the consumer, or leaves it alone.
LEMMA StepOfConsumer == [Next]_vars => [RmqNext]_rmqVars
<1> SUFFICES ASSUME [Next]_vars PROVE [RmqNext]_rmqVars
  OBVIOUS
<1>1. CASE Transport /\ UNCHANGED store
  BY <1>1 DEF RmqNext
<1>2. ASSUME NEW k \in Slot,
             \/ Claim(k) \/ Dedupe(k) \/ ClaimFails(k)
             \/ Save(k) \/ SaveFails(k) \/ Undo(k)
      PROVE  [RmqNext]_rmqVars
  BY <1>2 DEF Claim, Dedupe, ClaimFails, Save, SaveFails, Undo, RmqNext
<1>3. ASSUME NEW k \in Slot, Settle(k) \/ LoseConnection(k) \/ Die(k)
      PROVE  [RmqNext]_rmqVars
  BY <1>3 DEF Die, RmqNext
<1>4. ASSUME NEW m \in Msg, Expire(m) PROVE [RmqNext]_rmqVars
  BY <1>4 DEF Expire
<1>5. CASE UNCHANGED vars
  BY <1>5 DEF vars
<1>6. QED BY <1>1, <1>2, <1>3, <1>4, <1>5, NextCases

\* The service implements the consumer.
THEOREM ImplementsConsumer == Spec => RmqSpec
<1>1. Init => RmqInit
  BY DEF Init
<1>2. QED BY <1>1, StepOfConsumer, PTL DEF Spec, RmqSpec
-----------------------------------------------------------------------------
\* The inductive invariant.  A handler is past its start only while it runs;
\* the writer of an event is the only one and holds its key; and a document is
\* explained by the key that is still set, or by what went wrong.
StoreTypes ==
  /\ claims \in SUBSET Msg
  /\ docs \in [Msg -> Nat]
  /\ step \in [Slot -> {"start", "claimed", "undo"}]
  /\ mishaps \in [StoreFault -> Nat]

StepInHandler == \A k \in Slot : step[k] # "start" => At(k, "running")

ClaimIsLock ==
  /\ \A k \in Slot, m \in Msg : Writes(k, m) => m \in claims
  /\ \A j, k \in Slot, m \in Msg : Writes(j, m) /\ Writes(k, m) => j = k

Excess == mishaps["saveInDoubt"] + mishaps["keyExpires"]

DocsExplained ==
  /\ \A m \in Msg : /\ docs[m] <= 1 + Excess
                    /\ m \notin claims => docs[m] <= Excess
  /\ \A k \in Slot, m \in Msg : Writes(k, m) => docs[m] <= Excess

StoreInv == StoreTypes /\ StepInHandler /\ ClaimIsLock /\ DocsExplained

LEMMA MishapCounts ==
  ASSUME StoreTypes, NEW f \in StoreFault, Mishap(f)
  PROVE  /\ mishaps' \in [StoreFault -> Nat]
         /\ Excess' \in Nat /\ Excess' >= Excess
         /\ f \in {"saveInDoubt", "keyExpires"} => Excess' = Excess + 1
  BY DEF StoreTypes, Mishap, Excess, StoreFault

LEMMA ExcessType == StoreTypes => Excess \in Nat
  BY DEF StoreTypes, Excess, StoreFault

\* Steps that make nobody a writer, write nothing and release no key.
LEMMA NobodyWrites ==
  ASSUME StoreInv, StoreTypes', StepInHandler', UNCHANGED docs,
         claims \subseteq claims', Excess' >= Excess,
         \A k \in Slot, m \in Msg : Writes(k, m)' => Writes(k, m)
  PROVE  StoreInv'
<1>1. Excess \in Nat /\ Excess' \in Nat /\ docs \in [Msg -> Nat]
  BY ExcessType DEF StoreInv, StoreTypes, Excess, StoreFault
<1>2. ClaimIsLock'
  BY DEF StoreInv, ClaimIsLock
<1>3. DocsExplained'
  BY <1>1 DEF StoreInv, DocsExplained
<1>4. QED BY <1>2, <1>3 DEF StoreInv

\* Slot k leaves its handler, or was not in it: its step is "start" again.
LEMMA LeavesHandler ==
  ASSUME RmqTypeOK, StoreTypes, StepInHandler, NEW k \in Slot,
         step' = [step EXCEPT ![k] = "start"],
         \A j \in Slot : j # k => run'[j] = run[j]
  PROVE  /\ step' \in [Slot -> {"start", "claimed", "undo"}]
         /\ StepInHandler'
         /\ \A j \in Slot, m \in Msg :
              Writes(j, m)' => j # k /\ Writes(j, m)
  BY DEF StoreTypes, StepInHandler, Writes, At, IsIdle

\* What HandlerReturns and HandlerThrows do to the slots.
LEMMA OthersRun ==
  ASSUME RmqTypeOK, NEW k \in Slot, HandlerReturns(k) \/ HandlerThrows(k)
  PROVE  \A j \in Slot : j # k => run'[j] = run[j]
  BY DEF RmqTypeOK, HandlerReturns, HandlerThrows, Goto

\* Steps that leave the store alone and every running handler in its place.
LEMMA KeepsHandlers ==
  ASSUME StoreInv, UNCHANGED store,
         \A k \in Slot : At(k, "running") /\ step[k] # "start"
                           => At(k, "running")' /\ run'[k].msg = run[k].msg
  PROVE  StoreInv'
<1>1. StoreTypes' /\ UNCHANGED <<docs, claims, Excess>>
  BY DEF StoreInv, StoreTypes, Excess
<1>2. StepInHandler'
  BY DEF StoreInv, StepInHandler
<1>3. \A k \in Slot, m \in Msg : Writes(k, m)' => Writes(k, m)
  BY DEF StoreInv, StepInHandler, Writes
<1>4. Excess \in Nat
  BY ExcessType DEF StoreInv
<1>5. QED BY <1>1, <1>2, <1>3, <1>4, NobodyWrites

LEMMA TransportStep ==
  ASSUME RmqTypeOK, StoreInv, Transport, UNCHANGED store
  PROVE  StoreInv'
<1>1. ASSUME NEW j \in Slot, At(j, "running")
      PROVE  At(j, "running")' /\ run'[j].msg = run[j].msg
  <2>1. run'[j] = run[j]
    BY <1>1 DEF Transport, Publish, Deliver, RetryExpires, At, IsIdle, RmqTypeOK
  <2>2. QED BY <1>1, <2>1 DEF At, IsIdle
<1>2. QED BY <1>1, KeepsHandlers

LEMMA SettleStep ==
  ASSUME RmqTypeOK, StoreInv, NEW k \in Slot, Settle(k), UNCHANGED store
  PROVE  StoreInv'
<1>1. ~At(k, "running")
  BY DEF Settle, Ack, RouteToRetry, GiveUp, FailedEvent, StaleEnds, At
<1>2. \A j \in Slot : j # k => run'[j] = run[j]
  BY DEF RmqTypeOK, Settle, Ack, RouteToRetry, GiveUp, Park, Drop, StaleEnds,
         Free, Goto
<1>3. QED BY <1>1, <1>2, KeepsHandlers DEF At, IsIdle

LEMMA LoseConnectionStep ==
  ASSUME RmqTypeOK, StoreInv, NEW k \in Slot, LoseConnection(k), UNCHANGED store
  PROVE  StoreInv'
<1>1. ASSUME NEW j \in Slot, At(j, "running")
      PROVE  At(j, "running")' /\ run'[j].msg = run[j].msg
  <2>1. CASE j # k
    BY <1>1, <2>1 DEF RmqTypeOK, LoseConnection, At, IsIdle
  <2>2. CASE j = k
    <3>1. run[k] \in Busy /\ run[k].pc = "running"
      BY <1>1, <2>2, BusyRun DEF At
    <3>2. run'[k] = [run[k] EXCEPT !.live = FALSE]
      BY DEF RmqTypeOK, LoseConnection
    <3>3. /\ run'[k] \in Busy
          /\ run'[k].pc = "running" /\ run'[k].msg = run[k].msg
      BY <3>1, <3>2 DEF Busy
    <3>4. QED BY <2>2, <3>3, IdleIsNotBusy DEF At, IsIdle
  <2>3. QED BY <2>1, <2>2
<1>2. QED BY <1>1, KeepsHandlers

\* A handler that starts nothing ends: the claim was there, or the call failed.
LEMMA DedupeStep ==
  ASSUME RmqTypeOK, StoreInv, NEW k \in Slot, Dedupe(k)
  PROVE  StoreInv'
<1>1. \A j \in Slot : j # k => run'[j] = run[j]
  BY OthersRun DEF Dedupe
<1>2. step[k] = "start" /\ UNCHANGED store
  BY DEF Dedupe, InStep
<1>3. QED BY <1>1, <1>2, KeepsHandlers DEF At, IsIdle

LEMMA ClaimFailsStep ==
  ASSUME RmqTypeOK, StoreInv, NEW k \in Slot, ClaimFails(k)
  PROVE  StoreInv'
<1>1. \A j \in Slot : j # k => run'[j] = run[j]
  BY OthersRun DEF ClaimFails
<1>2. step[k] = "start" /\ UNCHANGED <<docs, step>> /\ run[k].msg \in Msg
  BY BusyRun DEF ClaimFails, InStep, At
<1>3. StepInHandler'
  BY <1>1, <1>2 DEF StoreInv, StepInHandler, At, IsIdle
<1>4. \A j \in Slot, m \in Msg : Writes(j, m)' => Writes(j, m)
  BY <1>1, <1>2 DEF Writes, At, IsIdle
<1>5. CASE UNCHANGED <<claims, mishaps>>
  <2>1. StoreTypes' /\ Excess' = Excess /\ Excess \in Nat
    BY <1>2, <1>5, ExcessType DEF StoreInv, StoreTypes, Excess
  <2>2. QED BY <1>2, <1>3, <1>4, <1>5, <2>1, NobodyWrites
<1>6. CASE Mishap("claimInDoubt") /\ claims' = claims \cup {run[k].msg}
  <2>1. mishaps' \in [StoreFault -> Nat] /\ Excess' >= Excess
    BY <1>6, MishapCounts DEF StoreInv, StoreFault
  <2>2. StoreTypes'
    BY <1>2, <1>6, <2>1 DEF StoreInv, StoreTypes
  <2>3. QED BY <1>2, <1>3, <1>4, <1>6, <2>1, <2>2, NobodyWrites
<1>7. QED BY <1>5, <1>6 DEF ClaimFails

LEMMA DieStep ==
  ASSUME RmqTypeOK, StoreInv, NEW k \in Slot, Die(k)
  PROVE  StoreInv'
<1>1. \A j \in Slot : j # k => run'[j] = run[j]
  BY DEF Die, Crash, Free, RmqTypeOK
<1>2. /\ step' \in [Slot -> {"start", "claimed", "undo"}] /\ StepInHandler'
      /\ \A j \in Slot, m \in Msg : Writes(j, m)' => Writes(j, m)
  BY <1>1, LeavesHandler DEF Die, Become, StoreInv
<1>3. UNCHANGED <<claims, docs, mishaps>>
  BY DEF Die
<1>4. StoreTypes' /\ Excess' = Excess /\ Excess \in Nat
  BY <1>2, <1>3, ExcessType DEF StoreInv, StoreTypes, Excess
<1>5. QED BY <1>2, <1>3, <1>4, NobodyWrites

\* The claim: the key was not set, so nobody holds it.
LEMMA ClaimStep ==
  ASSUME RmqTypeOK, StoreInv, NEW k \in Slot, Claim(k)
  PROVE  StoreInv'
<1> DEFINE m == run[k].msg
<1>1. /\ m \in Msg /\ m \notin claims /\ At(k, "running")
      /\ claims' = claims \cup {m} /\ step' = [step EXCEPT ![k] = "claimed"]
      /\ UNCHANGED <<run, docs, mishaps>>
  BY BusyRun DEF Claim, InStep, At, Become
<1>2. Excess \in Nat /\ Excess' = Excess /\ docs \in [Msg -> Nat]
  BY <1>1, ExcessType DEF StoreInv, StoreTypes, Excess
<1>3. StoreTypes' /\ StepInHandler'
  BY <1>1 DEF StoreInv, StoreTypes, StepInHandler, At, IsIdle
<1>4. ASSUME NEW j \in Slot, NEW p \in Msg, Writes(j, p)'
      PROVE  (j = k /\ p = m) \/ (Writes(j, p) /\ p \in claims /\ p # m)
  BY <1>1, <1>4 DEF StoreInv, StoreTypes, ClaimIsLock, Writes, At, IsIdle
<1>5. ClaimIsLock'
  BY <1>1, <1>4 DEF StoreInv, ClaimIsLock
<1>6. DocsExplained'
  BY <1>1, <1>2, <1>4 DEF StoreInv, DocsExplained
<1>7. QED BY <1>3, <1>5, <1>6 DEF StoreInv

\* The write, reported as done: its one document is the claim's.
LEMMA SaveStep ==
  ASSUME RmqTypeOK, StoreInv, NEW k \in Slot, Save(k)
  PROVE  StoreInv'
<1> DEFINE m == run[k].msg
<1>1. /\ m \in Msg /\ Writes(k, m)
      /\ docs' = [docs EXCEPT ![m] = @ + 1]
      /\ step' = [step EXCEPT ![k] = "start"] /\ UNCHANGED <<claims, mishaps>>
  BY BusyRun DEF Save, InStep, At, Become, Record, Writes
<1>2. Excess \in Nat /\ Excess' = Excess /\ docs \in [Msg -> Nat]
  BY <1>1, ExcessType DEF StoreInv, StoreTypes, Excess
<1>3. \A j \in Slot : j # k => run'[j] = run[j]
  BY OthersRun DEF Save
<1>4. /\ step' \in [Slot -> {"start", "claimed", "undo"}] /\ StepInHandler'
      /\ \A j \in Slot, p \in Msg : Writes(j, p)' => j # k /\ Writes(j, p)
  BY <1>1, <1>3, LeavesHandler DEF StoreInv
<1>5. docs' \in [Msg -> Nat] /\ docs'[m] = docs[m] + 1
  BY <1>1, <1>2, TallyType
<1>6. StoreTypes'
  BY <1>1, <1>4, <1>5 DEF StoreInv, StoreTypes
<1>7. ClaimIsLock'
  BY <1>1, <1>4 DEF StoreInv, ClaimIsLock
<1>8. m \in claims /\ docs[m] <= Excess
      /\ \A j \in Slot, p \in Msg : Writes(j, p)' => p # m
  BY <1>1, <1>4 DEF StoreInv, ClaimIsLock, DocsExplained
<1>9. \A p \in Msg : p # m => docs'[p] = docs[p]
  BY <1>1, <1>2
<1>10. DocsExplained'
  BY <1>1, <1>2, <1>4, <1>5, <1>8, <1>9 DEF StoreInv, DocsExplained
<1>11. QED BY <1>4, <1>6, <1>7, <1>10 DEF StoreInv

\* The write, reported as failed: a document it left all the same is an excess.
LEMMA SaveFailsStep ==
  ASSUME RmqTypeOK, StoreInv, NEW k \in Slot, SaveFails(k)
  PROVE  StoreInv'
<1> DEFINE m == run[k].msg
<1>1. /\ m \in Msg /\ Writes(k, m) /\ At(k, "running")
      /\ step' = [step EXCEPT ![k] = "undo"] /\ UNCHANGED <<run, claims>>
  BY BusyRun DEF SaveFails, InStep, At, Become, Writes
<1>2. Excess \in Nat /\ docs \in [Msg -> Nat]
  BY ExcessType DEF StoreInv, StoreTypes
<1>3. /\ step' \in [Slot -> {"start", "claimed", "undo"}] /\ StepInHandler'
      /\ \A j \in Slot, p \in Msg : Writes(j, p)' => Writes(j, p)
  BY <1>1 DEF StoreInv, StoreTypes, StepInHandler, Writes, At, IsIdle
<1>4. ClaimIsLock'
  BY <1>1, <1>3 DEF StoreInv, ClaimIsLock
<1>5. CASE UNCHANGED <<docs, mishaps>>
  <2>1. StoreTypes' /\ Excess' = Excess
    BY <1>1, <1>3, <1>5 DEF StoreInv, StoreTypes, Excess
  <2>2. DocsExplained'
    BY <1>1, <1>2, <1>3, <1>5, <2>1 DEF StoreInv, DocsExplained
  <2>3. QED BY <1>3, <1>4, <2>1, <2>2 DEF StoreInv
<1>6. CASE Mishap("saveInDoubt") /\ Record(k)
  <2>1. mishaps' \in [StoreFault -> Nat] /\ Excess' = Excess + 1
    BY <1>6, MishapCounts DEF StoreInv, StoreFault
  <2>2. docs' = [docs EXCEPT ![m] = @ + 1] /\ docs' \in [Msg -> Nat]
    BY <1>1, <1>2, <1>6, TallyType DEF Record
  <2>3. StoreTypes'
    BY <1>1, <1>3, <2>1, <2>2 DEF StoreInv, StoreTypes
  <2>4. \A p \in Msg : docs'[p] <= docs[p] + 1
    BY <1>2, <2>2
  <2>5. DocsExplained'
    BY <1>1, <1>2, <1>3, <2>1, <2>2, <2>4 DEF StoreInv, DocsExplained
  <2>6. QED BY <1>3, <1>4, <2>3, <2>5 DEF StoreInv
<1>7. QED BY <1>5, <1>6 DEF SaveFails

\* The rollback: the holder of the key has written nothing that counts.
LEMMA UndoStep ==
  ASSUME RmqTypeOK, StoreInv, NEW k \in Slot, Undo(k)
  PROVE  StoreInv'
<1> DEFINE m == run[k].msg
<1>1. /\ m \in Msg /\ Writes(k, m)
      /\ step' = [step EXCEPT ![k] = "start"] /\ UNCHANGED docs
  BY BusyRun DEF Undo, InStep, At, Become, Writes
<1>2. Excess \in Nat /\ docs \in [Msg -> Nat]
  BY ExcessType DEF StoreInv, StoreTypes
<1>3. \A j \in Slot : j # k => run'[j] = run[j]
  BY OthersRun DEF Undo
<1>4. /\ step' \in [Slot -> {"start", "claimed", "undo"}] /\ StepInHandler'
      /\ \A j \in Slot, p \in Msg : Writes(j, p)' => j # k /\ Writes(j, p)
  BY <1>1, <1>3, LeavesHandler DEF StoreInv
<1>5. CASE claims' = claims \ {m} /\ UNCHANGED mishaps
  <2>1. StoreTypes' /\ Excess' = Excess
    BY <1>1, <1>4, <1>5 DEF StoreInv, StoreTypes, Excess
  <2>2. ClaimIsLock'
    BY <1>1, <1>4, <1>5 DEF StoreInv, ClaimIsLock
  <2>3. docs[m] <= Excess
    BY <1>1 DEF StoreInv, DocsExplained
  <2>4. DocsExplained'
    BY <1>1, <1>2, <1>4, <1>5, <2>1, <2>3 DEF StoreInv, DocsExplained
  <2>5. QED BY <1>4, <2>1, <2>2, <2>4 DEF StoreInv
<1>6. CASE Mishap("undoFails") /\ UNCHANGED claims
  <2>1. mishaps' \in [StoreFault -> Nat] /\ Excess' >= Excess
    BY <1>6, MishapCounts DEF StoreInv, StoreFault
  <2>2. StoreTypes'
    BY <1>1, <1>4, <1>6, <2>1 DEF StoreInv, StoreTypes
  <2>3. QED BY <1>1, <1>4, <1>6, <2>1, <2>2, NobodyWrites
<1>7. QED BY <1>5, <1>6 DEF Undo

\* The key's TTL: nobody is between claim and outcome, and the next document
\* is accounted to the expiry.
LEMMA ExpireStep ==
  ASSUME RmqTypeOK, StoreInv, NEW m \in Msg, Expire(m)
  PROVE  StoreInv'
<1>1. /\ \A k \in Slot : ~Writes(k, m)
      /\ claims' = claims \ {m} /\ UNCHANGED <<run, docs, step>>
  BY DEF Expire
<1>2. mishaps' \in [StoreFault -> Nat] /\ Excess' = Excess + 1
  BY MishapCounts DEF StoreInv, Expire, StoreFault
<1>3. Excess \in Nat /\ docs \in [Msg -> Nat]
  BY ExcessType DEF StoreInv, StoreTypes
<1>4. StoreTypes' /\ StepInHandler'
  BY <1>1, <1>2 DEF StoreInv, StoreTypes, StepInHandler, At, IsIdle
<1>5. \A k \in Slot, p \in Msg : Writes(k, p)' => Writes(k, p) /\ p # m
  BY <1>1 DEF Writes, At, IsIdle
<1>6. ClaimIsLock'
  BY <1>1, <1>5 DEF StoreInv, ClaimIsLock
<1>7. DocsExplained'
  BY <1>1, <1>2, <1>3, <1>5 DEF StoreInv, DocsExplained
<1>8. QED BY <1>4, <1>6, <1>7 DEF StoreInv
-----------------------------------------------------------------------------
\* The invariant is kept by every step.
LEMMA StoreInvStep ==
  ASSUME RmqTypeOK, StoreInv, [Next]_vars
  PROVE  StoreInv'
<1>1. CASE Transport /\ UNCHANGED store
  BY <1>1, TransportStep
<1>2. ASSUME NEW k \in Slot, Claim(k) PROVE StoreInv'
  BY <1>2, ClaimStep
<1>3. ASSUME NEW k \in Slot, Dedupe(k) PROVE StoreInv'
  BY <1>3, DedupeStep
<1>4. ASSUME NEW k \in Slot, ClaimFails(k) PROVE StoreInv'
  BY <1>4, ClaimFailsStep
<1>5. ASSUME NEW k \in Slot, Save(k) PROVE StoreInv'
  BY <1>5, SaveStep
<1>6. ASSUME NEW k \in Slot, SaveFails(k) PROVE StoreInv'
  BY <1>6, SaveFailsStep
<1>7. ASSUME NEW k \in Slot, Undo(k) PROVE StoreInv'
  BY <1>7, UndoStep
<1>8. ASSUME NEW k \in Slot, Settle(k), UNCHANGED store PROVE StoreInv'
  BY <1>8, SettleStep
<1>9. ASSUME NEW k \in Slot, LoseConnection(k), UNCHANGED store PROVE StoreInv'
  BY <1>9, LoseConnectionStep
<1>10. ASSUME NEW k \in Slot, Die(k) PROVE StoreInv'
  BY <1>10, DieStep
<1>11. ASSUME NEW m \in Msg, Expire(m) PROVE StoreInv'
  BY <1>11, ExpireStep
<1>12. CASE UNCHANGED vars
  BY <1>12, KeepsHandlers DEF vars, At, IsIdle
<1>13. QED BY <1>1, <1>2, <1>3, <1>4, <1>5, <1>6, <1>7, <1>8, <1>9, <1>10,
              <1>11, <1>12, NextCases

\* Every reachable state has the invariant.
LEMMA StoreInvariant == Spec => []StoreInv
<1>1. Init => StoreInv
  BY DEF Init, StoreInv, StoreTypes, StepInHandler, ClaimIsLock, DocsExplained,
         Excess, Writes, StoreFault
<1>2. Spec => []RmqTypeOK
  BY ImplementsConsumer, RmqTypeCorrect, PTL
<1>3. QED BY <1>1, <1>2, StoreInvStep, PTL DEF Spec

\* The state keeps its types: TypeOK of TracingSink.
THEOREM TracingTypeCorrect == Spec => []TypeOK
<1>1. Spec => []RmqTypeOK
  BY ImplementsConsumer, RmqTypeCorrect, PTL
<1>2. RmqTypeOK /\ StoreInv => TypeOK
  BY DEF StoreInv, StoreTypes, TypeOK
<1>3. QED BY <1>1, <1>2, StoreInvariant, PTL

\* The claim is a lock: OneWriter of TracingSink, for any number of handlers
\* and any faults.
THEOREM OneWriterAtATime == Spec => []OneWriter
<1>1. ASSUME StoreInv PROVE OneWriter
  <2>1. \A m \in Msg : (\E k \in Slot : Writes(k, m)) => m \in claims
    BY <1>1 DEF StoreInv, ClaimIsLock
  <2>2. ASSUME NEW m \in Msg
        PROVE  Cardinality({k \in Slot : Writes(k, m)}) <= 1
    <3> DEFINE W == {k \in Slot : Writes(k, m)}
    <3>1. CASE W = {}
      BY <3>1, FS_EmptySet
    <3>2. ASSUME NEW k \in W PROVE Cardinality(W) <= 1
      <4>1. W = {k}
        BY <1>1, <3>2 DEF StoreInv, ClaimIsLock
      <4>2. QED BY <4>1, FS_Singleton
    <3>3. QED BY <3>1, <3>2
  <2>3. QED BY <2>1, <2>2 DEF OneWriter
<1>2. QED BY <1>1, StoreInvariant, PTL

\* A document more than one has its cause: OneDocPerEvent of TracingSink, for
\* any number of copies, overlaps, lost connections and crashes.
THEOREM DocumentsAreExplained == Spec => []OneDocPerEvent
<1>1. ASSUME StoreInv PROVE OneDocPerEvent
  <2>1. mishaps["saveInDoubt"] \in Nat /\ mishaps["keyExpires"] \in Nat
    BY <1>1 DEF StoreInv, StoreTypes, StoreFault
  <2>2. docs \in [Msg -> Nat] /\ \A m \in Msg : docs[m] <= 1 + Excess
    BY <1>1 DEF StoreInv, StoreTypes, DocsExplained
  <2>3. QED BY <2>1, <2>2 DEF OneDocPerEvent, Excess
<1>2. QED BY <1>1, StoreInvariant, PTL
-----------------------------------------------------------------------------
\* NotSwallowed fails after a crash between claim and write.  What can make it
\* fail is no more than this: a lost process or connection, a claim that was set
\* although the call rejected, or a rollback that did not reach Redis.  Writes
\* that fail or are in doubt, keys that expire, duplicates and handlers that
\* overlap swallow nothing.

Steady == faults = 0 /\ mishaps["claimInDoubt"] = 0 /\ mishaps["undoFails"] = 0
SwallowedForCause == Steady => NotSwallowed

\* Until then a key without a document has a handler at work behind it, whose
\* delivery the broker still owes, so that others may take the key's word for it.
NoneIsStale == \A k \in Slot : ~IsIdle(k) => run[k].live
KeysAreWorkedOn ==
  \A m \in claims : docs[m] > 0 \/ \E k \in Slot : Writes(k, m)
OwedUntilRecorded ==
  \A m \in Msg : published[m] > 0 => docs[m] > 0 \/ Owed(m) \/ dlq[m] > 0

SteadyInv == Steady => NoneIsStale /\ KeysAreWorkedOn /\ OwedUntilRecorded

\* What went wrong stays on record.
LEMMA SteadyBefore ==
  ASSUME RmqTypeOK, StoreTypes, [Next]_vars, Steady'
  PROVE  /\ Steady
         /\ \A k \in Slot : ~LoseConnection(k) /\ ~Die(k)
         /\ ~Mishap("claimInDoubt") /\ ~Mishap("undoFails")
<1>1. /\ mishaps["claimInDoubt"] \in Nat /\ mishaps["undoFails"] \in Nat
      /\ mishaps \in [StoreFault -> Nat] /\ faults \in Nat
      /\ {"claimInDoubt", "undoFails"} \subseteq StoreFault
  BY DEF RmqTypeOK, StoreTypes, StoreFault
<1>2. faults' = faults \/ faults' = faults + 1
  <2>1. [RmqNext]_rmqVars
    BY StepOfConsumer
  <2>2. QED
    BY <2>1, RmqNextCases DEF Publish, Deliver, RetryExpires, HandlerReturns,
       HandlerThrows, GuardRejects, Ack, RouteToRetry, GiveUp, Park, Drop, StaleEnds,
       LoseConnection, Crash
<1>3. UNCHANGED mishaps \/ \E f \in StoreFault : Mishap(f)
  <2>1. ASSUME NEW k \in Slot, Die(k) PROVE UNCHANGED mishaps
    BY <2>1 DEF Die
  <2>2. ASSUME NEW k \in Slot, Claim(k) \/ Dedupe(k) \/ Save(k) PROVE UNCHANGED mishaps
    BY <2>2 DEF Claim, Dedupe, Save
  <2>3. ASSUME NEW k \in Slot, ClaimFails(k) \/ SaveFails(k) \/ Undo(k)
        PROVE  UNCHANGED mishaps \/ \E f \in StoreFault : Mishap(f)
    BY <2>3 DEF ClaimFails, SaveFails, Undo, StoreFault
  <2>4. ASSUME NEW m \in Msg, Expire(m) PROVE \E f \in StoreFault : Mishap(f)
    BY <2>4 DEF Expire, StoreFault
  <2>5. QED BY <2>1, <2>2, <2>3, <2>4, NextCases DEF vars
<1>4. ASSUME NEW f \in StoreFault, Mishap(f)
      PROVE  \A g \in StoreFault : mishaps'[g] = IF g = f THEN mishaps[g] + 1 ELSE mishaps[g]
  BY <1>1, <1>4 DEF Mishap
<1>5. /\ mishaps'["claimInDoubt"] >= mishaps["claimInDoubt"]
      /\ mishaps'["undoFails"] >= mishaps["undoFails"]
  BY <1>1, <1>3, <1>4
<1>6. Steady
  BY <1>1, <1>2, <1>5 DEF Steady
<1>7. ~Mishap("claimInDoubt") /\ ~Mishap("undoFails")
  BY <1>1, <1>4, <1>6 DEF Steady
<1>8. \A k \in Slot : ~LoseConnection(k) /\ ~Die(k)
  BY <1>6 DEF Steady, LoseConnection, Die, Crash
<1>9. QED BY <1>6, <1>7, <1>8

\* Only a lost connection leaves a handler behind.
LEMMA NoneIsStaleStep ==
  ASSUME RmqTypeOK, NoneIsStale, [RmqNext]_rmqVars,
         \A k \in Slot : ~LoseConnection(k)
  PROVE  NoneIsStale'
<1>1. ASSUME NEW k \in Slot, NEW m \in Msg, NEW n \in Count, Deliver(k, m, n)
      PROVE  NoneIsStale'
  BY <1>1 DEF NoneIsStale, RmqTypeOK, Deliver, IsIdle
<1>2. ASSUME NEW k \in Slot, Free(k) PROVE NoneIsStale'
  BY <1>2 DEF NoneIsStale, RmqTypeOK, Free, IsIdle
<1>3. ASSUME NEW k \in Slot, ~IsIdle(k),
             NEW pc \in {"succeeded", "failed", "rerouted", "rejected"}, Goto(k, pc)
      PROVE  NoneIsStale'
  <2>1. run'[k].live = run[k].live
    <3>1. PICK b \in Busy : b = run[k]
      BY <1>3, BusyRun
    <3>2. run'[k] = [b EXCEPT !.pc = pc]
      BY <1>3, <3>1 DEF RmqTypeOK, Goto
    <3>3. QED BY <3>1, <3>2 DEF Busy
  <2>2. \A j \in Slot : j # k => run'[j] = run[j]
    BY <1>3 DEF RmqTypeOK, Goto
  <2>3. QED BY <1>3, <2>1, <2>2 DEF NoneIsStale, IsIdle
<1>4. UNCHANGED run => NoneIsStale'
  BY DEF NoneIsStale, IsIdle
<1>5. ASSUME NEW k \in Slot, HandlerReturns(k) \/ HandlerThrows(k) \/ GuardRejects(k)
      PROVE  NoneIsStale'
  BY <1>3, <1>5 DEF HandlerReturns, HandlerThrows, GuardRejects, At
<1>6. ASSUME NEW k \in Slot, RouteToRetry(k) \/ GiveUp(k) PROVE NoneIsStale'
  BY <1>2, <1>3, <1>6 DEF RouteToRetry, GiveUp, Park, Drop, FailedEvent, At
<1>7. ASSUME NEW k \in Slot, Ack(k) \/ StaleEnds(k) \/ Crash(k) PROVE NoneIsStale'
  BY <1>2, <1>7 DEF Ack, StaleEnds, Crash
<1>8. UNCHANGED rmqVars \/ (\E m \in Msg : Publish(m))
        \/ (\E m \in Msg, n \in Count : RetryExpires(m, n)) => NoneIsStale'
  BY <1>4 DEF Publish, RetryExpires
<1>9. QED BY <1>1, <1>5, <1>6, <1>7, <1>8, RmqNextCases

\* The writer of a key writes on, records the event or gives the key back.
LEMMA WriterGoesOn ==
  ASSUME RmqTypeOK, StoreInv, [Next]_vars, Steady',
         NEW m \in Msg, NEW k \in Slot, Writes(k, m)
  PROVE  Writes(k, m)' \/ docs'[m] > 0 \/ m \notin claims'
<1>1. At(k, "running") /\ step[k] \in {"claimed", "undo"} /\ run[k].msg = m
  BY DEF Writes
<1>2. ASSUME run'[k] = run[k], step'[k] \in {"claimed", "undo"} PROVE Writes(k, m)'
  BY <1>1, <1>2 DEF Writes, At, IsIdle
<1>3. CASE Transport /\ UNCHANGED store
  <2>1. run'[k] = run[k]
    BY <1>1, <1>3 DEF Transport, Publish, Deliver, RetryExpires, At, IsIdle, RmqTypeOK
  <2>2. QED BY <1>1, <1>2, <1>3, <2>1
<1>4. ASSUME NEW j \in Slot, j # k,
             \/ Claim(j) \/ Dedupe(j) \/ ClaimFails(j)
             \/ Save(j) \/ SaveFails(j) \/ Undo(j)
      PROVE  Writes(k, m)'
  <2>1. run'[k] = run[k]
    BY <1>4, OthersRun DEF Claim, Dedupe, ClaimFails, Save, SaveFails, Undo
  <2>2. step'[k] = step[k]
    BY <1>4 DEF StoreInv, StoreTypes, Claim, Dedupe, ClaimFails, Save, SaveFails, Undo,
       Become
  <2>3. QED BY <1>1, <1>2, <2>1, <2>2
<1>5. CASE Save(k)
  <2>1. docs \in [Msg -> Nat] /\ docs' = [docs EXCEPT ![m] = @ + 1]
    BY <1>1, <1>5 DEF StoreInv, StoreTypes, Save, Record
  <2>2. QED BY <2>1
<1>6. CASE SaveFails(k)
  BY <1>1, <1>2, <1>6 DEF StoreInv, StoreTypes, SaveFails, Become
<1>7. CASE Undo(k)
  BY <1>1, <1>7, SteadyBefore DEF StoreInv, Undo
<1>8. ~Claim(k) /\ ~Dedupe(k) /\ ~ClaimFails(k)
  BY <1>1 DEF Claim, Dedupe, ClaimFails, InStep
<1>9. ASSUME NEW j \in Slot, Settle(j), UNCHANGED store PROVE Writes(k, m)'
  <2>1. ~At(j, "running") /\ \A i \in Slot : i # j => run'[i] = run[i]
    BY <1>9 DEF RmqTypeOK, Settle, Ack, RouteToRetry, GiveUp, Park, Drop, StaleEnds,
       Free, Goto, FailedEvent, At
  <2>2. QED BY <1>1, <1>2, <1>9, <2>1
<1>10. ASSUME NEW p \in Msg, Expire(p) PROVE Writes(k, m)'
  BY <1>1, <1>2, <1>10 DEF Expire
<1>11. CASE UNCHANGED vars
  BY <1>1, <1>2, <1>11 DEF vars
<1>12. QED
  BY <1>3, <1>4, <1>5, <1>6, <1>7, <1>8, <1>9, <1>10, <1>11, NextCases, SteadyBefore
  DEF StoreInv

\* No document is ever taken out of the history.
LEMMA DocsGrow ==
  ASSUME RmqTypeOK, StoreTypes, [Next]_vars, NEW m \in Msg
  PROVE  docs'[m] \in Nat /\ docs[m] \in Nat /\ docs'[m] >= docs[m]
<1>1. UNCHANGED docs \/ \E k \in Slot : Record(k)
  BY NextCases DEF vars, Claim, Dedupe, ClaimFails, Save, SaveFails, Undo, Die, Expire
<1>2. ASSUME NEW k \in Slot, Record(k) PROVE docs'[m] = docs[m] \/ docs'[m] = docs[m] + 1
  BY <1>2 DEF StoreTypes, Record
<1>3. docs[m] \in Nat
  BY DEF StoreTypes
<1>4. QED BY <1>1, <1>2, <1>3

LEMMA KeysStep ==
  ASSUME RmqTypeOK, StoreInv, [Next]_vars, Steady', KeysAreWorkedOn
  PROVE  KeysAreWorkedOn'
<1>1. claims \subseteq Msg /\ docs \in [Msg -> Nat]
  BY DEF StoreInv, StoreTypes
<1>2. \A m \in Msg : docs'[m] \in Nat /\ docs'[m] >= docs[m]
  BY DocsGrow DEF StoreInv
<1>3. ASSUME NEW m \in claims', m \notin claims PROVE \E k \in Slot : Writes(k, m)'
  <2>1. PICK k \in Slot : Claim(k) \/ ClaimFails(k)
    BY <1>3, NextCases DEF vars, Dedupe, Save, SaveFails, Undo, Die, Expire
  <2>2. Claim(k)
    BY <1>3, <2>1, SteadyBefore DEF StoreInv, ClaimFails
  <2>3. /\ At(k, "running") /\ claims' = claims \cup {run[k].msg}
        /\ step' = [step EXCEPT ![k] = "claimed"] /\ UNCHANGED run
    BY <2>2 DEF Claim, InStep, Become
  <2>4. Writes(k, m)'
    BY <1>3, <2>3 DEF StoreInv, StoreTypes, Writes, At, IsIdle
  <2>5. QED BY <2>4
<1>4. ASSUME NEW m \in claims', m \in claims
      PROVE  docs'[m] > 0 \/ \E k \in Slot : Writes(k, m)'
  <2>1. CASE docs[m] > 0
    BY <1>1, <1>2, <1>4, <2>1
  <2>2. ASSUME NEW k \in Slot, Writes(k, m) PROVE Writes(k, m)' \/ docs'[m] > 0
    BY <1>1, <1>4, <2>2, WriterGoesOn
  <2>3. QED BY <1>4, <2>1, <2>2 DEF KeysAreWorkedOn
<1>5. QED BY <1>3, <1>4 DEF KeysAreWorkedOn

\* A handler that returns has recorded the event, or has found its key set, and
\* then, without a document, somebody else is at work on it.
LEMMA RecordedStep ==
  ASSUME Rpc = {}, DeadLetterQueue, RmqTypeOK, RmqTypeOK', StoreInv, [Next]_vars,
         Steady', NoneIsStale', KeysAreWorkedOn, KeysAreWorkedOn', OwedUntilRecorded
  PROVE  OwedUntilRecorded'
<1> SUFFICES ASSUME NEW q \in Msg, published'[q] > 0, ~(docs'[q] > 0), ~(dlq'[q] > 0)
             PROVE  Owed(q)'
  BY DEF OwedUntilRecorded
<1>1. [RmqNext]_rmqVars
  BY StepOfConsumer
<1>2. /\ published[q] > 0 \/ Owed(q)'
      /\ dlq[q] \in Nat /\ dlq'[q] \in Nat /\ dlq'[q] >= dlq[q]
      /\ ~GivesUp(q)
  BY <1>1, HistoryStep DEF RmqTypeOK
<1>3. ~(docs[q] > 0)
  <2>1. docs[q] \in Nat /\ docs'[q] \in Nat /\ docs'[q] >= docs[q]
    BY DocsGrow DEF StoreInv
  <2>2. QED BY <2>1
<1>4. ASSUME Finishes(q) PROVE Owed(q)'
  <2>1. /\ handled[q] \in Nat /\ handled'[q] # handled[q]
        /\ docs'[q] \in Nat /\ docs[q] \in Nat
    <3>1. PICK k \in Slot : HandlerReturns(k) /\ run[k].msg = q
      BY <1>4 DEF Finishes
    <3>2. handled' = [handled EXCEPT ![q] = @ + 1] /\ handled \in [Msg -> Nat]
      BY <3>1 DEF HandlerReturns, RmqTypeOK
    <3>3. QED BY <3>2, DocsGrow DEF StoreInv
  <2>2. PICK j \in Slot : Save(j) \/ Dedupe(j)
    BY <2>1, NextCases DEF vars, Transport, Publish, Deliver, RetryExpires, Claim,
       ClaimFails, SaveFails, Undo, HandlerThrows, Settle, Ack, RouteToRetry, GiveUp,
       Park, Drop, StaleEnds, LoseConnection, Die, Crash, Expire
  <2>3. run[j].msg = q
    BY <2>1, <2>2 DEF Save, Dedupe, HandlerReturns, RmqTypeOK
  <2>4. ~Save(j)
    <3>1. Save(j) => docs'[q] = docs[q] + 1
      BY <2>3 DEF Save, Record, StoreInv, StoreTypes
    <3>2. QED BY <2>1, <3>1
  <2>5. q \in claims' /\ UNCHANGED docs
    BY <2>2, <2>3, <2>4 DEF Dedupe
  <2>6. PICK i \in Slot : Writes(i, q)'
    BY <2>5 DEF KeysAreWorkedOn
  <2>7. ~IsIdle(i)' /\ run'[i].pc = "running" /\ run'[i].msg = q /\ run'[i].live
    BY <2>6 DEF Writes, At, NoneIsStale
  <2>8. QED BY <2>7 DEF Owed, Live
<1>5. CASE Owed(q)
  BY <1>1, <1>2, <1>4, <1>5, OwedStep
<1>6. CASE ~Owed(q) /\ ~Owed(q)'
  BY <1>2, <1>3, <1>6 DEF OwedUntilRecorded
<1>7. QED BY <1>5, <1>6

\* With a dead-letter queue and events only, as tracing is wired: an event that is
\* neither recorded nor in the broker nor parked was swallowed by a fault, by a
\* claim in doubt or by a rollback that failed, and by nothing else.
THEOREM SwallowedOnlyForCause ==
  ASSUME DeadLetterQueue, Rpc = {}
  PROVE  Spec => []SwallowedForCause
<1>1. Init => SteadyInv
  BY DEF Init, RmqInit, SteadyInv, NoneIsStale, KeysAreWorkedOn, OwedUntilRecorded, IsIdle
<1>2. RmqTypeOK /\ RmqTypeOK' /\ StoreInv /\ SteadyInv /\ [Next]_vars => SteadyInv'
  <2> SUFFICES ASSUME RmqTypeOK, RmqTypeOK', StoreInv, SteadyInv, [Next]_vars, Steady'
               PROVE  NoneIsStale' /\ KeysAreWorkedOn' /\ OwedUntilRecorded'
    BY DEF SteadyInv
  <2>1. /\ NoneIsStale /\ KeysAreWorkedOn /\ OwedUntilRecorded
        /\ \A k \in Slot : ~LoseConnection(k)
    BY SteadyBefore DEF SteadyInv, StoreInv
  <2>2. [RmqNext]_rmqVars
    BY StepOfConsumer
  <2>3. NoneIsStale'
    BY <2>1, <2>2, NoneIsStaleStep
  <2>4. KeysAreWorkedOn'
    BY <2>1, KeysStep
  <2>5. QED BY <2>1, <2>3, <2>4, RecordedStep
<1>3. RmqTypeOK /\ StoreInv /\ SteadyInv => SwallowedForCause
  <2> SUFFICES ASSUME RmqTypeOK, StoreInv, SteadyInv, Steady,
                      NEW m \in Msg, published[m] > 0, docs[m] = 0
               PROVE  InFlight(m) \/ dlq[m] > 0
    BY DEF SwallowedForCause, NotSwallowed
  <2>1. Owed(m) \/ dlq[m] > 0
    BY DEF SteadyInv, OwedUntilRecorded
  <2>2. Owed(m) => InFlight(m)
    BY DEF Owed, InFlight
  <2>3. QED BY <2>1, <2>2
<1>4. Spec => []RmqTypeOK
  BY ImplementsConsumer, RmqTypeCorrect, PTL
<1>5. QED BY <1>1, <1>2, <1>3, <1>4, StoreInvariant, PTL DEF Spec
=============================================================================
