-------------------------- MODULE NotificationsProofs --------------------------
(***************************************************************************)
(* For any events, handlers, retries, faults and lost answers: the service  *)
(* is a consumer as RmqConsumer describes one, so what is proved of that    *)
(* holds of it; no event is ever dropped whose mail was not accepted, and   *)
(* each mail more than one has a copy of its event, a fault or a lost       *)
(* answer that explains it.                                                 *)
(***************************************************************************)
EXTENDS Notifications, RmqConsumerProofs

USE DEF mail, broker, history, rmqVars

\* Every step of the service is a step of the consumer, or leaves it alone.
LEMMA StepOfConsumer == [Next]_vars => [RmqNext]_rmqVars
<1> SUFFICES ASSUME [Next]_vars PROVE [RmqNext]_rmqVars
  OBVIOUS
<1>1. CASE Transport /\ UNCHANGED mail
  BY <1>1 DEF RmqNext
<1>2. ASSUME NEW k \in Slot, SendMail(k) PROVE [RmqNext]_rmqVars
  BY <1>2 DEF SendMail, Accept, Sent, SendFails, SendInDoubt, RmqNext
<1>3. ASSUME NEW k \in Slot, Around(k) \/ Die(k) PROVE [RmqNext]_rmqVars
  BY <1>3 DEF Around, Die, RmqNext
<1>4. CASE UNCHANGED vars
  BY <1>4 DEF vars
<1>5. QED BY <1>1, <1>2, <1>3, <1>4 DEF Next

\* The service implements the consumer.
THEOREM ImplementsConsumer == Spec => RmqSpec
<1>1. Init => RmqInit
  BY DEF Init
<1>2. QED BY <1>1, StepOfConsumer, PTL DEF Spec, RmqSpec
-----------------------------------------------------------------------------
\* A handler whose mail was accepted is still in the handler, its event has a
\* mail, and so has every event that was handled.
MailBehind ==
  /\ mails \in [Msg -> Nat]
  /\ \A k \in accepted : k \in Slot /\ At(k, "running") /\ mails[run[k].msg] > 0
  /\ \A m \in Msg : handled[m] > 0 => mails[m] > 0

\* A step of the consumer that touches at most slot k, of which no mail waits.
LEMMA OthersWait ==
  ASSUME RmqTypeOK, MailBehind, NEW k, accepted' = accepted \ {k},
         UNCHANGED mails,
         \A j \in Slot : j # k => run'[j] = run[j]
  PROVE  \A j \in accepted' : j \in Slot /\ At(j, "running")'
                              /\ mails'[run'[j].msg] > 0
  BY DEF MailBehind, At, IsIdle

\* What a handler leaves behind when it returns or throws.
LEMMA HandlerEnds ==
  ASSUME RmqTypeOK, MailBehind, NEW k \in Slot,
         (HandlerReturns(k) /\ k \in accepted) \/ HandlerThrows(k),
         accepted' = accepted \ {k}, UNCHANGED mails
  PROVE  MailBehind'
<1>1. /\ run[k].msg \in Msg
      /\ \A j \in Slot : j # k => run'[j] = run[j]
  BY BusyRun DEF RmqTypeOK, HandlerReturns, HandlerThrows, At, Goto
<1>2. \A m \in Msg : handled'[m] > 0 => mails[m] > 0
  <2>1. CASE HandlerReturns(k) /\ k \in accepted
    <3>1. /\ mails[run[k].msg] > 0
          /\ \A m \in Msg : m # run[k].msg => handled'[m] = handled[m]
      BY <1>1, <2>1 DEF RmqTypeOK, MailBehind, HandlerReturns
    <3>2. QED BY <3>1 DEF MailBehind
  <2>2. CASE HandlerThrows(k)
    BY <2>2 DEF MailBehind, HandlerThrows
  <2>3. QED BY <2>1, <2>2
<1>3. QED BY <1>1, <1>2, OthersWait DEF MailBehind

\* Steps around the handlers: those of slot k find it outside its handler, or
\* keep it in it.
LEMMA MailBehindStep ==
  ASSUME RmqTypeOK, MailBehind, [Next]_vars
  PROVE  MailBehind'
<1>1. CASE Transport /\ UNCHANGED mail
  <2>1. UNCHANGED handled
    BY <1>1 DEF Transport, Publish, Deliver, RetryExpires
  <2>2. \A j \in Slot : ~IsIdle(j) => run'[j] = run[j]
    BY <1>1 DEF RmqTypeOK, Transport, Publish, Deliver, RetryExpires, IsIdle
  <2>3. QED BY <1>1, <2>1, <2>2 DEF MailBehind, At, IsIdle
<1>2. ASSUME NEW k \in Slot, Accept(k) PROVE MailBehind'
  <2>1. run[k].msg \in Msg /\ At(k, "running")
    BY <1>2, BusyRun DEF Accept, Waits, At
  <2>2. /\ mails' \in [Msg -> Nat]
        /\ mails'[run[k].msg] > 0
        /\ \A m \in Msg : mails[m] > 0 => mails'[m] > 0
    BY <1>2, <2>1 DEF MailBehind, Accept
  <2>3. UNCHANGED <<run, handled>> /\ accepted' = accepted \cup {k}
    BY <1>2 DEF Accept
  <2>4. \A j \in accepted : run[j].msg \in Msg
    BY BusyRun DEF MailBehind, At
  <2>5. QED BY <2>1, <2>2, <2>3, <2>4 DEF MailBehind, At, IsIdle
<1>3. ASSUME NEW k \in Slot, Sent(k) \/ SendInDoubt(k) PROVE MailBehind'
  BY <1>3, HandlerEnds DEF Sent, SendInDoubt, Answered
<1>4. ASSUME NEW k \in Slot, SendFails(k) PROVE MailBehind'
  <2>1. HandlerThrows(k) /\ accepted' = accepted \ {k} /\ UNCHANGED mails
    BY <1>4 DEF SendFails, Waits
  <2>2. QED BY <2>1, HandlerEnds
<1>5. ASSUME NEW k \in Slot, Settle(k), UNCHANGED mail PROVE MailBehind'
  <2>1. UNCHANGED handled /\ ~At(k, "running")
    BY <1>5 DEF Settle, Ack, RouteToRetry, GiveUp, Park, Drop, StaleEnds,
                FailedEvent, At
  <2>2. \A j \in Slot : j # k => run'[j] = run[j]
    BY <1>5 DEF RmqTypeOK, Settle, Ack, RouteToRetry, GiveUp, Park, Drop,
                StaleEnds, Free, Goto
  <2>3. k \notin accepted
    BY <2>1 DEF MailBehind
  <2>4. QED BY <1>5, <2>1, <2>2, <2>3, OthersWait DEF MailBehind
<1>6. ASSUME NEW k \in Slot, LoseConnection(k), UNCHANGED mail
      PROVE  MailBehind'
  <2>1. ~IsIdle(k) /\ UNCHANGED handled
    BY <1>6 DEF LoseConnection, Live
  <2>2. /\ \A j \in Slot : j # k => run'[j] = run[j]
        /\ run'[k].pc = run[k].pc /\ run'[k].msg = run[k].msg
        /\ run'[k] \in Busy
    <3>1. [run[k] EXCEPT !.live = FALSE] \in Busy
      BY <2>1, BusyRun DEF Busy
    <3>2. QED BY <1>6, <2>1, <3>1, BusyRun DEF RmqTypeOK, LoseConnection, Busy
  <2>3. run'[k] # Idle
    BY <2>2, IdleIsNotBusy
  <2>4. QED BY <1>6, <2>1, <2>2, <2>3 DEF MailBehind, At, IsIdle
<1>7. ASSUME NEW k \in Slot, Die(k) PROVE MailBehind'
  <2>1. /\ UNCHANGED <<handled, mails>> /\ accepted' = accepted \ {k}
        /\ \A j \in Slot : j # k => run'[j] = run[j]
    BY <1>7 DEF RmqTypeOK, Die, Crash, Free, Answered
  <2>2. QED BY <2>1, OthersWait DEF MailBehind
<1>8. CASE UNCHANGED vars
  BY <1>8 DEF vars, MailBehind, At, IsIdle
<1>9. QED
  BY <1>1, <1>2, <1>3, <1>4, <1>5, <1>6, <1>7, <1>8
  DEF Next, SendMail, Around

LEMMA MailIsBehind == Spec => []MailBehind
<1>1. Init => MailBehind
  BY DEF Init, RmqInit, MailBehind
<1>2. RmqTypeOK /\ MailBehind /\ [Next]_vars => MailBehind'
  BY MailBehindStep
<1>3. QED BY <1>1, <1>2, ImplementsConsumer, RmqTypeCorrect, PTL DEF Spec

\* Every variable keeps its type; a mail waits for its answer only inside its
\* handler.
THEOREM NotificationsTypeCorrect == Spec => []TypeOK
<1>1. Init => doubts \in 0..MaxDoubts
  BY DoubtAssumption DEF Init
<1>2. doubts \in 0..MaxDoubts /\ [Next]_vars => (doubts \in 0..MaxDoubts)'
  <2> SUFFICES ASSUME doubts \in 0..MaxDoubts, [Next]_vars
               PROVE  doubts' \in 0..MaxDoubts
    OBVIOUS
  <2>1. UNCHANGED doubts \/ (doubts < MaxDoubts /\ doubts' = doubts + 1)
    BY DEF Next, vars, SendMail, Accept, Sent, SendFails, SendInDoubt, Around, Die
  <2>2. QED BY <2>1, DoubtAssumption
<1>3. RmqTypeOK /\ MailBehind /\ doubts \in 0..MaxDoubts => TypeOK
  BY DEF MailBehind, TypeOK
<1>4. QED
  BY <1>1, <1>2, <1>3, ImplementsConsumer, RmqTypeCorrect, MailIsBehind, PTL
  DEF Spec

\* With its dead-letter queue, the service never silently drops a mail: an event
\* whose mail no host accepted is still in the broker or parked.
THEOREM MailsAreNeverDropped ==
  DeadLetterQueue /\ Rpc = {} => (Spec => []NeverSilentlyDropped)
<1> SUFFICES ASSUME DeadLetterQueue, Rpc = {}
             PROVE  Spec => []NeverSilentlyDropped
  OBVIOUS
<1>1. RmqSpec => []NeverLost
  BY EventsAreNeverLost
<1>2. RmqTypeOK /\ MailBehind /\ NeverLost => NeverSilentlyDropped
  BY DEF RmqTypeOK, MailBehind, NeverLost, NeverSilentlyDropped
<1>3. QED BY <1>1, <1>2, ImplementsConsumer, RmqTypeCorrect, MailIsBehind, PTL

\* Its retry queue makes it park an event only after maxRetries retries.
THEOREM MailsParkedAfterRetries == RetryQueue => (Spec => []ParkedAfterRetries)
<1> SUFFICES ASSUME RetryQueue PROVE Spec => []ParkedAfterRetries
  OBVIOUS
<1>1. RmqSpec => []ParkedAfterRetries
  BY ParkedOnlyAfterRetries
<1>2. QED BY <1>1, ImplementsConsumer, PTL
-----------------------------------------------------------------------------
\* Mails are paid for by publications, faults and lost answers.  MailsExplained
\* counts with each mail the copies and handlers that may still send one, so it
\* is inductive as it stands; the proof keeps the four counts of one message
\* apart.

Waiting(q) == {k \in Slot : Waits(k) /\ run[k].msg = q}
Failing(q) == {k \in Slot : At(k, "failed") /\ Live(k) /\ run[k].msg = q}

Explained(q) ==
  mails[q] + (InMain(q) + InRetry(q) + dlq[q] + dropped[q]
                + Cardinality(Waiting(q)) + Cardinality(Failing(q)))
  <= published[q] + faults + doubts

AllExplained == \A m \in Msg : Explained(m)

LEMMA ExplainedIsAll == MailsExplained <=> AllExplained
  BY DEF AllExplained, MailsExplained, Explained, Coming, Queued, Waiting, Failing, InMain, InRetry

LEMMA SlotsFinite ==
  ASSUME Finite, NEW q
  PROVE  /\ IsFiniteSet(Waiting(q)) /\ Cardinality(Waiting(q)) \in Nat
         /\ IsFiniteSet(Failing(q)) /\ Cardinality(Failing(q)) \in Nat
<1>1. Waiting(q) \subseteq BusySlots /\ Failing(q) \subseteq BusySlots
  BY DEF Waiting, Failing, Waits, At, BusySlots
<1>2. QED BY <1>1, FS_Subset, FS_CardinalityType DEF Finite

LEMMA NumbersType ==
  ASSUME TypeOK, Finite, NEW q \in Msg
  PROVE  /\ mails[q] \in Nat /\ dlq[q] \in Nat /\ dropped[q] \in Nat
         /\ published[q] \in Nat /\ faults \in Nat /\ doubts \in Nat
         /\ InMain(q) \in Nat /\ InRetry(q) \in Nat
         /\ Cardinality(Waiting(q)) \in Nat /\ Cardinality(Failing(q)) \in Nat
<1>1. InMain(q) \in Nat /\ InRetry(q) \in Nat
  BY QueuesCount
<1>2. Cardinality(Waiting(q)) \in Nat /\ Cardinality(Failing(q)) \in Nat
  BY SlotsFinite
<1>3. doubts \in Nat
  BY DoubtAssumption DEF TypeOK
<1>4. QED BY <1>1, <1>2, <1>3 DEF TypeOK, RmqTypeOK

\* A step of slot k moves k in and out of the two sets, and nothing else.
LEMMA OneSlotMoves ==
  ASSUME Finite, Finite', NEW k \in Slot, NEW q \in Msg,
         \A j \in Slot : j # k =>
            run'[j] = run[j] /\ (j \in accepted' <=> j \in accepted)
  PROVE  /\ Cardinality(Waiting(q))' + Has(k, Waiting(q))
              = Cardinality(Waiting(q)) + Has(k, Waiting(q)')
         /\ Cardinality(Failing(q))' + Has(k, Failing(q))
              = Cardinality(Failing(q)) + Has(k, Failing(q)')
<1>1. /\ Waiting(q) \ {k} = Waiting(q)' \ {k}
      /\ Failing(q) \ {k} = Failing(q)' \ {k}
  BY DEF Waiting, Failing, Waits, At, Live, IsIdle
<1>2. IsFiniteSet(Waiting(q)) /\ IsFiniteSet(Failing(q))
  BY SlotsFinite
<1>3. IsFiniteSet(Waiting(q)') /\ IsFiniteSet(Failing(q)')
  <2>1. Waiting(q)' \subseteq BusySlots' /\ Failing(q)' \subseteq BusySlots'
    BY DEF Waiting, Failing, Waits, At, BusySlots
  <2>2. QED BY <2>1, FS_Subset DEF Finite
<1>4. QED BY <1>1, <1>2, <1>3, CountsDiffer

LEMMA HasType == ASSUME NEW k, NEW S PROVE Has(k, S) \in {0, 1}
  BY DEF Has

LEMMA ExplainedStep ==
  ASSUME TypeOK, TypeOK', Finite, Finite', [Next]_vars, NEW q \in Msg, Explained(q)
  PROVE  Explained(q)'
<1> USE DEF Explained
<1>0. /\ mails[q] \in Nat /\ dlq[q] \in Nat /\ dropped[q] \in Nat
      /\ published[q] \in Nat /\ faults \in Nat /\ doubts \in Nat
      /\ InMain(q) \in Nat /\ InRetry(q) \in Nat
      /\ Cardinality(Waiting(q)) \in Nat /\ Cardinality(Failing(q)) \in Nat
      /\ mails'[q] \in Nat /\ dlq'[q] \in Nat /\ dropped'[q] \in Nat
      /\ published'[q] \in Nat /\ faults' \in Nat /\ doubts' \in Nat
      /\ InMain(q)' \in Nat /\ InRetry(q)' \in Nat
      /\ Cardinality(Waiting(q))' \in Nat /\ Cardinality(Failing(q))' \in Nat
  <2>1. InMain(q)' \in Nat /\ InRetry(q)' \in Nat
    BY FS_CardinalityType DEF Finite, AllFinite, InMain, InRetry
  <2>2. Cardinality(Waiting(q))' \in Nat /\ Cardinality(Failing(q))' \in Nat
    <3>1. Waiting(q)' \subseteq BusySlots' /\ Failing(q)' \subseteq BusySlots'
      BY DEF Waiting, Failing, Waits, At, BusySlots
    <3>2. QED BY <3>1, FS_Subset, FS_CardinalityType DEF Finite
  <2>3. /\ mails'[q] \in Nat /\ dlq'[q] \in Nat /\ dropped'[q] \in Nat
        /\ published'[q] \in Nat /\ faults' \in Nat /\ doubts' \in Nat
    BY DoubtAssumption DEF TypeOK, RmqTypeOK
  <2>4. QED BY <2>1, <2>2, <2>3, NumbersType
<1>1. UNCHANGED main => InMain(q)' = InMain(q)
  BY DEF InMain
<1>2. UNCHANGED retry => InRetry(q)' = InRetry(q)
  BY DEF InRetry
<1>3. UNCHANGED <<run, accepted>> =>
        /\ Cardinality(Waiting(q))' = Cardinality(Waiting(q))
        /\ Cardinality(Failing(q))' = Cardinality(Failing(q))
  BY DEF Waiting, Failing, Waits, At, Live, IsIdle
<1>4. ASSUME NEW k \in Slot, ~IsIdle(k), Requeued(k)
      PROVE  InMain(q)' = InMain(q) + (IF run[k].msg = q THEN 1 ELSE 0)
  BY <1>4, RequeuedGrows DEF TypeOK
<1>5. ASSUME NEW m \in Msg, Publish(m), UNCHANGED mail PROVE Explained(q)'
  <2>1. 0 \in Count
    BY ConsumerAssumption DEF Count
  <2>2. /\ main' = [main EXCEPT ![m][0] = @ + 1]
        /\ UNCHANGED <<retry, dlq, dropped, run, faults>>
        /\ published'[q] = published[q] + (IF q = m THEN 1 ELSE 0)
    BY <1>5 DEF Publish, TypeOK, RmqTypeOK
  <2>3. InMain(q)' = InMain(q) + (IF q = m THEN 1 ELSE 0)
    BY <2>1, <2>2, MainGrows DEF TypeOK
  <2>4. QED BY <1>0, <1>2, <1>3, <1>5, <2>2, <2>3
<1>6. ASSUME NEW m \in Msg, NEW n \in Count, RetryExpires(m, n), UNCHANGED mail
      PROVE  Explained(q)'
  <2>1. InMain(q)' = InMain(q) + (IF q = m THEN 1 ELSE 0)
    BY <1>6, MainGrows DEF RetryExpires, TypeOK
  <2>2. InRetry(q) = InRetry(q)' + (IF q = m THEN 1 ELSE 0)
    BY <1>6, RetryShrinks DEF RetryExpires, TypeOK
  <2>3. UNCHANGED <<dlq, dropped, run, published, faults>>
    BY <1>6 DEF RetryExpires
  <2>4. QED BY <1>0, <1>3, <1>6, <2>1, <2>2, <2>3
<1>7. ASSUME NEW k \in Slot, NEW m \in Msg, NEW n \in Count, Deliver(k, m, n),
             UNCHANGED mail
      PROVE  Explained(q)'
  <2>1. InMain(q) = InMain(q)' + (IF q = m THEN 1 ELSE 0)
    BY <1>7, MainShrinks DEF Deliver, TypeOK
  <2>2. /\ run'[k] = [pc |-> "running", msg |-> m, n |-> n, live |-> TRUE]
        /\ \A j \in Slot : j # k => run'[j] = run[j]
        /\ IsIdle(k)
        /\ UNCHANGED <<retry, dlq, dropped, published, faults>>
    BY <1>7 DEF Deliver, TypeOK, RmqTypeOK
  <2>3. /\ Has(k, Waiting(q)) = 0 /\ Has(k, Failing(q)) = 0
        /\ Has(k, Failing(q)') = 0
        /\ Has(k, Waiting(q)') <= (IF q = m THEN 1 ELSE 0)
    BY <2>2 DEF Has, Waiting, Failing, Waits, At
  <2>4. Has(k, Waiting(q)') \in {0, 1}
    BY HasType
  <2>5. /\ Cardinality(Waiting(q))' + Has(k, Waiting(q))
              = Cardinality(Waiting(q)) + Has(k, Waiting(q)')
        /\ Cardinality(Failing(q))' + Has(k, Failing(q))
              = Cardinality(Failing(q)) + Has(k, Failing(q)')
    BY <1>7, <2>2, OneSlotMoves
  <2>6. QED BY <1>0, <1>2, <1>7, <2>1, <2>2, <2>3, <2>4, <2>5
<1>8. ASSUME NEW k \in Slot,
             \A j \in Slot : j # k =>
                run'[j] = run[j] /\ (j \in accepted' <=> j \in accepted),
             mails'[q] + InMain(q)' + InRetry(q)' + dlq'[q] + dropped'[q]
               + Has(k, Waiting(q)') + Has(k, Failing(q)')
               + published[q] + faults + doubts
             <= mails[q] + InMain(q) + InRetry(q) + dlq[q] + dropped[q]
               + Has(k, Waiting(q)) + Has(k, Failing(q))
               + published'[q] + faults' + doubts'
      PROVE  Explained(q)'
  <2>1. /\ Cardinality(Waiting(q))' + Has(k, Waiting(q))
              = Cardinality(Waiting(q)) + Has(k, Waiting(q)')
        /\ Cardinality(Failing(q))' + Has(k, Failing(q))
              = Cardinality(Failing(q)) + Has(k, Failing(q)')
    BY <1>8, OneSlotMoves
  <2>2. /\ Has(k, Waiting(q)) \in Nat /\ Has(k, Failing(q)) \in Nat
        /\ Has(k, Waiting(q)') \in Nat /\ Has(k, Failing(q)') \in Nat
    BY HasType
  <2>3. QED BY <1>0, <1>8, <2>1, <2>2
\* What slot k counts for in the two sets.
<1>9. ASSUME NEW k \in Slot
      PROVE  /\ Has(k, Waiting(q)) = IF Waits(k) /\ run[k].msg = q THEN 1 ELSE 0
             /\ Has(k, Failing(q))
                  = IF At(k, "failed") /\ Live(k) /\ run[k].msg = q THEN 1 ELSE 0
  BY DEF Has, Waiting, Failing
<1>10. ASSUME NEW k \in Slot, Goto(k, "succeeded") \/ Goto(k, "rerouted") \/ Free(k),
              ~IsIdle(k)
       PROVE  /\ Has(k, Waiting(q)') = 0 /\ Has(k, Failing(q)') = 0
              /\ \A j \in Slot : j # k => run'[j] = run[j]
  BY <1>10, BusyRun DEF TypeOK, RmqTypeOK, Goto, Free, Has, Waiting, Failing, Waits, At,
       Live, IsIdle, Busy
<1>11. ASSUME NEW k \in Slot, Goto(k, "failed"), ~IsIdle(k)
       PROVE  /\ Has(k, Waiting(q)') = 0
              /\ Has(k, Failing(q)') <= (IF run[k].msg = q THEN 1 ELSE 0)
              /\ \A j \in Slot : j # k => run'[j] = run[j]
  BY <1>11, BusyRun DEF TypeOK, RmqTypeOK, Goto, Has, Waiting, Failing, Waits, At,
       Live, IsIdle, Busy
<1>12. ASSUME NEW k \in Slot, Accept(k) PROVE Explained(q)'
  <2>1. /\ Has(k, Waiting(q)') = 0
        /\ Has(k, Failing(q)') = 0
        /\ Has(k, Waiting(q)) = IF run[k].msg = q THEN 1 ELSE 0
        /\ Has(k, Failing(q)) = 0
    BY <1>9, <1>12 DEF Accept, Has, Waiting, Failing, Waits, At, IsIdle
  <2>2. /\ mails'[q] = mails[q] + (IF run[k].msg = q THEN 1 ELSE 0)
        /\ UNCHANGED <<main, retry, dlq, dropped, run, published, faults, doubts>>
        /\ \A j \in Slot : j # k => (j \in accepted' <=> j \in accepted)
    BY <1>12 DEF Accept, TypeOK
  <2>3. QED BY <1>0, <1>1, <1>2, <1>8, <2>1, <2>2
<1>13. ASSUME NEW k \in Slot, Sent(k) PROVE Explained(q)'
  <2>1. /\ Goto(k, "succeeded") /\ ~IsIdle(k) /\ accepted' = accepted \ {k}
        /\ UNCHANGED <<main, retry, dlq, dropped, published, faults, doubts, mails>>
    BY <1>13 DEF Sent, HandlerReturns, At, Answered
  <2>2. Has(k, Waiting(q)) \in Nat /\ Has(k, Failing(q)) \in Nat
    BY HasType
  <2>3. QED BY <1>0, <1>1, <1>2, <1>8, <1>10, <2>1, <2>2
<1>14. ASSUME NEW k \in Slot, SendFails(k) PROVE Explained(q)'
  <2>1. /\ Goto(k, "failed") /\ ~IsIdle(k)
        /\ UNCHANGED <<main, retry, dlq, dropped, published, faults, mail>>
    BY <1>14 DEF SendFails, HandlerThrows, At
  <2>2. Has(k, Waiting(q)) = (IF run[k].msg = q THEN 1 ELSE 0) /\ Has(k, Failing(q)) = 0
    BY <1>9, <1>14 DEF SendFails, Waits, At
  <2>3. Has(k, Failing(q)') \in Nat
    BY HasType
  <2>4. QED BY <1>0, <1>1, <1>2, <1>8, <1>11, <2>1, <2>2, <2>3
<1>15. ASSUME NEW k \in Slot, SendInDoubt(k) PROVE Explained(q)'
  <2>1. /\ Goto(k, "failed") /\ ~IsIdle(k)
        /\ UNCHANGED <<main, retry, dlq, dropped, published, faults, mails>>
        /\ accepted' = accepted \ {k} /\ doubts' = doubts + 1
    BY <1>15 DEF SendInDoubt, HandlerThrows, At, Answered
  <2>2. /\ Has(k, Waiting(q)) \in Nat /\ Has(k, Failing(q)) \in Nat
        /\ Has(k, Failing(q)') \in {0, 1}
    BY HasType
  <2>3. QED BY <1>0, <1>1, <1>2, <1>8, <1>11, <2>1, <2>2
<1>16. ASSUME NEW k \in Slot, Ack(k) \/ StaleEnds(k), UNCHANGED mail PROVE Explained(q)'
  <2>1. /\ Free(k) /\ ~IsIdle(k)
        /\ UNCHANGED <<main, retry, dlq, dropped, published, faults>>
    BY <1>16 DEF Ack, StaleEnds, At
  <2>2. Has(k, Waiting(q)) \in Nat /\ Has(k, Failing(q)) \in Nat
    BY HasType
  <2>3. QED BY <1>0, <1>1, <1>2, <1>8, <1>10, <1>16, <2>1, <2>2
\* A copy republished or parked replaces the failed delivery.
<1>17. ASSUME NEW k \in Slot, FailedEvent(k), UNCHANGED mail,
              Goto(k, "rerouted") \/ Free(k), UNCHANGED <<main, published, faults>>,
              InRetry(q)' + dlq'[q] + dropped'[q]
                = InRetry(q) + dlq[q] + dropped[q] + (IF run[k].msg = q THEN 1 ELSE 0)
       PROVE  Explained(q)'
  <2>1. ~IsIdle(k)
    BY <1>17 DEF FailedEvent, At
  <2>2. Has(k, Waiting(q)) = 0 /\ Has(k, Failing(q)) = (IF run[k].msg = q THEN 1 ELSE 0)
    BY <1>9, <1>17 DEF FailedEvent, Waits, At
  <2>3. QED BY <1>0, <1>1, <1>8, <1>10, <1>17, <2>1, <2>2
<1>18. ASSUME NEW k \in Slot, RouteToRetry(k), UNCHANGED mail PROVE Explained(q)'
  <2>1. InRetry(q)' = InRetry(q) + (IF q = run[k].msg THEN 1 ELSE 0)
    BY <1>18, ReroutedGrows DEF TypeOK
  <2>2. QED BY <1>0, <1>17, <1>18, <2>1 DEF RouteToRetry
<1>19. ASSUME NEW k \in Slot, GiveUp(k), UNCHANGED mail PROVE Explained(q)'
  <2>1. run[k].msg \in Msg
    BY <1>19, BusyRun DEF TypeOK, GiveUp, FailedEvent, At
  <2>2. dlq'[q] + dropped'[q]
          = dlq[q] + dropped[q] + (IF run[k].msg = q THEN 1 ELSE 0)
    <3>1. CASE DeadLetterQueue
      BY <1>0, <1>19, <2>1, <3>1 DEF GiveUp, Park, TypeOK, RmqTypeOK
    <3>2. CASE ~DeadLetterQueue
      BY <1>0, <1>19, <2>1, <3>2 DEF GiveUp, Drop, TypeOK, RmqTypeOK
    <3>3. QED BY <3>1, <3>2
  <2>3. /\ FailedEvent(k) /\ (Goto(k, "rerouted") \/ Free(k))
        /\ UNCHANGED <<main, retry, published, faults>>
    BY <1>19 DEF GiveUp, Park, Drop
  <2>4. InRetry(q)' + dlq'[q] + dropped'[q]
          = InRetry(q) + dlq[q] + dropped[q] + (IF run[k].msg = q THEN 1 ELSE 0)
    BY <1>0, <1>2, <2>2, <2>3
  <2>5. QED BY <1>17, <1>19, <2>3, <2>4
<1>20. ASSUME NEW k \in Slot, LoseConnection(k), UNCHANGED mail PROVE Explained(q)'
  <2>1. ~IsIdle(k) /\ Requeued(k) /\ UNCHANGED <<retry, dlq, dropped, published>>
        /\ faults' = faults + 1
    BY <1>20 DEF LoseConnection, Live
  <2>2. /\ \A j \in Slot : j # k => run'[j] = run[j]
        /\ run'[k].pc = run[k].pc /\ run'[k].msg = run[k].msg /\ ~run'[k].live
    BY <1>20, <2>1, BusyRun DEF TypeOK, RmqTypeOK, LoseConnection, Busy
  <2>3. /\ Has(k, Waiting(q)') <= Has(k, Waiting(q)) /\ Has(k, Failing(q)') = 0
    BY <1>20, <2>1, <2>2 DEF Has, Waiting, Failing, Waits, At, Live, IsIdle
  <2>4. /\ Has(k, Waiting(q)') \in Nat /\ Has(k, Failing(q)) \in Nat
        /\ Has(k, Waiting(q)) \in Nat
    BY HasType
  <2>5. InMain(q)' <= InMain(q) + 1
    BY <1>0, <1>4, <2>1
  <2>6. QED BY <1>0, <1>2, <1>8, <1>20, <2>1, <2>2, <2>3, <2>4, <2>5
<1>21. ASSUME NEW k \in Slot, Die(k) PROVE Explained(q)'
  <2>1. /\ ~IsIdle(k) /\ Free(k) /\ faults' = faults + 1
        /\ UNCHANGED <<retry, dlq, dropped, published, mails, doubts>>
        /\ accepted' = accepted \ {k}
    BY <1>21 DEF Die, Crash, Answered
  <2>2. InMain(q)' <= InMain(q) + 1
    <3>1. CASE Live(k)
      BY <1>0, <1>4, <1>21, <2>1, <3>1 DEF Die, Crash
    <3>2. CASE ~Live(k)
      BY <1>0, <1>1, <1>21, <3>2 DEF Die, Crash
    <3>3. QED BY <3>1, <3>2
  <2>3. Has(k, Waiting(q)) \in Nat /\ Has(k, Failing(q)) \in Nat
    BY HasType
  <2>4. QED BY <1>0, <1>2, <1>8, <1>10, <2>1, <2>2, <2>3
<1>22. CASE UNCHANGED vars
  BY <1>1, <1>2, <1>3, <1>22 DEF vars
<1>23. QED
  BY <1>5, <1>6, <1>7, <1>12, <1>13, <1>14, <1>15, <1>16, <1>18, <1>19, <1>20,
     <1>21, <1>22
  DEF Next, Transport, SendMail, Around, Settle

\* "A redelivery can send the same email twice", and nothing else can: however
\* many events, copies, handlers and retries there are, the mails an event has and
\* may still get never outnumber its publications, the crashes and lost
\* connections, and the answers that were lost.
THEOREM MailsAreExplained == Spec => []MailsExplained
<1>1. Init => AllExplained
  <2> SUFFICES ASSUME Init, NEW m \in Msg PROVE Explained(m)
    BY DEF AllExplained
  <2>1. Copies(main[m]) = {} /\ Copies(retry[m]) = {}
    BY DEF Init, RmqInit, Copies
  <2>2. Waiting(m) = {} /\ Failing(m) = {}
    BY DEF Init, RmqInit, Waiting, Failing, Waits, At, IsIdle
  <2>3. InMain(m) = 0 /\ InRetry(m) = 0
    BY <2>1, FS_EmptySet DEF InMain, InRetry
  <2>4. Cardinality(Waiting(m)) = 0 /\ Cardinality(Failing(m)) = 0
    BY <2>2, FS_EmptySet
  <2>5. QED BY <2>3, <2>4 DEF Init, RmqInit, Explained
<1>2. /\ TypeOK /\ TypeOK' /\ Finite /\ Finite' /\ AllExplained /\ [Next]_vars
      => AllExplained'
  <2> SUFFICES ASSUME TypeOK, TypeOK', Finite, Finite', AllExplained, [Next]_vars,
                      NEW m \in Msg
               PROVE  Explained(m)'
    BY DEF AllExplained
  <2>1. Explained(m)
    BY DEF AllExplained
  <2>2. QED BY <2>1, ExplainedStep
<1>3. AllExplained => MailsExplained
  BY ExplainedIsAll DEF AllExplained
<1>4. QED
  BY <1>1, <1>2, <1>3, ImplementsConsumer, NotificationsTypeCorrect, RmqStaysFinite, PTL
  DEF Spec
=============================================================================
