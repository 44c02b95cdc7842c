--------------------------- MODULE RmqConsumerProofs ---------------------------
(***************************************************************************)
(* For any messages, slots, retry limit and faults: the consumer types;     *)
(* with a dead-letter queue no event is ever lost before it is handled,      *)
(* without one only by a handler that throws, and an event is parked only    *)
(* after its retries.  The services extend this module; the lemmas on        *)
(* messages in flight and on what a slot runs are stated for them.           *)
(***************************************************************************)
EXTENDS RmqConsumer, FiniteSetTheorems, TLAPS

USE DEF broker, history, rmqVars

\* The actions under RmqNext, for case splits.
LEMMA RmqNextCases ==
  ASSUME [RmqNext]_rmqVars
  PROVE  \/ \E m \in Msg : Publish(m)
         \/ \E k \in Slot, m \in Msg, n \in Count : Deliver(k, m, n)
         \/ \E m \in Msg, n \in Count : RetryExpires(m, n)
         \/ \E k \in Slot : \/ HandlerReturns(k) \/ HandlerThrows(k)
                            \/ GuardRejects(k) \/ Ack(k) \/ RouteToRetry(k)
                            \/ GiveUp(k) \/ StaleEnds(k)
                            \/ LoseConnection(k) \/ Crash(k)
         \/ UNCHANGED rmqVars
  BY DEF RmqNext, Transport, Settle

LEMMA IdleIsNotBusy == Idle \notin Busy
<1>1. ASSUME Idle \in Busy PROVE FALSE
  <2>1. Idle.pc \in {"running", "succeeded", "failed", "rerouted", "rejected"}
    BY <1>1 DEF Busy
  <2>2. QED BY <2>1 DEF Idle
<1>2. QED BY <1>1

\* A slot that is not idle runs something well-formed.
LEMMA BusyRun ==
  ASSUME RmqTypeOK, NEW k \in Slot, ~IsIdle(k)
  PROVE  /\ run[k].msg \in Msg /\ run[k].n \in Count
         /\ run[k].live \in BOOLEAN
         /\ run[k].pc \in {"running", "succeeded", "failed", "rerouted", "rejected"}
         /\ run[k] = [pc |-> run[k].pc, msg |-> run[k].msg, n |-> run[k].n,
                      live |-> run[k].live]
         /\ run[k] \in Busy
  BY DEF RmqTypeOK, IsIdle, Busy

\* Adding a copy to a bag of copies, or taking one out of it.
LEMMA BagType ==
  ASSUME NEW q \in [Msg -> [Count -> Nat]], NEW m \in Msg, NEW n \in Count
  PROVE  /\ [q EXCEPT ![m][n] = @ + 1] \in [Msg -> [Count -> Nat]]
         /\ q[m][n] > 0 => [q EXCEPT ![m][n] = @ - 1] \in [Msg -> [Count -> Nat]]
  OBVIOUS

LEMMA TallyType ==
  ASSUME NEW q \in [Msg -> Nat], NEW m \in Msg
  PROVE  [q EXCEPT ![m] = @ + 1] \in [Msg -> Nat]
  OBVIOUS

LEMMA GotoType ==
  ASSUME RmqTypeOK, NEW k \in Slot, ~IsIdle(k),
         NEW pc \in {"running", "succeeded", "failed", "rerouted", "rejected"},
         Goto(k, pc)
  PROVE  run' \in [Slot -> Busy \cup {Idle}]
<1>1. PICK b \in Busy : b = run[k]
  BY BusyRun
<1>2. [b EXCEPT !.pc = pc] \in Busy
  BY DEF Busy
<1>3. run' = [run EXCEPT ![k] = [b EXCEPT !.pc = pc]]
  BY <1>1 DEF Goto
<1>4. QED BY <1>2, <1>3 DEF RmqTypeOK

LEMMA FreeType ==
  ASSUME RmqTypeOK, NEW k \in Slot, Free(k)
  PROVE  run' \in [Slot -> Busy \cup {Idle}]
  BY DEF RmqTypeOK, Free

LEMMA RmqTypeStep ==
  ASSUME RmqTypeOK, [RmqNext]_rmqVars
  PROVE  RmqTypeOK'
<1>0. 0 \in Count /\ \A n \in Count : n < MaxRetries => n + 1 \in Count
  BY ConsumerAssumption DEF Count
<1>1. ASSUME NEW m \in Msg, Publish(m) PROVE RmqTypeOK'
  <2>1. main' \in [Msg -> [Count -> Nat]] /\ published' \in [Msg -> Nat]
    BY <1>0, <1>1, BagType, TallyType DEF RmqTypeOK, Publish
  <2>2. QED BY <1>1, <2>1 DEF RmqTypeOK, Publish
<1>2. ASSUME NEW k \in Slot, NEW m \in Msg, NEW n \in Count, Deliver(k, m, n)
      PROVE  RmqTypeOK'
  <2>1. main' \in [Msg -> [Count -> Nat]]
    BY <1>2, BagType DEF RmqTypeOK, Deliver
  <2>2. run' \in [Slot -> Busy \cup {Idle}]
    BY <1>2 DEF RmqTypeOK, Deliver, Busy
  <2>3. QED BY <1>2, <2>1, <2>2 DEF RmqTypeOK, Deliver
<1>3. ASSUME NEW m \in Msg, NEW n \in Count, RetryExpires(m, n)
      PROVE  RmqTypeOK'
  <2>1. main' \in [Msg -> [Count -> Nat]] /\ retry' \in [Msg -> [Count -> Nat]]
    BY <1>3, BagType DEF RmqTypeOK, RetryExpires
  <2>2. QED BY <1>3, <2>1 DEF RmqTypeOK, RetryExpires
<1>4. ASSUME NEW k \in Slot, HandlerReturns(k) PROVE RmqTypeOK'
  <2>1. run' \in [Slot -> Busy \cup {Idle}] /\ run[k].msg \in Msg
    BY <1>4, GotoType, BusyRun DEF HandlerReturns, At
  <2>2. handled' \in [Msg -> Nat]
    BY <1>4, <2>1, TallyType DEF RmqTypeOK, HandlerReturns
  <2>3. QED BY <1>4, <2>1, <2>2 DEF RmqTypeOK, HandlerReturns
<1>5. ASSUME NEW k \in Slot, HandlerThrows(k) PROVE RmqTypeOK'
  <2>1. run' \in [Slot -> Busy \cup {Idle}] /\ run[k].msg \in Msg
    BY <1>5, GotoType, BusyRun DEF HandlerThrows, At
  <2>2. failures' \in [Msg -> Nat]
    BY <1>5, <2>1, TallyType DEF RmqTypeOK, HandlerThrows
  <2>3. QED BY <1>5, <2>1, <2>2 DEF RmqTypeOK, HandlerThrows
<1>6. ASSUME NEW k \in Slot, GuardRejects(k) PROVE RmqTypeOK'
  <2>1. run' \in [Slot -> Busy \cup {Idle}]
    BY <1>6, GotoType DEF GuardRejects, At
  <2>2. QED BY <1>6, <2>1 DEF RmqTypeOK, GuardRejects
<1>7. ASSUME NEW k \in Slot, Ack(k) \/ StaleEnds(k) PROVE RmqTypeOK'
  <2>1. Free(k) /\ UNCHANGED <<broker, history, faults>>
    BY <1>7 DEF Ack, StaleEnds
  <2>2. QED BY <2>1, FreeType DEF RmqTypeOK
<1>8. ASSUME NEW k \in Slot, RouteToRetry(k) PROVE RmqTypeOK'
  <2>1. /\ run[k].msg \in Msg /\ run[k].n + 1 \in Count
        /\ run' \in [Slot -> Busy \cup {Idle}]
    BY <1>0, <1>8, BusyRun, GotoType DEF RouteToRetry, FailedEvent, At
  <2>2. retry' \in [Msg -> [Count -> Nat]]
    BY <1>8, <2>1, BagType DEF RmqTypeOK, RouteToRetry
  <2>3. QED BY <1>8, <2>1, <2>2 DEF RmqTypeOK, RouteToRetry
<1>9. ASSUME NEW k \in Slot, GiveUp(k), DeadLetterQueue PROVE RmqTypeOK'
  <2>1. run[k].msg \in Msg /\ run' \in [Slot -> Busy \cup {Idle}]
    BY <1>9, BusyRun, GotoType DEF GiveUp, Park, FailedEvent, At
  <2>2. dlq' \in [Msg -> Nat]
    BY <1>9, <2>1, TallyType DEF RmqTypeOK, GiveUp, Park
  <2>3. QED BY <1>9, <2>1, <2>2 DEF RmqTypeOK, GiveUp, Park
<1>10. ASSUME NEW k \in Slot, GiveUp(k), ~DeadLetterQueue PROVE RmqTypeOK'
  <2>1. run[k].msg \in Msg /\ run' \in [Slot -> Busy \cup {Idle}]
    BY <1>10, BusyRun, FreeType DEF GiveUp, Drop, FailedEvent, At
  <2>2. dropped' \in [Msg -> Nat]
    BY <1>10, <2>1, TallyType DEF RmqTypeOK, GiveUp, Drop
  <2>3. QED BY <1>10, <2>1, <2>2 DEF RmqTypeOK, GiveUp, Drop
<1>11. ASSUME NEW k \in Slot, LoseConnection(k) PROVE RmqTypeOK'
  <2>1. ~IsIdle(k)
    BY <1>11 DEF LoseConnection, Live
  <2>2. main' \in [Msg -> [Count -> Nat]]
    BY <1>11, <2>1, BusyRun, BagType DEF RmqTypeOK, LoseConnection, Requeued
  <2>3. run' \in [Slot -> Busy \cup {Idle}]
    <3>1. [run[k] EXCEPT !.live = FALSE] \in Busy
      BY <2>1, BusyRun DEF Busy
    <3>2. QED BY <1>11, <3>1 DEF RmqTypeOK, LoseConnection
  <2>4. QED BY <1>11, <2>2, <2>3 DEF RmqTypeOK, LoseConnection
<1>12. ASSUME NEW k \in Slot, Crash(k) PROVE RmqTypeOK'
  <2>1. main' \in [Msg -> [Count -> Nat]]
    <3>1. CASE Live(k)
      <4>1. Requeued(k) /\ run[k].msg \in Msg /\ run[k].n \in Count
        BY <1>12, <3>1, BusyRun DEF Crash, Live
      <4>2. QED BY <4>1, BagType DEF RmqTypeOK, Requeued
    <3>2. CASE ~Live(k)
      BY <1>12, <3>2 DEF RmqTypeOK, Crash
    <3>3. QED BY <3>1, <3>2
  <2>2. run' \in [Slot -> Busy \cup {Idle}]
    BY <1>12, FreeType DEF Crash
  <2>3. QED BY <1>12, <2>1, <2>2 DEF RmqTypeOK, Crash
<1>13. CASE UNCHANGED rmqVars
  BY <1>13 DEF RmqTypeOK
<1>14. QED
  BY <1>1, <1>2, <1>3, <1>4, <1>5, <1>6, <1>7, <1>8, <1>9, <1>10, <1>11,
     <1>12, <1>13, RmqNextCases

\* Every variable keeps its type: no queue ever holds a negative number of
\* copies and no retry counter passes maxRetries.
THEOREM RmqTypeCorrect == RmqSpec => []RmqTypeOK
<1>1. RmqInit => RmqTypeOK
  BY DEF RmqInit, RmqTypeOK
<1>2. RmqTypeOK /\ [RmqNext]_rmqVars => RmqTypeOK'
  BY RmqTypeStep
<1>3. QED BY <1>1, <1>2, PTL DEF RmqSpec
-----------------------------------------------------------------------------
\* No event is lost: an event nobody has handled is owed by the broker (in the
\* main or the retry queue, or in the hands of a live handler whose outcome is
\* open) or parked.  A copy whose outcome is decided is deliberately not
\* counted: by then it has been handled, or its replacement is owed.

\* Freeing a slot whose outcome is decided takes nothing away.
LEMMA FreeKeepsOwed ==
  ASSUME RmqTypeOK, NEW k \in Slot, NEW m \in Msg, Owed(m), Free(k),
         UNCHANGED <<main, retry>>,
         Live(k) => run[k].msg # m \/ run[k].pc \notin {"running", "failed"}
  PROVE  Owed(m)'
<1>1. CASE \E n \in Count : main[m][n] > 0 \/ retry[m][n] > 0
  BY <1>1 DEF Owed
<1>2. CASE \E j \in Slot : /\ Live(j) /\ run[j].msg = m
                           /\ run[j].pc \in {"running", "failed"}
  <2>1. PICK j \in Slot : /\ Live(j) /\ run[j].msg = m
                          /\ run[j].pc \in {"running", "failed"}
    BY <1>2
  <2>2. j # k /\ run'[j] = run[j]
    BY <2>1 DEF RmqTypeOK, Free
  <2>3. QED BY <2>1, <2>2 DEF Owed, Live, IsIdle
<1>3. QED BY <1>1, <1>2 DEF Owed

\* Moving a slot on leaves the other slots' claims alone.
LEMMA GotoKeepsOwed ==
  ASSUME RmqTypeOK, NEW k \in Slot, NEW m \in Msg, Owed(m), ~IsIdle(k),
         NEW pc \in {"running", "succeeded", "failed", "rerouted", "rejected"},
         Goto(k, pc),
         \A n \in Count : /\ main'[m][n] >= main[m][n]
                          /\ retry'[m][n] >= retry[m][n],
         main' \in [Msg -> [Count -> Nat]], retry' \in [Msg -> [Count -> Nat]],
         run[k].msg # m \/ pc \in {"running", "failed"} \/ ~Live(k)
  PROVE  Owed(m)'
<1>1. CASE \E n \in Count : main[m][n] > 0 \/ retry[m][n] > 0
  BY <1>1 DEF RmqTypeOK, Owed
<1>2. CASE \E j \in Slot : /\ Live(j) /\ run[j].msg = m
                           /\ run[j].pc \in {"running", "failed"}
  <2>1. PICK j \in Slot : /\ Live(j) /\ run[j].msg = m
                          /\ run[j].pc \in {"running", "failed"}
    BY <1>2
  <2>2. CASE j # k
    <3>1. run'[j] = run[j]
      BY <2>2 DEF RmqTypeOK, Goto
    <3>2. QED BY <2>1, <3>1 DEF Owed, Live, IsIdle
  <2>3. CASE j = k
    <3>0. PICK b \in Busy : b = run[k]
      BY <2>1, <2>3, BusyRun DEF Live
    <3>1. /\ run'[k].pc = pc /\ run'[k].msg = m /\ run'[k].live
          /\ run'[k] \in Busy
      <4>1. run'[k] = [b EXCEPT !.pc = pc]
        BY <3>0 DEF RmqTypeOK, Goto
      <4>2. b.msg = m /\ b.live
        BY <2>1, <2>3, <3>0 DEF Live
      <4>3. QED BY <4>1, <4>2 DEF Busy
    <3>2. QED BY <2>1, <2>3, <3>1, IdleIsNotBusy DEF Owed, Live, IsIdle
  <2>4. QED BY <2>2, <2>3
<1>3. QED BY <1>1, <1>2 DEF Owed

\* An event that is owed stays owed, unless this step handles it or gives it up.
Finishes(m) == \E k \in Slot : HandlerReturns(k) /\ run[k].msg = m
GivesUp(m) == \E k \in Slot : GiveUp(k) /\ run[k].msg = m

LEMMA OwedStep ==
  ASSUME RmqTypeOK, RmqTypeOK', [RmqNext]_rmqVars, NEW q \in Msg \ Rpc, Owed(q)
  PROVE  Owed(q)' \/ Finishes(q) \/ GivesUp(q)
<1>0. 0 \in Count /\ \A n \in Count : n < MaxRetries => n + 1 \in Count
  BY ConsumerAssumption DEF Count
<1>1. ASSUME NEW m \in Msg, Publish(m) PROVE Owed(q)'
  <2>1. \A n \in Count : main'[q][n] >= main[q][n]
    BY <1>0, <1>1 DEF RmqTypeOK, Publish
  <2>2. UNCHANGED <<retry, run>>
    BY <1>1 DEF Publish
  <2>3. QED BY <2>1, <2>2 DEF RmqTypeOK, Owed, Live, IsIdle
<1>2. ASSUME NEW k \in Slot, NEW m \in Msg, NEW n \in Count, Deliver(k, m, n)
      PROVE  Owed(q)'
  <2>1. /\ run'[k] = [pc |-> "running", msg |-> m, n |-> n, live |-> TRUE]
        /\ \A j \in Slot : j # k => run'[j] = run[j]
        /\ q # m => main'[q] = main[q]
        /\ IsIdle(k) /\ UNCHANGED retry
    BY <1>2 DEF RmqTypeOK, Deliver
  <2>2. run'[k] # Idle
    <3>1. run'[k] \in Busy
      BY <2>1 DEF Busy
    <3>2. QED BY <3>1, IdleIsNotBusy
  <2>3. CASE q = m
    BY <2>1, <2>2, <2>3 DEF Owed, Live, IsIdle
  <2>4. CASE q # m
    <3>1. CASE \E i \in Count : main[q][i] > 0 \/ retry[q][i] > 0
      BY <2>1, <2>4, <3>1 DEF Owed
    <3>2. CASE \E j \in Slot : /\ Live(j) /\ run[j].msg = q
                               /\ run[j].pc \in {"running", "failed"}
      BY <2>1, <3>2 DEF Owed, Live, IsIdle
    <3>3. QED BY <3>1, <3>2 DEF Owed
  <2>5. QED BY <2>3, <2>4
<1>3. ASSUME NEW m \in Msg, NEW n \in Count, RetryExpires(m, n)
      PROVE  Owed(q)'
  <2>1. /\ q # m => main'[q] = main[q] /\ retry'[q] = retry[q]
        /\ main'[m][n] > 0
        /\ UNCHANGED run
    BY <1>3 DEF RmqTypeOK, RetryExpires
  <2>2. QED BY <2>1 DEF Owed, Live, IsIdle
<1>4. ASSUME NEW k \in Slot, ~IsIdle(k),
             NEW pc \in {"failed", "succeeded", "rerouted", "rejected"},
             Goto(k, pc), UNCHANGED main,
             \A n \in Count : retry'[q][n] >= retry[q][n],
             run[k].msg # q \/ pc = "failed"
      PROVE  Owed(q)'
  <2>1. /\ main' \in [Msg -> [Count -> Nat]] /\ retry' \in [Msg -> [Count -> Nat]]
        /\ \A n \in Count : main'[q][n] >= main[q][n]
    BY <1>4 DEF RmqTypeOK
  <2>2. QED BY <1>4, <2>1, GotoKeepsOwed
<1>5. ASSUME NEW k \in Slot, HandlerReturns(k) PROVE Owed(q)' \/ Finishes(q)
  <2>1. ~IsIdle(k) /\ Goto(k, "succeeded") /\ UNCHANGED <<main, retry>>
    BY <1>5 DEF HandlerReturns, At
  <2>2. \A n \in Count : retry'[q][n] >= retry[q][n]
    BY <2>1 DEF RmqTypeOK
  <2>3. QED BY <1>4, <1>5, <2>1, <2>2 DEF Finishes
<1>6. ASSUME NEW k \in Slot, HandlerThrows(k) \/ GuardRejects(k) PROVE Owed(q)'
  <2>1. /\ ~IsIdle(k) /\ UNCHANGED <<main, retry>>
        /\ Goto(k, "failed") \/ (Goto(k, "rejected") /\ run[k].msg # q)
    BY <1>6, ConsumerAssumption DEF HandlerThrows, GuardRejects, At
  <2>2. \A n \in Count : retry'[q][n] >= retry[q][n]
    BY <2>1 DEF RmqTypeOK
  <2>3. QED BY <1>4, <2>1, <2>2
<1>7. ASSUME NEW k \in Slot, Ack(k) \/ StaleEnds(k) PROVE Owed(q)'
  <2>1. Free(k) /\ UNCHANGED <<main, retry>>
    BY <1>7 DEF Ack, StaleEnds
  <2>2. Live(k) => run[k].msg # q \/ run[k].pc \notin {"running", "failed"}
    BY <1>7 DEF Ack, StaleEnds, At, Live
  <2>3. QED BY <2>1, <2>2, FreeKeepsOwed
<1>8. ASSUME NEW k \in Slot, RouteToRetry(k) PROVE Owed(q)'
  <2>1. PICK m \in Msg : m = run[k].msg
    BY <1>8, BusyRun DEF RouteToRetry, FailedEvent, At
  <2>2. /\ ~IsIdle(k) /\ Goto(k, "rerouted") /\ run[k].n + 1 \in Count
        /\ UNCHANGED main
    BY <1>0, <1>8, BusyRun DEF RouteToRetry, FailedEvent, At
  <2>3. /\ retry'[m][run[k].n + 1] > 0
        /\ \A n \in Count : retry'[q][n] >= retry[q][n]
    BY <1>8, <2>1, <2>2 DEF RmqTypeOK, RouteToRetry
  <2>4. CASE m = q
    BY <2>2, <2>3, <2>4 DEF Owed
  <2>5. CASE m # q
    BY <1>4, <2>1, <2>2, <2>3, <2>5
  <2>6. QED BY <2>4, <2>5
<1>9. ASSUME NEW k \in Slot, GiveUp(k) PROVE Owed(q)' \/ GivesUp(q)
  <2>1. CASE run[k].msg = q
    BY <1>9, <2>1 DEF GivesUp
  <2>2. CASE run[k].msg # q
    <3>1. /\ ~IsIdle(k) /\ UNCHANGED <<main, retry>>
          /\ Goto(k, "rerouted") \/ Free(k)
      BY <1>9 DEF GiveUp, Park, Drop, FailedEvent, At
    <3>2. \A n \in Count : retry'[q][n] >= retry[q][n]
      BY <3>1 DEF RmqTypeOK
    <3>3. QED BY <1>4, <2>2, <3>1, <3>2, FreeKeepsOwed
  <2>3. QED BY <2>1, <2>2
<1>10. ASSUME NEW k \in Slot, LoseConnection(k) \/ (Crash(k) /\ Live(k))
       PROVE  Owed(q)'
  <2>1. PICK m \in Msg, n \in Count : m = run[k].msg /\ n = run[k].n
    BY <1>10, BusyRun DEF LoseConnection, Live
  <2>2. /\ main' = [main EXCEPT ![m][n] = @ + 1]
        /\ \A j \in Slot : j # k => run'[j] = run[j]
        /\ UNCHANGED retry
    BY <1>10, <2>1 DEF RmqTypeOK, LoseConnection, Crash, Requeued, Free
  <2>3. main'[m][n] > 0 /\ (q # m => main'[q] = main[q])
    BY <2>2 DEF RmqTypeOK
  <2>4. CASE q = m
    BY <2>3, <2>4 DEF Owed
  <2>5. CASE q # m
    <3>1. CASE \E i \in Count : main[q][i] > 0 \/ retry[q][i] > 0
      BY <2>2, <2>3, <2>5, <3>1 DEF Owed
    <3>2. CASE \E j \in Slot : /\ Live(j) /\ run[j].msg = q
                               /\ run[j].pc \in {"running", "failed"}
      BY <2>1, <2>2, <2>5, <3>2 DEF Owed, Live, IsIdle
    <3>3. QED BY <3>1, <3>2 DEF Owed
  <2>6. QED BY <2>4, <2>5
<1>11. ASSUME NEW k \in Slot, Crash(k), ~Live(k) PROVE Owed(q)'
  <2>1. Free(k) /\ UNCHANGED <<main, retry>>
    BY <1>11 DEF Crash
  <2>2. QED BY <1>11, <2>1, FreeKeepsOwed
<1>12. CASE UNCHANGED rmqVars
  BY <1>12 DEF Owed, Live, IsIdle
<1>13. QED
  BY <1>1, <1>2, <1>3, <1>5, <1>6, <1>7, <1>8, <1>9, <1>10, <1>11, <1>12,
     RmqNextCases

\* What the counters of an event remember: a publication makes it owed, and
\* nothing is taken back.
LEMMA HistoryStep ==
  ASSUME RmqTypeOK, [RmqNext]_rmqVars, NEW q \in Msg
  PROVE  /\ published'[q] > 0 => published[q] > 0 \/ Owed(q)'
         /\ handled'[q] >= handled[q] /\ failures'[q] >= failures[q]
         /\ dlq'[q] >= dlq[q]
         /\ Finishes(q) => handled'[q] > 0
         /\ GivesUp(q) /\ DeadLetterQueue => dlq'[q] > 0
<1>1. published'[q] > 0 => published[q] > 0 \/ Owed(q)'
  <2>1. ASSUME NEW m \in Msg, Publish(m) PROVE published'[q] = published[q] \/ Owed(q)'
    <3>1. 0 \in Count
      BY ConsumerAssumption DEF Count
    <3>2. q = m => main'[q][0] > 0
      BY <2>1, <3>1 DEF RmqTypeOK, Publish
    <3>3. q # m => published'[q] = published[q]
      BY <2>1 DEF RmqTypeOK, Publish
    <3>4. QED BY <3>1, <3>2, <3>3 DEF Owed
  <2>2. UNCHANGED published \/ \E m \in Msg : Publish(m)
    BY RmqNextCases DEF Deliver, RetryExpires, HandlerReturns, HandlerThrows,
       GuardRejects, Ack, RouteToRetry, GiveUp, Park, Drop, StaleEnds,
       LoseConnection, Crash
  <2>3. QED BY <2>1, <2>2
<1>2. handled'[q] >= handled[q] /\ (Finishes(q) => handled'[q] > 0)
  <2>1. ASSUME NEW k \in Slot, HandlerReturns(k)
        PROVE  handled'[q] = IF run[k].msg = q THEN handled[q] + 1 ELSE handled[q]
    BY <2>1 DEF RmqTypeOK, HandlerReturns
  <2>2. UNCHANGED handled \/ \E k \in Slot : HandlerReturns(k)
    BY RmqNextCases DEF Publish, Deliver, RetryExpires, HandlerThrows,
       GuardRejects, Ack, RouteToRetry, GiveUp, Park, Drop, StaleEnds,
       LoseConnection, Crash
  <2>3. handled[q] \in Nat
    BY DEF RmqTypeOK
  <2>4. QED BY <2>1, <2>2, <2>3 DEF Finishes
<1>3. failures'[q] >= failures[q]
  <2>1. ASSUME NEW k \in Slot, HandlerThrows(k)
        PROVE  failures'[q] = IF run[k].msg = q THEN failures[q] + 1 ELSE failures[q]
    BY <2>1 DEF RmqTypeOK, HandlerThrows
  <2>2. UNCHANGED failures \/ \E k \in Slot : HandlerThrows(k)
    BY RmqNextCases DEF Publish, Deliver, RetryExpires, HandlerReturns,
       GuardRejects, Ack, RouteToRetry, GiveUp, Park, Drop, StaleEnds,
       LoseConnection, Crash
  <2>3. failures[q] \in Nat
    BY DEF RmqTypeOK
  <2>4. QED BY <2>1, <2>2, <2>3
<1>4. dlq'[q] >= dlq[q] /\ (GivesUp(q) /\ DeadLetterQueue => dlq'[q] > 0)
  <2>1. ASSUME NEW k \in Slot, GiveUp(k), DeadLetterQueue
        PROVE  dlq'[q] = IF run[k].msg = q THEN dlq[q] + 1 ELSE dlq[q]
    BY <2>1 DEF RmqTypeOK, GiveUp, Park
  <2>2. UNCHANGED dlq \/ \E k \in Slot : GiveUp(k) /\ DeadLetterQueue
    BY RmqNextCases DEF Publish, Deliver, RetryExpires, HandlerReturns,
       HandlerThrows, GuardRejects, Ack, RouteToRetry, GiveUp, Park, Drop,
       StaleEnds, LoseConnection, Crash
  <2>3. dlq[q] \in Nat
    BY DEF RmqTypeOK
  <2>4. QED BY <2>1, <2>2, <2>3 DEF GivesUp
<1>5. QED BY <1>1, <1>2, <1>3, <1>4

LEMMA OwedUntilHandledStep ==
  ASSUME DeadLetterQueue, RmqTypeOK, RmqTypeOK', OwedUntilHandled,
         [RmqNext]_rmqVars
  PROVE  OwedUntilHandled'
<1> SUFFICES ASSUME NEW q \in Msg \ Rpc, published'[q] > 0, handled'[q] = 0
             PROVE  Owed(q)' \/ dlq'[q] > 0
  BY DEF OwedUntilHandled
<1>1. /\ handled[q] \in Nat /\ dlq[q] \in Nat /\ dlq'[q] \in Nat
      /\ published[q] > 0 \/ Owed(q)'
      /\ handled'[q] >= handled[q] /\ dlq'[q] >= dlq[q]
      /\ ~Finishes(q) /\ (GivesUp(q) => dlq'[q] > 0)
  BY HistoryStep DEF RmqTypeOK
<1>2. Owed(q) \/ dlq[q] > 0 \/ Owed(q)'
  BY <1>1 DEF OwedUntilHandled
<1>3. CASE dlq[q] > 0
  BY <1>1, <1>3
<1>4. CASE Owed(q)
  BY <1>1, <1>4, OwedStep
<1>5. QED BY <1>2, <1>3, <1>4

\* With a dead-letter queue configured, an event that was published and never
\* handled is still in the broker or parked, whatever crashes, lost
\* connections and failures came between.
THEOREM EventsAreNeverLost == DeadLetterQueue => (RmqSpec => []NeverLost)
<1> SUFFICES ASSUME DeadLetterQueue PROVE RmqSpec => []NeverLost
  OBVIOUS
<1>1. RmqInit => OwedUntilHandled
  BY DEF RmqInit, OwedUntilHandled
<1>2. /\ RmqTypeOK /\ RmqTypeOK' /\ OwedUntilHandled /\ [RmqNext]_rmqVars
      => OwedUntilHandled'
  BY OwedUntilHandledStep
<1>3. OwedUntilHandled => NeverLost
  BY DEF OwedUntilHandled, NeverLost, Owed, InFlight
<1>4. QED BY <1>1, <1>2, <1>3, RmqTypeCorrect, PTL DEF RmqSpec
-----------------------------------------------------------------------------
\* Without a dead-letter queue: an event is given up only by a slot whose
\* handler threw, and that is on record.
FailedOwed ==
  /\ \A k \in Slot : At(k, "failed") => failures[run[k].msg] > 0
  /\ \A m \in Msg \ Rpc :
       published[m] > 0 /\ handled[m] = 0 /\ failures[m] = 0 => Owed(m)

LEMMA FailedOnRecordStep ==
  ASSUME RmqTypeOK, RmqTypeOK', [RmqNext]_rmqVars,
         \A k \in Slot : At(k, "failed") => failures[run[k].msg] > 0,
         NEW j \in Slot, At(j, "failed")'
  PROVE  failures'[run'[j].msg] > 0
<1>1. ASSUME run'[j] = run[j] PROVE failures'[run'[j].msg] > 0
  <2>1. ~IsIdle(j) /\ At(j, "failed")
    BY <1>1 DEF At, IsIdle
  <2>2. run[j].msg \in Msg
    BY <2>1, BusyRun
  <2>3. failures'[run[j].msg] >= failures[run[j].msg]
    BY <2>2, HistoryStep
  <2>4. failures[run[j].msg] \in Nat /\ failures'[run[j].msg] \in Nat
    BY <2>2 DEF RmqTypeOK
  <2>5. QED BY <1>1, <2>1, <2>3, <2>4
<1>2. ASSUME HandlerThrows(j) PROVE failures'[run'[j].msg] > 0
  <2>1. run[j].msg \in Msg /\ ~IsIdle(j)
    BY <1>2, BusyRun DEF HandlerThrows, At
  <2>2. run'[j].msg = run[j].msg
    BY <1>2, <2>1, BusyRun DEF RmqTypeOK, HandlerThrows, Goto, Busy
  <2>3. QED BY <1>2, <2>1, <2>2 DEF RmqTypeOK, HandlerThrows
<1>3. ASSUME LoseConnection(j) PROVE failures'[run'[j].msg] > 0
  <2>1. ~IsIdle(j)
    BY <1>3 DEF LoseConnection, Live
  <2>2. run'[j].msg = run[j].msg /\ run'[j].pc = run[j].pc
    BY <1>3, <2>1, BusyRun DEF RmqTypeOK, LoseConnection, Busy
  <2>3. QED BY <1>3, <2>1, <2>2 DEF LoseConnection, At
<1>4. ASSUME NEW pc \in {"running", "succeeded", "rerouted", "rejected"},
             run'[j].pc = pc
      PROVE  FALSE
  BY <1>4 DEF At
<1>5. \/ run'[j] = run[j] \/ HandlerThrows(j) \/ LoseConnection(j)
      \/ run'[j].pc \in {"running", "succeeded", "rerouted", "rejected"}
  <2>1. run'[j] # Idle
    BY DEF At, IsIdle
  <2>2. ASSUME NEW k \in Slot, k # j,
               Goto(k, "failed") \/ Goto(k, "succeeded") \/ Goto(k, "rerouted")
                 \/ Goto(k, "rejected") \/ Free(k) \/ LoseConnection(k)
        PROVE  run'[j] = run[j]
    BY <2>2 DEF RmqTypeOK, Goto, Free, LoseConnection
  <2>3. ASSUME NEW pc \in {"succeeded", "rerouted", "rejected"}, Goto(j, pc), ~IsIdle(j)
        PROVE  run'[j].pc = pc
    BY <2>3, BusyRun DEF RmqTypeOK, Goto, Busy
  <2>4. ~Free(j)
    BY <2>1 DEF RmqTypeOK, Free
  <2>5. ASSUME NEW k \in Slot, NEW m \in Msg, NEW n \in Count, Deliver(k, m, n)
        PROVE  run'[j] = run[j] \/ run'[j].pc = "running"
    BY <2>5 DEF RmqTypeOK, Deliver
  <2>6. \/ UNCHANGED run
        \/ \E k \in Slot, m \in Msg, n \in Count : Deliver(k, m, n)
        \/ \E k \in Slot : HandlerThrows(k) \/ LoseConnection(k)
        \/ \E k \in Slot : ~IsIdle(k) /\ (Goto(k, "succeeded") \/ Goto(k, "rejected")
                             \/ Goto(k, "rerouted"))
        \/ \E k \in Slot : Free(k)
    BY RmqNextCases DEF Publish, RetryExpires, HandlerReturns, GuardRejects, Ack,
       RouteToRetry, GiveUp, Park, Drop, FailedEvent, StaleEnds, Crash, At
  <2>7. \A k \in Slot : HandlerThrows(k) => Goto(k, "failed")
    BY DEF HandlerThrows
  <2>8. QED BY <2>2, <2>3, <2>4, <2>5, <2>6, <2>7
<1>6. QED BY <1>1, <1>2, <1>3, <1>4, <1>5

LEMMA FailedOwedStep ==
  ASSUME RmqTypeOK, RmqTypeOK', FailedOwed, [RmqNext]_rmqVars
  PROVE  FailedOwed'
<1>1. ASSUME NEW j \in Slot, At(j, "failed")' PROVE failures'[run'[j].msg] > 0
  BY <1>1, FailedOnRecordStep DEF FailedOwed
<1>2. ASSUME NEW q \in Msg \ Rpc, published'[q] > 0, handled'[q] = 0, failures'[q] = 0
      PROVE  Owed(q)'
  <2>1. /\ handled[q] \in Nat /\ failures[q] \in Nat
        /\ published[q] > 0 \/ Owed(q)'
        /\ handled'[q] >= handled[q] /\ failures'[q] >= failures[q]
        /\ ~Finishes(q)
    BY <1>2, HistoryStep DEF RmqTypeOK
  <2>2. ~GivesUp(q)
    BY <1>2, <2>1 DEF FailedOwed, GivesUp, GiveUp, FailedEvent
  <2>3. Owed(q) \/ Owed(q)'
    BY <1>2, <2>1 DEF FailedOwed
  <2>4. QED BY <2>1, <2>2, <2>3, OwedStep
<1>3. QED BY <1>1, <1>2 DEF FailedOwed

\* However a service is configured, an event that no handler has failed on is
\* not lost: crashes and lost connections alone never lose one.
THEOREM EventsLostOnlyByFailure == RmqSpec => []LostOnlyByFailure
<1>1. RmqInit => FailedOwed
  BY DEF RmqInit, FailedOwed, At, IsIdle
<1>2. RmqTypeOK /\ RmqTypeOK' /\ FailedOwed /\ [RmqNext]_rmqVars => FailedOwed'
  BY FailedOwedStep
<1>3. FailedOwed => LostOnlyByFailure
  BY DEF FailedOwed, LostOnlyByFailure, Owed, InFlight
<1>4. QED BY <1>1, <1>2, <1>3, RmqTypeCorrect, PTL DEF RmqSpec
-----------------------------------------------------------------------------
\* No event is parked early: a copy whose retry counter stands at n has been
\* thrown out by n handlers, whichever queue or handler holds it, and a handler
\* that has just thrown makes one more.
CountsFailures ==
  /\ \A m \in Msg : /\ dlq[m] > 0 => failures[m] > MaxRetries
                    /\ \A n \in Count :
                         main[m][n] > 0 \/ retry[m][n] > 0 => failures[m] >= n
  /\ \A k \in Slot : ~IsIdle(k) =>
       /\ failures[run[k].msg] >= run[k].n
       /\ run[k].pc = "failed" => failures[run[k].msg] > run[k].n

\* A step that moves no counter and only takes copies away.
LEMMA CountsKept ==
  ASSUME RmqTypeOK, CountsFailures, UNCHANGED failures,
         \A m \in Msg : /\ dlq'[m] > 0 => dlq[m] > 0
                       /\ \A n \in Count : main'[m][n] > 0 \/ retry'[m][n] > 0
                            => main[m][n] > 0 \/ retry[m][n] > 0,
         \A j \in Slot : run'[j] = run[j] \/ run'[j] = Idle
  PROVE  CountsFailures'
  BY DEF CountsFailures, IsIdle

LEMMA CountsFailuresStep ==
  ASSUME RetryQueue, RmqTypeOK, CountsFailures, [RmqNext]_rmqVars
  PROVE  CountsFailures'
<1>0. 0 \in Count /\ \A n \in Count : n \in Nat /\ (n < MaxRetries => n + 1 \in Count)
  BY ConsumerAssumption DEF Count
<1>1. ASSUME NEW m \in Msg, Publish(m) PROVE CountsFailures'
  <2>1. \A q \in Msg, n \in Count : main'[q][n] = main[q][n] \/ n = 0
    BY <1>1 DEF RmqTypeOK, Publish
  <2>2. UNCHANGED <<retry, dlq, run, failures>>
    BY <1>1 DEF Publish
  <2>3. ASSUME NEW q \in Msg, NEW n \in Count, main'[q][n] > 0 \/ retry'[q][n] > 0
        PROVE  failures'[q] >= n
    <3>1. CASE n = 0
      BY <2>2, <3>1 DEF RmqTypeOK
    <3>2. CASE n # 0
      <4>1. main'[q][n] = main[q][n]
        BY <2>1, <3>2
      <4>2. main[q][n] > 0 \/ retry[q][n] > 0
        BY <2>2, <2>3, <4>1
      <4>3. QED BY <2>2, <4>2 DEF CountsFailures
    <3>3. QED BY <3>1, <3>2
  <2>4. QED BY <2>2, <2>3 DEF CountsFailures, IsIdle
<1>2. ASSUME NEW k \in Slot, NEW m \in Msg, NEW n \in Count, Deliver(k, m, n)
      PROVE  CountsFailures'
  <2>1. /\ main[m][n] > 0
        /\ \A q \in Msg, i \in Count : main'[q][i] > 0 => main[q][i] > 0
        /\ run'[k] = [pc |-> "running", msg |-> m, n |-> n, live |-> TRUE]
        /\ \A j \in Slot : j # k => run'[j] = run[j]
        /\ UNCHANGED <<retry, dlq, failures>>
    BY <1>2 DEF RmqTypeOK, Deliver
  <2>2. failures[m] >= n
    BY <2>1 DEF CountsFailures
  <2>3. QED BY <2>1, <2>2 DEF CountsFailures, IsIdle
<1>3. ASSUME NEW m \in Msg, NEW n \in Count, RetryExpires(m, n)
      PROVE  CountsFailures'
  <2>1. /\ retry[m][n] > 0
        /\ \A q \in Msg, i \in Count :
             main'[q][i] > 0 \/ retry'[q][i] > 0
             => main[q][i] > 0 \/ retry[q][i] > 0
        /\ UNCHANGED <<dlq, run, failures>>
    BY <1>3 DEF RmqTypeOK, RetryExpires
  <2>2. QED BY <2>1, CountsKept
<1>4. ASSUME NEW k \in Slot, ~IsIdle(k), NEW pc \in {"succeeded", "rerouted", "rejected"},
             Goto(k, pc), UNCHANGED failures
      PROVE  \A j \in Slot : ~IsIdle(j)' =>
               /\ failures'[run'[j].msg] >= run'[j].n
               /\ run'[j].pc = "failed" => failures'[run'[j].msg] > run'[j].n
  <2>1. /\ run'[k].pc = pc /\ run'[k].msg = run[k].msg /\ run'[k].n = run[k].n
        /\ \A j \in Slot : j # k => run'[j] = run[j]
    BY <1>4, BusyRun DEF RmqTypeOK, Goto, Busy
  <2>2. QED BY <1>4, <2>1 DEF CountsFailures, IsIdle
<1>5. ASSUME NEW k \in Slot, HandlerReturns(k) \/ GuardRejects(k)
      PROVE  CountsFailures'
  <2>1. /\ ~IsIdle(k) /\ UNCHANGED <<main, retry, dlq, failures>>
        /\ Goto(k, "succeeded") \/ Goto(k, "rejected")
    BY <1>5 DEF HandlerReturns, GuardRejects, At
  <2>2. QED BY <1>4, <2>1 DEF CountsFailures
<1>6. ASSUME NEW k \in Slot, HandlerThrows(k) PROVE CountsFailures'
  <2>1. /\ ~IsIdle(k) /\ run[k].msg \in Msg /\ run[k].n \in Nat
        /\ UNCHANGED <<main, retry, dlq>>
        /\ failures' = [failures EXCEPT ![run[k].msg] = @ + 1]
    BY <1>0, <1>6, BusyRun DEF HandlerThrows, At
  <2>2. /\ run'[k].msg = run[k].msg /\ run'[k].n = run[k].n
        /\ \A j \in Slot : j # k => run'[j] = run[j]
    BY <1>6, <2>1, BusyRun DEF RmqTypeOK, HandlerThrows, Goto, Busy
  <2>3. /\ \A q \in Msg : failures'[q] >= failures[q]
        /\ failures'[run[k].msg] = failures[run[k].msg] + 1
        /\ \A q \in Msg : failures[q] \in Nat /\ failures'[q] \in Nat
    BY <2>1 DEF RmqTypeOK
  <2>4. \A m \in Msg :
          /\ dlq'[m] > 0 => failures'[m] > MaxRetries
          /\ \A n \in Count :
               main'[m][n] > 0 \/ retry'[m][n] > 0 => failures'[m] >= n
    BY <1>0, <2>1, <2>3, ConsumerAssumption DEF CountsFailures
  <2>5. ASSUME NEW j \in Slot, ~IsIdle(j)'
        PROVE  /\ failures'[run'[j].msg] >= run'[j].n
               /\ run'[j].pc = "failed" => failures'[run'[j].msg] > run'[j].n
    <3>1. CASE j = k
      BY <2>1, <2>2, <2>3, <3>1 DEF CountsFailures
    <3>2. CASE j # k
      <4>1. ~IsIdle(j) /\ run[j].msg \in Msg /\ run[j].n \in Nat
        BY <1>0, <2>2, <2>5, <3>2, BusyRun DEF IsIdle
      <4>2. QED BY <2>2, <2>3, <3>2, <4>1 DEF CountsFailures
    <3>3. QED BY <3>1, <3>2
  <2>6. QED BY <2>4, <2>5 DEF CountsFailures
<1>7. ASSUME NEW k \in Slot, Ack(k) \/ StaleEnds(k) PROVE CountsFailures'
  <2>1. Free(k) /\ UNCHANGED <<main, retry, dlq, failures>>
    BY <1>7 DEF Ack, StaleEnds
  <2>2. QED BY <2>1, CountsKept DEF RmqTypeOK, Free
<1>8. ASSUME NEW k \in Slot, RouteToRetry(k) PROVE CountsFailures'
  <2>1. PICK m \in Msg, n \in Count : m = run[k].msg /\ n = run[k].n
    BY <1>8, BusyRun DEF RouteToRetry, FailedEvent, At
  <2>2. /\ ~IsIdle(k) /\ Goto(k, "rerouted") /\ n + 1 \in Count
        /\ UNCHANGED <<main, dlq, failures>>
    BY <1>0, <1>8, <2>1 DEF RouteToRetry, FailedEvent, At
  <2>3. failures[m] >= n + 1
    BY <1>0, <1>8, <2>1 DEF RmqTypeOK, CountsFailures, RouteToRetry, FailedEvent, At
  <2>4. \A q \in Msg, i \in Count :
          retry'[q][i] = retry[q][i] \/ (q = m /\ i = n + 1)
    BY <1>8, <2>1, <2>2 DEF RmqTypeOK, RouteToRetry
  <2>5. QED BY <1>4, <2>2, <2>3, <2>4 DEF CountsFailures
<1>9. ASSUME NEW k \in Slot, GiveUp(k), DeadLetterQueue PROVE CountsFailures'
  <2>1. PICK m \in Msg, n \in Count : m = run[k].msg /\ n = run[k].n
    BY <1>9, BusyRun DEF GiveUp, FailedEvent, At
  <2>2. /\ ~IsIdle(k) /\ Goto(k, "rerouted") /\ ~(n < MaxRetries)
        /\ UNCHANGED <<main, retry, failures>>
    BY <1>9, <2>1 DEF GiveUp, Park, FailedEvent, At
  <2>3. failures[m] > MaxRetries
    <3>1. failures[m] > n
      BY <1>9, <2>1 DEF CountsFailures, GiveUp, FailedEvent, At
    <3>2. QED BY <1>0, <2>1, <2>2, <3>1, ConsumerAssumption DEF RmqTypeOK
  <2>4. \A q \in Msg : dlq'[q] = dlq[q] \/ q = m
    BY <1>9, <2>1 DEF RmqTypeOK, GiveUp, Park
  <2>5. QED BY <1>4, <2>2, <2>3, <2>4 DEF CountsFailures
<1>10. ASSUME NEW k \in Slot, GiveUp(k), ~DeadLetterQueue PROVE CountsFailures'
  <2>1. Free(k) /\ UNCHANGED <<main, retry, dlq, failures>>
    BY <1>10 DEF GiveUp, Drop
  <2>2. QED BY <2>1, CountsKept DEF RmqTypeOK, Free
<1>11. ASSUME NEW k \in Slot, ~IsIdle(k), Requeued(k), UNCHANGED failures
       PROVE  \A q \in Msg, i \in Count : main'[q][i] > 0 =>
                main[q][i] > 0 \/ failures'[q] >= i
  <2>1. /\ run[k].msg \in Msg /\ run[k].n \in Count
        /\ failures[run[k].msg] >= run[k].n
    BY <1>11, BusyRun DEF CountsFailures
  <2>2. \A q \in Msg, i \in Count :
          main'[q][i] = main[q][i] \/ (q = run[k].msg /\ i = run[k].n)
    BY <1>11, <2>1 DEF RmqTypeOK, Requeued
  <2>3. QED BY <1>11, <2>1, <2>2
<1>12. ASSUME NEW k \in Slot, LoseConnection(k) PROVE CountsFailures'
  <2>1. ~IsIdle(k) /\ Requeued(k) /\ UNCHANGED <<retry, dlq, failures>>
    BY <1>12 DEF LoseConnection, Live
  <2>2. /\ run'[k].msg = run[k].msg /\ run'[k].n = run[k].n /\ run'[k].pc = run[k].pc
        /\ \A j \in Slot : j # k => run'[j] = run[j]
    BY <1>12, <2>1, BusyRun DEF RmqTypeOK, LoseConnection, Busy
  <2>3. QED BY <1>11, <2>1, <2>2 DEF CountsFailures, IsIdle
<1>13. ASSUME NEW k \in Slot, Crash(k) PROVE CountsFailures'
  <2>1. ~IsIdle(k) /\ Free(k) /\ UNCHANGED <<retry, dlq, failures>>
    BY <1>13 DEF Crash
  <2>2. \A j \in Slot : run'[j] = run[j] \/ run'[j] = Idle
    BY <2>1 DEF RmqTypeOK, Free
  <2>3. CASE Live(k)
    BY <1>11, <1>13, <2>1, <2>2, <2>3 DEF Crash, CountsFailures, IsIdle
  <2>4. CASE ~Live(k)
    BY <1>13, <2>1, <2>2, <2>4, CountsKept DEF Crash
  <2>5. QED BY <2>3, <2>4
<1>14. CASE UNCHANGED rmqVars
  BY <1>14, CountsKept
<1>15. QED
  BY <1>1, <1>2, <1>3, <1>5, <1>6, <1>7, <1>8, <1>9, <1>10, <1>12, <1>13,
     <1>14, RmqNextCases

\* With a retry queue configured, an event is parked only after maxRetries
\* retries, so after one failed execution more than that, however its copies
\* are redelivered.
THEOREM ParkedOnlyAfterRetries == RetryQueue => (RmqSpec => []ParkedAfterRetries)
<1> SUFFICES ASSUME RetryQueue PROVE RmqSpec => []ParkedAfterRetries
  OBVIOUS
<1>1. RmqInit => CountsFailures
  BY DEF RmqInit, CountsFailures, IsIdle
<1>2. RmqTypeOK /\ CountsFailures /\ [RmqNext]_rmqVars => CountsFailures'
  BY CountsFailuresStep
<1>3. CountsFailures => ParkedAfterRetries
  BY DEF CountsFailures, ParkedAfterRetries
<1>4. QED BY <1>1, <1>2, <1>3, RmqTypeCorrect, PTL DEF RmqSpec
-----------------------------------------------------------------------------
\* Counting copies and handlers, for the modules that refine the consumer.

\* A queue with one more, or one less, copy of a message.
LEMMA CopiesGrow ==
  ASSUME NEW q \in [Count -> Nat], NEW n \in Count, IsFiniteSet(Copies(q)),
         NEW p, p = [q EXCEPT ![n] = @ + 1]
  PROVE  /\ IsFiniteSet(Copies(p))
         /\ Cardinality(Copies(p)) = Cardinality(Copies(q)) + 1
<1> DEFINE x == <<n, q[n] + 1>>
<1>1. x \notin Copies(q)
  BY DEF Copies
<1>2. Copies(p) = Copies(q) \cup {x}
  <2>1. \A y : y \in Copies(p) <=> y \in Copies(q) \/ y = x
    <3>1. \A i : i \in 1..p[n] <=> i \in 1..q[n] \/ i = q[n] + 1
      OBVIOUS
    <3>2. \A c \in Count : c # n => p[c] = q[c]
      OBVIOUS
    <3>3. QED BY <3>1, <3>2 DEF Copies
  <2>2. QED BY <2>1
<1>3. /\ IsFiniteSet(Copies(q) \cup {x})
      /\ Cardinality(Copies(q) \cup {x}) = Cardinality(Copies(q)) + 1
  <2> HIDE DEF x
  <2>1. QED BY <1>1, FS_AddElement
<1>4. QED BY <1>2, <1>3

LEMMA CopiesShrink ==
  ASSUME NEW q \in [Count -> Nat], NEW n \in Count, IsFiniteSet(Copies(q)),
         q[n] > 0, NEW p, p = [q EXCEPT ![n] = @ - 1]
  PROVE  /\ IsFiniteSet(Copies(p))
         /\ Cardinality(Copies(q)) = Cardinality(Copies(p)) + 1
<1>1. p \in [Count -> Nat] /\ q = [p EXCEPT ![n] = @ + 1]
  <2>1. p \in [Count -> Nat] /\ q[n] = p[n] + 1
    OBVIOUS
  <2>2. \A c \in Count : q[c] = [p EXCEPT ![n] = @ + 1][c]
    BY <2>1
  <2>3. QED BY <2>1, <2>2
<1>2. Copies(p) \subseteq Copies(q)
  <2>1. \A c \in Count : p[c] <= q[c] /\ p[c] \in Nat /\ q[c] \in Nat
    OBVIOUS
  <2>2. QED BY <2>1 DEF Copies
<1>3. IsFiniteSet(Copies(p))
  BY <1>2, FS_Subset
<1>4. QED BY <1>1, <1>3, CopiesGrow

\* The same for the queues of all messages.
AllFinite(b) == \A m \in Msg : IsFiniteSet(Copies(b[m]))

LEMMA QueueGrows ==
  ASSUME NEW b \in [Msg -> [Count -> Nat]], AllFinite(b), NEW m \in Msg, NEW n \in Count,
         NEW c, c = [b EXCEPT ![m][n] = @ + 1], NEW q \in Msg
  PROVE  /\ IsFiniteSet(Copies(c[q]))
         /\ Cardinality(Copies(b[q])) \in Nat
         /\ Cardinality(Copies(c[q])) = Cardinality(Copies(b[q])) + (IF q = m THEN 1 ELSE 0)
<1>1. IsFiniteSet(Copies(b[q])) /\ Cardinality(Copies(b[q])) \in Nat
  BY FS_CardinalityType DEF AllFinite
<1>2. CASE q = m
  <2>1. PICK p, r : p = b[q] /\ r = c[q]
    OBVIOUS
  <2>2. p \in [Count -> Nat] /\ r = [p EXCEPT ![n] = @ + 1]
    BY <1>2, <2>1
  <2>3. IsFiniteSet(Copies(p))
    BY <1>1, <2>1
  <2>4. IsFiniteSet(Copies(r)) /\ Cardinality(Copies(r)) = Cardinality(Copies(p)) + 1
    BY <2>2, <2>3, CopiesGrow
  <2>5. QED BY <1>1, <1>2, <2>1, <2>4
<1>3. CASE q # m
  <2>1. c[q] = b[q]
    BY <1>3
  <2>2. QED BY <1>1, <1>3, <2>1
<1>4. QED BY <1>2, <1>3

LEMMA QueueShrinks ==
  ASSUME NEW b \in [Msg -> [Count -> Nat]], AllFinite(b), NEW m \in Msg, NEW n \in Count,
         b[m][n] > 0, NEW c, c = [b EXCEPT ![m][n] = @ - 1], NEW q \in Msg
  PROVE  /\ IsFiniteSet(Copies(c[q]))
         /\ Cardinality(Copies(c[q])) \in Nat
         /\ Cardinality(Copies(b[q])) = Cardinality(Copies(c[q])) + (IF q = m THEN 1 ELSE 0)
<1>1. IsFiniteSet(Copies(b[q])) /\ Cardinality(Copies(b[q])) \in Nat
  BY FS_CardinalityType DEF AllFinite
<1>2. CASE q = m
  <2>1. PICK p, r : p = b[q] /\ r = c[q]
    OBVIOUS
  <2>2. p \in [Count -> Nat] /\ r = [p EXCEPT ![n] = @ - 1] /\ p[n] > 0
    BY <1>2, <2>1
  <2>3. IsFiniteSet(Copies(p))
    BY <1>1, <2>1
  <2>4. IsFiniteSet(Copies(r)) /\ Cardinality(Copies(p)) = Cardinality(Copies(r)) + 1
    BY <2>2, <2>3, CopiesShrink
  <2>5. Cardinality(Copies(r)) \in Nat
    BY <2>4, FS_CardinalityType
  <2>6. QED BY <1>2, <2>1, <2>4, <2>5
<1>3. CASE q # m
  <2>1. c[q] = b[q]
    BY <1>3
  <2>2. QED BY <1>1, <1>3, <2>1
<1>4. QED BY <1>2, <1>3

\* Two finite sets that differ in k at most.
Has(k, S) == IF k \in S THEN 1 ELSE 0

LEMMA CountWithout ==
  ASSUME NEW S, NEW k, IsFiniteSet(S)
  PROVE  /\ IsFiniteSet(S \ {k}) /\ Cardinality(S \ {k}) \in Nat
         /\ Cardinality(S) = Cardinality(S \ {k}) + Has(k, S)
<1>1. IsFiniteSet(S \ {k}) /\ Cardinality(S \ {k}) \in Nat /\ Cardinality(S) \in Nat
  BY FS_Subset, FS_CardinalityType
<1>2. CASE k \in S
  <2>1. Cardinality(S \ {k}) = Cardinality(S) - 1
    BY <1>2, FS_RemoveElement
  <2>2. Has(k, S) = 1
    BY <1>2 DEF Has
  <2>3. QED BY <1>1, <2>1, <2>2
<1>3. CASE k \notin S
  <2>1. S \ {k} = S /\ Has(k, S) = 0
    BY <1>3 DEF Has
  <2>2. QED BY <1>1, <2>1
<1>4. QED BY <1>2, <1>3

LEMMA CountsDiffer ==
  ASSUME NEW S, NEW T, NEW k, IsFiniteSet(S), IsFiniteSet(T), S \ {k} = T \ {k}
  PROVE  /\ Cardinality(S) \in Nat /\ Cardinality(T) \in Nat
         /\ Cardinality(T) + Has(k, S) = Cardinality(S) + Has(k, T)
<1>1. /\ Cardinality(S) = Cardinality(S \ {k}) + Has(k, S)
      /\ Cardinality(T) = Cardinality(S \ {k}) + Has(k, T)
      /\ Cardinality(S \ {k}) \in Nat
  BY CountWithout
<1>2. Has(k, S) \in Nat /\ Has(k, T) \in Nat
  BY DEF Has
<1>3. QED BY <1>1, <1>2

\* Every queue holds finitely many copies and finitely many slots are busy: a
\* step adds one of either at most.
BusySlots == {k \in Slot : ~IsIdle(k)}
Finite == AllFinite(main) /\ AllFinite(retry) /\ IsFiniteSet(BusySlots)

LEMMA FiniteStep ==
  ASSUME RmqTypeOK, Finite, [RmqNext]_rmqVars
  PROVE  Finite'
<1>0. 0 \in Count /\ \A n \in Count : n < MaxRetries => n + 1 \in Count
  BY ConsumerAssumption DEF Count
<1>1. UNCHANGED main => AllFinite(main)'
  BY DEF Finite, AllFinite
<1>2. UNCHANGED retry => AllFinite(retry)'
  BY DEF Finite, AllFinite
<1>3. ASSUME NEW m \in Msg, NEW n \in Count, main' = [main EXCEPT ![m][n] = @ + 1]
      PROVE  AllFinite(main)'
  <2>1. \A q \in Msg : IsFiniteSet(Copies(main'[q]))
    BY <1>3, QueueGrows DEF RmqTypeOK, Finite
  <2>2. QED BY <2>1 DEF AllFinite
<1>4. ASSUME NEW k \in Slot, ~IsIdle(k), Requeued(k) PROVE AllFinite(main)'
  <2>1. PICK m \in Msg, n \in Count : m = run[k].msg /\ n = run[k].n
    BY <1>4, BusyRun
  <2>2. QED BY <1>3, <1>4, <2>1 DEF Requeued
<1>5. ASSUME NEW k \in Slot, \A j \in Slot : j # k => run'[j] = run[j]
      PROVE  IsFiniteSet(BusySlots)'
  <2>1. BusySlots' \subseteq BusySlots \cup {k}
    BY <1>5 DEF BusySlots, IsIdle
  <2>2. IsFiniteSet(BusySlots \cup {k})
    BY FS_AddElement DEF Finite
  <2>3. QED BY <2>1, <2>2, FS_Subset
<1>6. UNCHANGED run => IsFiniteSet(BusySlots)'
  BY DEF Finite, BusySlots, IsIdle
<1>7. ASSUME NEW k \in Slot,
             Free(k) \/ Goto(k, "succeeded") \/ Goto(k, "failed")
               \/ Goto(k, "rerouted") \/ Goto(k, "rejected")
      PROVE  IsFiniteSet(BusySlots)'
  <2>1. \A j \in Slot : j # k => run'[j] = run[j]
    BY <1>7 DEF RmqTypeOK, Free, Goto
  <2>2. QED BY <1>5, <2>1
<1>8. ASSUME NEW m \in Msg, Publish(m) PROVE Finite'
  BY <1>0, <1>2, <1>3, <1>6, <1>8 DEF Publish, Finite
<1>9. ASSUME NEW k \in Slot, NEW m \in Msg, NEW n \in Count, Deliver(k, m, n)
      PROVE  Finite'
  <2>1. main[m][n] > 0 /\ main' = [main EXCEPT ![m][n] = @ - 1]
    BY <1>9 DEF Deliver
  <2>2. \A q \in Msg : IsFiniteSet(Copies(main'[q]))
    BY <2>1, QueueShrinks DEF RmqTypeOK, Finite
  <2>3. \A j \in Slot : j # k => run'[j] = run[j]
    BY <1>9 DEF RmqTypeOK, Deliver
  <2>4. AllFinite(main)' /\ AllFinite(retry)'
    BY <1>2, <1>9, <2>2 DEF Deliver, AllFinite
  <2>5. QED BY <1>5, <2>3, <2>4 DEF Finite
<1>10. ASSUME NEW m \in Msg, NEW n \in Count, RetryExpires(m, n) PROVE Finite'
  <2>1. retry[m][n] > 0 /\ retry' = [retry EXCEPT ![m][n] = @ - 1]
    BY <1>10 DEF RetryExpires
  <2>2. \A q \in Msg : IsFiniteSet(Copies(retry'[q]))
    BY <2>1, QueueShrinks DEF RmqTypeOK, Finite
  <2>3. AllFinite(retry)' /\ AllFinite(main)'
    BY <1>3, <1>10, <2>2 DEF RetryExpires, AllFinite
  <2>4. QED BY <1>6, <1>10, <2>3 DEF RetryExpires, Finite
<1>11. ASSUME NEW k \in Slot,
              HandlerReturns(k) \/ HandlerThrows(k) \/ GuardRejects(k) \/ Ack(k)
                \/ StaleEnds(k) \/ GiveUp(k)
       PROVE  Finite'
  <2>1. UNCHANGED <<main, retry>>
    BY <1>11 DEF HandlerReturns, HandlerThrows, GuardRejects, Ack, StaleEnds,
       GiveUp, Park, Drop
  <2>2. IsFiniteSet(BusySlots)'
    BY <1>7, <1>11 DEF HandlerReturns, HandlerThrows, GuardRejects, Ack,
       StaleEnds, GiveUp, Park, Drop
  <2>3. QED BY <1>1, <1>2, <2>1, <2>2 DEF Finite
<1>12. ASSUME NEW k \in Slot, RouteToRetry(k) PROVE Finite'
  <2>1. PICK m \in Msg, n \in Count : m = run[k].msg /\ n = run[k].n
    BY <1>12, BusyRun DEF RouteToRetry, FailedEvent, At
  <2>2. n + 1 \in Count /\ retry' = [retry EXCEPT ![m][n + 1] = @ + 1]
    BY <1>0, <1>12, <2>1 DEF RouteToRetry
  <2>3. \A q \in Msg : IsFiniteSet(Copies(retry'[q]))
    BY <2>2, QueueGrows DEF RmqTypeOK, Finite
  <2>4. AllFinite(retry)' /\ AllFinite(main)'
    BY <1>1, <1>12, <2>3 DEF RouteToRetry, AllFinite
  <2>5. QED BY <1>7, <1>12, <2>4 DEF RouteToRetry, Finite
<1>13. ASSUME NEW k \in Slot, LoseConnection(k) PROVE Finite'
  <2>1. \A j \in Slot : j # k => run'[j] = run[j]
    BY <1>13 DEF RmqTypeOK, LoseConnection
  <2>2. QED BY <1>2, <1>4, <1>5, <1>13, <2>1 DEF LoseConnection, Live, Finite
<1>14. ASSUME NEW k \in Slot, Crash(k) PROVE Finite'
  <2>1. AllFinite(main)'
    BY <1>1, <1>4, <1>14 DEF Crash
  <2>2. QED BY <1>2, <1>7, <1>14, <2>1 DEF Crash, Finite
<1>15. CASE UNCHANGED rmqVars
  BY <1>1, <1>2, <1>6, <1>15 DEF Finite
<1>16. QED
  BY <1>8, <1>9, <1>10, <1>11, <1>12, <1>13, <1>14, <1>15, RmqNextCases

LEMMA RmqStaysFinite == RmqSpec => []Finite
<1>1. RmqInit => Finite
  <2>1. SUFFICES ASSUME RmqInit PROVE Finite
    OBVIOUS
  <2>2. \A m \in Msg : Copies(main[m]) = {} /\ Copies(retry[m]) = {}
    BY <2>1 DEF RmqInit, Copies
  <2>3. BusySlots = {}
    BY <2>1 DEF RmqInit, BusySlots, IsIdle
  <2>4. QED BY <2>2, <2>3, FS_EmptySet DEF Finite, AllFinite
<1>2. RmqTypeOK /\ Finite /\ [RmqNext]_rmqVars => Finite'
  BY FiniteStep
<1>3. QED BY <1>1, <1>2, RmqTypeCorrect, PTL DEF RmqSpec

\* The copies of one message in the two queues, and what moves them.
InMain(q) == Cardinality(Copies(main[q]))
InRetry(q) == Cardinality(Copies(retry[q]))

LEMMA QueuesCount ==
  ASSUME Finite, NEW q \in Msg
  PROVE  InMain(q) \in Nat /\ InRetry(q) \in Nat
  BY FS_CardinalityType DEF Finite, AllFinite, InMain, InRetry

LEMMA MainGrows ==
  ASSUME RmqTypeOK, Finite, NEW m \in Msg, NEW n \in Count, NEW q \in Msg,
         main' = [main EXCEPT ![m][n] = @ + 1]
  PROVE  InMain(q)' = InMain(q) + (IF q = m THEN 1 ELSE 0)
<1>1. ASSUME q = m PROVE InMain(q)' = InMain(q) + 1
  <2>1. main[q] \in [Count -> Nat] /\ main'[q] = [main[q] EXCEPT ![n] = @ + 1]
    BY <1>1 DEF RmqTypeOK
  <2>2. IsFiniteSet(Copies(main[q]))
    BY <1>1 DEF Finite, AllFinite
  <2>3. QED BY <2>1, <2>2, CopiesGrow DEF InMain
<1>2. ASSUME q # m PROVE InMain(q)' = InMain(q)
  <2>1. main'[q] = main[q]
    BY <1>2 DEF RmqTypeOK
  <2>2. QED BY <2>1 DEF InMain
<1>3. QED BY <1>1, <1>2, QueuesCount

LEMMA MainShrinks ==
  ASSUME RmqTypeOK, Finite, NEW m \in Msg, NEW n \in Count, NEW q \in Msg,
         main[m][n] > 0, main' = [main EXCEPT ![m][n] = @ - 1]
  PROVE  InMain(q) = InMain(q)' + (IF q = m THEN 1 ELSE 0)
<1>1. ASSUME q = m PROVE InMain(q) = InMain(q)' + 1
  <2>1. main[q] \in [Count -> Nat] /\ main'[q] = [main[q] EXCEPT ![n] = @ - 1]
    BY <1>1 DEF RmqTypeOK
  <2>2. IsFiniteSet(Copies(main[q])) /\ main[q][n] > 0
    BY <1>1 DEF Finite, AllFinite
  <2>3. QED BY <2>1, <2>2, CopiesShrink DEF InMain
<1>2. ASSUME q # m PROVE InMain(q)' = InMain(q)
  <2>1. main'[q] = main[q]
    BY <1>2 DEF RmqTypeOK
  <2>2. QED BY <2>1 DEF InMain
<1>3. QED BY <1>1, <1>2, QueuesCount

LEMMA RetryGrows ==
  ASSUME RmqTypeOK, Finite, NEW m \in Msg, NEW n \in Count, NEW q \in Msg,
         retry' = [retry EXCEPT ![m][n] = @ + 1]
  PROVE  InRetry(q)' = InRetry(q) + (IF q = m THEN 1 ELSE 0)
<1>1. ASSUME q = m PROVE InRetry(q)' = InRetry(q) + 1
  <2>1. retry[q] \in [Count -> Nat] /\ retry'[q] = [retry[q] EXCEPT ![n] = @ + 1]
    BY <1>1 DEF RmqTypeOK
  <2>2. IsFiniteSet(Copies(retry[q]))
    BY <1>1 DEF Finite, AllFinite
  <2>3. QED BY <2>1, <2>2, CopiesGrow DEF InRetry
<1>2. ASSUME q # m PROVE InRetry(q)' = InRetry(q)
  <2>1. retry'[q] = retry[q]
    BY <1>2 DEF RmqTypeOK
  <2>2. QED BY <2>1 DEF InRetry
<1>3. QED BY <1>1, <1>2, QueuesCount

LEMMA RetryShrinks ==
  ASSUME RmqTypeOK, Finite, NEW m \in Msg, NEW n \in Count, NEW q \in Msg,
         retry[m][n] > 0, retry' = [retry EXCEPT ![m][n] = @ - 1]
  PROVE  InRetry(q) = InRetry(q)' + (IF q = m THEN 1 ELSE 0)
<1>1. ASSUME q = m PROVE InRetry(q) = InRetry(q)' + 1
  <2>1. retry[q] \in [Count -> Nat] /\ retry'[q] = [retry[q] EXCEPT ![n] = @ - 1]
    BY <1>1 DEF RmqTypeOK
  <2>2. IsFiniteSet(Copies(retry[q])) /\ retry[q][n] > 0
    BY <1>1 DEF Finite, AllFinite
  <2>3. QED BY <2>1, <2>2, CopiesShrink DEF InRetry
<1>2. ASSUME q # m PROVE InRetry(q)' = InRetry(q)
  <2>1. retry'[q] = retry[q]
    BY <1>2 DEF RmqTypeOK
  <2>2. QED BY <2>1 DEF InRetry
<1>3. QED BY <1>1, <1>2, QueuesCount

LEMMA RequeuedGrows ==
  ASSUME RmqTypeOK, Finite, NEW k \in Slot, ~IsIdle(k), Requeued(k), NEW q \in Msg
  PROVE  InMain(q)' = InMain(q) + (IF q = run[k].msg THEN 1 ELSE 0)
<1>1. PICK m \in Msg, n \in Count : m = run[k].msg /\ n = run[k].n
  BY BusyRun
<1>2. main' = [main EXCEPT ![m][n] = @ + 1]
  BY <1>1 DEF Requeued
<1>3. QED BY <1>1, <1>2, MainGrows

LEMMA ReroutedGrows ==
  ASSUME RmqTypeOK, Finite, NEW k \in Slot, RouteToRetry(k), NEW q \in Msg
  PROVE  InRetry(q)' = InRetry(q) + (IF q = run[k].msg THEN 1 ELSE 0)
<1>1. PICK m \in Msg, n \in Count : m = run[k].msg /\ n = run[k].n
  BY BusyRun DEF RouteToRetry, FailedEvent, At
<1>2. n + 1 \in Count
  BY <1>1, ConsumerAssumption DEF RouteToRetry, Count
<1>3. retry' = [retry EXCEPT ![m][n + 1] = @ + 1]
  BY <1>1 DEF RouteToRetry
<1>4. QED BY <1>1, <1>2, <1>3, RetryGrows
-----------------------------------------------------------------------------
\* What a step does to the handlers it is not about: for services that refine the
\* consumer.

LEMMA GotoFacts ==
  ASSUME RmqTypeOK, NEW k \in Slot, ~IsIdle(k),
         NEW pc \in {"running", "succeeded", "failed", "rerouted", "rejected"}, Goto(k, pc)
  PROVE  /\ ~IsIdle(k)' /\ run'[k].pc = pc /\ run'[k].msg = run[k].msg
         /\ run'[k].live = run[k].live
         /\ \A j \in Slot : j # k => run'[j] = run[j]
<1>1. run'[k] = [run[k] EXCEPT !.pc = pc] /\ \A j \in Slot : j # k => run'[j] = run[j]
  BY DEF Goto, RmqTypeOK
<1>2. run'[k] \in Busy
  BY <1>1, BusyRun DEF Busy
<1>3. QED BY <1>1, <1>2, BusyRun, IdleIsNotBusy DEF IsIdle, Busy

LEMMA FreeFacts ==
  ASSUME RmqTypeOK, NEW k \in Slot, Free(k)
  PROVE  IsIdle(k)' /\ \A j \in Slot : j # k => run'[j] = run[j]
  BY DEF Free, IsIdle, RmqTypeOK
LEMMA BusyGoesOn ==
  ASSUME RmqTypeOK, NEW j \in Slot, ~IsIdle(j),
         Transport \/ \E k \in Slot : LoseConnection(k)
  PROVE  ~IsIdle(j)' /\ run'[j].pc = run[j].pc /\ run'[j].msg = run[j].msg
<1>1. CASE Transport
  <2>1. run'[j] = run[j]
    BY <1>1 DEF Transport, Publish, Deliver, RetryExpires, RmqTypeOK
  <2>2. QED BY <2>1 DEF IsIdle
<1>2. ASSUME NEW k \in Slot, LoseConnection(k)
      PROVE  ~IsIdle(j)' /\ run'[j].pc = run[j].pc /\ run'[j].msg = run[j].msg
  <2>1. j # k => run'[j] = run[j]
    BY <1>2 DEF RmqTypeOK, LoseConnection
  <2>2. j = k => /\ run'[j].pc = run[j].pc /\ run'[j].msg = run[j].msg
                 /\ run'[j] \in Busy
    <3>1. [run[j] EXCEPT !.live = FALSE] \in Busy
      BY BusyRun DEF Busy
    <3>2. QED BY <1>2, <3>1, BusyRun DEF RmqTypeOK, LoseConnection, Busy
  <2>3. QED BY <2>1, <2>2, IdleIsNotBusy DEF IsIdle
<1>3. QED BY <1>1, <1>2

LEMMA SettledEnds ==
  ASSUME RmqTypeOK, NEW k \in Slot, Settle(k)
  PROVE  /\ ~At(k, "running")
         /\ \A j \in Slot : j # k => run'[j] = run[j]
<1>1. ~At(k, "running")
  BY DEF Settle, Ack, RouteToRetry, GiveUp, StaleEnds, FailedEvent, At
<1>2. \A j \in Slot : j # k => run'[j] = run[j]
  BY DEF RmqTypeOK, Settle, Ack, RouteToRetry, GiveUp, Park, Drop, StaleEnds, Free, Goto
<1>3. QED BY <1>1, <1>2

LEMMA RunningGoesOn ==
  ASSUME RmqTypeOK, NEW j \in Slot, At(j, "running"),
         Transport \/ \E k \in Slot : Settle(k) \/ LoseConnection(k)
  PROVE  At(j, "running")' /\ run'[j].msg = run[j].msg
<1>1. CASE Transport \/ \E k \in Slot : LoseConnection(k)
  BY <1>1, BusyGoesOn DEF At
<1>2. ASSUME NEW k \in Slot, Settle(k)
      PROVE  At(j, "running")' /\ run'[j].msg = run[j].msg
  BY <1>2, SettledEnds DEF At, IsIdle
<1>3. QED BY <1>1, <1>2

LEMMA ExecutionEnds ==
  ASSUME RmqTypeOK, NEW k \in Slot,
         HandlerReturns(k) \/ HandlerThrows(k) \/ Crash(k)
  PROVE  /\ \A j \in Slot : j # k => run'[j] = run[j]
         /\ ~At(k, "running")'
<1>1. CASE HandlerReturns(k) \/ HandlerThrows(k)
  <2>1. ~IsIdle(k)
    BY <1>1 DEF HandlerReturns, HandlerThrows, At
  <2>2. QED BY <1>1, <2>1, BusyRun
          DEF RmqTypeOK, HandlerReturns, HandlerThrows, Goto, At, Busy
<1>2. CASE Crash(k)
  BY <1>2 DEF RmqTypeOK, Crash, Free, At, IsIdle
<1>3. QED BY <1>1, <1>2
===============================================================================
