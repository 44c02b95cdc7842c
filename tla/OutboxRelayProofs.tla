--------------------------- MODULE OutboxRelayProofs ---------------------------
(***************************************************************************)
(* For any number of replicas, rows, targets and faults: the outbox types,  *)
(* who owns what while drains overlap, that a published row has reached all *)
(* its targets, that fan-out keeps the order of the targets, that each copy  *)
(* more than one has been paid for by a fault, and that the outbox           *)
(* implements EventDelivery.  At the end, the same outbox feeding farms'     *)
(* projection: a published state is never out of sight, and as long as       *)
(* nothing is re-sent the projection never goes back and shows what has      *)
(* arrived.                                                                  *)
(***************************************************************************)
EXTENDS UserProjection, FiniteSetTheorems, TLAPS

USE DEF rows, session, loop, vars, Row, Status

\* The actions under Next, for case splits.
LEMMA NextCases ==
  ASSUME [Next]_vars
  PROVE  \/ \E r \in Row, p \in Pattern : Enqueue(r, p)
         \/ \E r \in Row : CommitWrite(r) \/ AbortWrite(r)
         \/ FlipSwitch
         \/ \E w \in Relay : \/ BeginDrain(w) \/ CommitDrain(w) \/ LoseSession(w)
                             \/ OrphanStops(w) \/ Crash(w)
         \/ \E w \in Relay, r \in Row : \/ SkipUnrouted(w, r) \/ Emit(w, r)
                                        \/ EmitFails(w, r) \/ Mark(w, r)
         \/ UNCHANGED vars
  BY DEF Next, Produce, Drain, Handle

\* Where an emit goes is a target.
LEMMA RouteOfType ==
  ASSUME TypeOK, NEW r \in Row
  PROVE  /\ RouteOf(r) \in Seq(Target)
         /\ \A i \in Nat \ {0} : i <= Len(RouteOf(r)) => RouteOf(r)[i] \in Target
  BY RelayAssumption DEF TypeOK, RouteOf

LEMMA SentType ==
  ASSUME TypeOK, NEW r \in Row, NEW t \in Target
  PROVE  sent[r][t] \in Nat
<1>1. sent[r] \in [Target -> Nat]
  BY DEF TypeOK
<1>2. QED BY <1>1

LEMMA LowestSubset == ASSUME NEW S PROVE Lowest(S) \subseteq S
  BY DEF Lowest

\* Putting a copy of a row on a queue adds one to one counter.
LEMMA PutType ==
  ASSUME TypeOK, NEW r \in Row, NEW t \in Target, Put(r, t)
  PROVE  /\ sent' \in [Row -> [Target -> Nat]]
         /\ \A q \in Row, u \in Target :
              sent'[q][u] = IF q = r /\ u = t THEN sent[q][u] + 1 ELSE sent[q][u]
  BY DEF TypeOK, Put

\* Ending a drain clears one relay and leaves the others alone.
LEMMA EndDrainType ==
  ASSUME TypeOK, NEW w \in Relay, EndDrain(w)
  PROVE  /\ phase' \in [Relay -> {"idle", "draining", "orphaned"}]
         /\ held' \in [Relay -> SUBSET Row]
         /\ marks' \in [Relay -> SUBSET Row]
         /\ bumps' \in [Relay -> SUBSET Row]
         /\ todo' \in [Relay -> SUBSET Row]
         /\ pos' \in [Relay -> Nat \ {0}]
  BY DEF TypeOK, EndDrain, DropSession

LEMMA TypeStep == ASSUME TypeOK, [Next]_vars PROVE TypeOK'
<1>1. ASSUME NEW r \in Row, NEW p \in Pattern, Enqueue(r, p) PROVE TypeOK'
  BY <1>1 DEF TypeOK, Enqueue
<1>2. ASSUME NEW r \in Row, CommitWrite(r) \/ AbortWrite(r) PROVE TypeOK'
  BY <1>2 DEF TypeOK, CommitWrite, AbortWrite
<1>3. CASE FlipSwitch
  BY <1>3 DEF TypeOK, FlipSwitch
<1>4. ASSUME NEW w \in Relay, BeginDrain(w) PROVE TypeOK'
  <2>1. Lowest(Candidates) \subseteq Row
    BY LowestSubset DEF Candidates
  <2>2. QED BY <1>4, <2>1 DEF TypeOK, BeginDrain
<1>5. ASSUME NEW w \in Relay, CommitDrain(w) PROVE TypeOK'
  BY <1>5 DEF TypeOK, CommitDrain, EndDrain, DropSession
<1>6. ASSUME NEW w \in Relay, LoseSession(w) PROVE TypeOK'
  BY <1>6 DEF TypeOK, LoseSession, DropSession
<1>7. ASSUME NEW w \in Relay, OrphanStops(w) \/ Crash(w) PROVE TypeOK'
  <2>1. EndDrain(w) /\ UNCHANGED <<rows, enabled, sent>> /\ faults' \in Nat
    BY <1>7 DEF TypeOK, OrphanStops, Crash
  <2>2. QED BY <2>1, EndDrainType DEF TypeOK
<1>8. ASSUME NEW w \in Relay, NEW r \in Row, SkipUnrouted(w, r) PROVE TypeOK'
  BY <1>8 DEF TypeOK, SkipUnrouted, NextRow
<1>9. ASSUME NEW w \in Relay, NEW r \in Row, Emit(w, r) PROVE TypeOK'
  <2>1. RouteOf(r)[pos[w]] \in Target
    BY <1>9, RouteOfType DEF TypeOK, Emit
  <2>2. sent' \in [Row -> [Target -> Nat]]
    BY <1>9, <2>1, PutType DEF Emit
  <2>3. QED BY <1>9, <2>2 DEF TypeOK, Emit
<1>10. ASSUME NEW w \in Relay, NEW r \in Row, EmitFails(w, r) PROVE TypeOK'
  <2>1. RouteOf(r)[pos[w]] \in Target
    BY <1>10, RouteOfType DEF TypeOK, EmitFails
  <2>2. sent' \in [Row -> [Target -> Nat]]
    BY <1>10, <2>1, PutType DEF EmitFails, TypeOK
  <2>3. CASE phase[w] = "draining"
    <3>1. /\ bumps' = [bumps EXCEPT ![w] = @ \cup {r}]
          /\ NextRow(w, r)
          /\ UNCHANGED <<rows, enabled, phase, held, marks>>
          /\ faults' \in Nat
      BY <1>10, <2>3 DEF TypeOK, EmitFails
    <3>2. QED BY <2>2, <3>1 DEF TypeOK, NextRow
  <2>4. CASE phase[w] = "orphaned"
    <3>1. EndDrain(w) /\ UNCHANGED <<rows, enabled>> /\ faults' \in Nat
      BY <1>10, <2>4 DEF TypeOK, EmitFails
    <3>2. QED BY <2>2, <3>1, EndDrainType DEF TypeOK
  <2>5. QED BY <1>10, <2>3, <2>4 DEF EmitFails
<1>11. ASSUME NEW w \in Relay, NEW r \in Row, Mark(w, r) PROVE TypeOK'
  BY <1>11 DEF TypeOK, Mark, NextRow
<1>12. CASE UNCHANGED vars
  BY <1>12 DEF TypeOK
<1>13. QED
  BY <1>1, <1>2, <1>3, <1>4, <1>5, <1>6, <1>7, <1>8, <1>9, <1>10,
     <1>11, <1>12, NextCases

\* Every variable keeps its type: no relay ever works outside the table.
THEOREM TypeCorrect == Spec => []TypeOK
<1>1. Init => TypeOK
  BY RelayAssumption DEF Init, TypeOK
<1>2. TypeOK /\ [Next]_vars => TypeOK'
  BY TypeStep
<1>3. QED BY <1>1, <1>2, PTL DEF Spec
-----------------------------------------------------------------------------
\* Ownership is inductive together with NoSharedRow: a commit publishes the
\* rows of one relay, and no other relay holds them.

\* A relay that ends its drain gives up its rows; the others are untouched.
LEMMA EndDrainOwnership ==
  ASSUME TypeOK, Ownership, NoSharedRow, NEW w \in Relay, EndDrain(w),
         UNCHANGED rows
  PROVE  Ownership' /\ NoSharedRow'
<1>1. Ownership'
  BY DEF TypeOK, Ownership, Accepted, EndDrain, DropSession
<1>2. NoSharedRow'
  BY DEF TypeOK, NoSharedRow, EndDrain, DropSession
<1>3. QED BY <1>1, <1>2

LEMMA NextRowOwnership ==
  ASSUME TypeOK, Ownership, NoSharedRow, NEW w \in Relay, NEW r \in Row,
         NextRow(w, r), phase[w] # "idle", UNCHANGED <<rows, phase, held>>,
         \/ UNCHANGED marks
         \/ /\ phase[w] = "draining" /\ IsCurrent(w, r)
            /\ marks' = [marks EXCEPT ![w] = @ \cup {r}]
  PROVE  Ownership' /\ NoSharedRow'
<1>1. Ownership'
  BY DEF TypeOK, Ownership, Accepted, NextRow, IsCurrent
<1>2. NoSharedRow'
  BY DEF NoSharedRow
<1>3. QED BY <1>1, <1>2

LEMMA OwnershipStep ==
  ASSUME TypeOK, Ownership, NoSharedRow, [Next]_vars
  PROVE  Ownership' /\ NoSharedRow'
<1>1. ASSUME NEW r \in Row, NEW p \in Pattern, Enqueue(r, p)
      PROVE  Ownership' /\ NoSharedRow'
  BY <1>1 DEF TypeOK, Ownership, NoSharedRow, Accepted, Enqueue
<1>2. ASSUME NEW r \in Row, CommitWrite(r) \/ AbortWrite(r)
      PROVE  Ownership' /\ NoSharedRow'
  <2>1. \A q \in Row : /\ status[q] = "pending" => status'[q] = "pending"
                       /\ status[q] = "published" => status'[q] = "published"
    BY <1>2 DEF TypeOK, CommitWrite, AbortWrite
  <2>2. UNCHANGED <<phase, session, loop>>
    BY <1>2 DEF CommitWrite, AbortWrite
  <2>3. QED BY <2>1, <2>2 DEF TypeOK, Ownership, NoSharedRow, Accepted
<1>3. CASE FlipSwitch
  BY <1>3 DEF Ownership, NoSharedRow, Accepted, FlipSwitch
<1>4. ASSUME NEW w \in Relay, BeginDrain(w) PROVE Ownership' /\ NoSharedRow'
  <2> DEFINE B == Lowest(Candidates)
  <2>1. /\ B \subseteq {r \in Row : status[r] = "pending"}
        /\ \A v \in Relay : B \cap held[v] = {}
    BY LowestSubset DEF Candidates, Locked
  <2>2. /\ held' = [held EXCEPT ![w] = B]
        /\ todo' = [todo EXCEPT ![w] = B]
        /\ phase' = [phase EXCEPT ![w] = "draining"]
        /\ UNCHANGED <<rows, marks, pos>>
    BY <1>4 DEF BeginDrain
  <2>3. phase[w] = "idle" /\ todo[w] = {} /\ pos[w] = 1 /\ marks[w] = {}
    BY <1>4 DEF BeginDrain, Ownership
  <2> HIDE DEF B
  <2>4. Ownership'
    <3>1. B \subseteq Accepted'
      BY <2>1, <2>2 DEF Accepted
    <3>2. Accepted' = Accepted
      BY <2>2 DEF Accepted
    <3>3. /\ held'[w] = B /\ todo'[w] = B /\ phase'[w] = "draining"
          /\ \A v \in Relay : v # w => /\ held'[v] = held[v] /\ todo'[v] = todo[v]
                                      /\ phase'[v] = phase[v]
      BY <2>2 DEF TypeOK
    <3>4. UNCHANGED <<status, marks, pos>>
      BY <2>2
    <3>5. \A r \in B : status[r] = "pending"
      BY <2>1
    <3>6. QED BY <2>3, <3>1, <3>2, <3>3, <3>4, <3>5 DEF Ownership
  <2>5. NoSharedRow'
    BY <2>1, <2>2 DEF TypeOK, NoSharedRow
  <2>6. QED BY <2>4, <2>5
<1>5. ASSUME NEW w \in Relay, CommitDrain(w) PROVE Ownership' /\ NoSharedRow'
  <2>1. \A r \in Row : status[r] = "published" => status'[r] = "published"
    BY <1>5 DEF TypeOK, CommitDrain
  <2>2. \A r \in Row : /\ status[r] = "pending" /\ r \notin held[w]
                          => status'[r] = "pending"
                       /\ r \in Accepted => r \in Accepted'
    BY <1>5 DEF TypeOK, CommitDrain, Ownership, Accepted
  <2>3. EndDrain(w)
    BY <1>5 DEF CommitDrain
  <2>4. NoSharedRow'
    BY <2>3 DEF TypeOK, NoSharedRow, EndDrain, DropSession
  <2>5. Ownership'
    <3> SUFFICES ASSUME NEW v \in Relay
                 PROVE  /\ phase'[v] # "draining" => held'[v] = {}
                        /\ phase'[v] = "draining" => todo'[v] \subseteq held'[v]
                        /\ phase'[v] = "idle" => todo'[v] = {}
                        /\ todo'[v] = {} => pos'[v] = 1
                        /\ marks'[v] \subseteq held'[v]
                        /\ \A r \in held'[v] : status'[r] = "pending"
                        /\ todo'[v] \subseteq Accepted'
      BY DEF Ownership
    <3>1. CASE v = w
      BY <2>3, <3>1 DEF TypeOK, EndDrain, DropSession
    <3>2. CASE v # w
      <4>1. /\ phase'[v] = phase[v] /\ held'[v] = held[v] /\ marks'[v] = marks[v]
            /\ todo'[v] = todo[v] /\ pos'[v] = pos[v]
        BY <2>3, <3>2 DEF TypeOK, EndDrain, DropSession
      <4>2. held[v] \cap held[w] = {}
        BY <3>2 DEF NoSharedRow
      <4>3. QED BY <2>2, <4>1, <4>2 DEF TypeOK, Ownership
    <3>3. QED BY <3>1, <3>2
  <2>6. QED BY <2>4, <2>5
<1>6. ASSUME NEW w \in Relay, LoseSession(w) PROVE Ownership' /\ NoSharedRow'
  BY <1>6 DEF TypeOK, Ownership, NoSharedRow, Accepted, LoseSession, DropSession
<1>7. ASSUME NEW w \in Relay, OrphanStops(w) \/ Crash(w)
      PROVE  Ownership' /\ NoSharedRow'
  <2>1. EndDrain(w) /\ UNCHANGED rows
    BY <1>7 DEF OrphanStops, Crash
  <2>2. QED BY <2>1, EndDrainOwnership
<1>8. ASSUME NEW w \in Relay, NEW r \in Row, IsCurrent(w, r)
      PROVE  phase[w] # "idle"
  BY <1>8 DEF IsCurrent, Ownership
<1>9. ASSUME NEW w \in Relay, NEW r \in Row, SkipUnrouted(w, r)
      PROVE  Ownership' /\ NoSharedRow'
  <2>1. NextRow(w, r) /\ IsCurrent(w, r) /\ UNCHANGED <<rows, phase, held, marks>>
    BY <1>9 DEF SkipUnrouted
  <2>2. QED BY <1>8, <2>1, NextRowOwnership
<1>10. ASSUME NEW w \in Relay, NEW r \in Row, Emit(w, r)
       PROVE  Ownership' /\ NoSharedRow'
  BY <1>10 DEF TypeOK, Ownership, NoSharedRow, Accepted, Emit, IsCurrent
<1>11. ASSUME NEW w \in Relay, NEW r \in Row, EmitFails(w, r)
       PROVE  Ownership' /\ NoSharedRow'
  <2>1. CASE phase[w] = "draining"
    <3>1. /\ NextRow(w, r) /\ IsCurrent(w, r)
          /\ UNCHANGED <<rows, phase, held, marks>>
      BY <1>11, <2>1 DEF EmitFails
    <3>2. QED BY <1>8, <3>1, NextRowOwnership
  <2>2. CASE phase[w] = "orphaned"
    <3>1. EndDrain(w) /\ UNCHANGED rows
      BY <1>11, <2>2 DEF EmitFails
    <3>2. QED BY <3>1, EndDrainOwnership
  <2>3. QED BY <1>11, <2>1, <2>2 DEF EmitFails
<1>12. ASSUME NEW w \in Relay, NEW r \in Row, Mark(w, r)
       PROVE  Ownership' /\ NoSharedRow'
  <2>1. /\ NextRow(w, r) /\ IsCurrent(w, r) /\ phase[w] = "draining"
        /\ marks' = [marks EXCEPT ![w] = @ \cup {r}]
        /\ UNCHANGED <<rows, phase, held>>
    BY <1>12 DEF Mark
  <2>2. QED BY <1>8, <2>1, NextRowOwnership
<1>13. CASE UNCHANGED vars
  BY <1>13 DEF Ownership, NoSharedRow, Accepted
<1>14. QED
  BY <1>1, <1>2, <1>3, <1>4, <1>5, <1>6, <1>7, <1>9, <1>10, <1>11, <1>12,
     <1>13, NextCases
-----------------------------------------------------------------------------
\* What has been emitted stays emitted, and the route of a row never changes
\* once the row is written: so what a relay has done for a row keeps counting.

LEMMA StepOfSent ==
  ASSUME TypeOK, [Next]_vars
  PROVE  \/ UNCHANGED sent
         \/ \E w \in Relay, r \in Row :
              /\ IsCurrent(w, r)
              /\ pos[w] <= Len(RouteOf(r))
              /\ Put(r, RouteOf(r)[pos[w]])
  BY NextCases DEF Enqueue, CommitWrite, AbortWrite, FlipSwitch, BeginDrain,
     CommitDrain, LoseSession, OrphanStops, Crash, SkipUnrouted, Emit,
     EmitFails, Mark

LEMMA ReachedGrows ==
  ASSUME TypeOK, [Next]_vars, NEW r \in Row
  PROVE  Reached(r) \subseteq Reached(r)'
<1>1. CASE UNCHANGED sent
  BY <1>1 DEF Reached
<1>2. ASSUME NEW w \in Relay, NEW q \in Row, IsCurrent(w, q),
             pos[w] <= Len(RouteOf(q)), Put(q, RouteOf(q)[pos[w]])
      PROVE  Reached(r) \subseteq Reached(r)'
  <2>1. RouteOf(q)[pos[w]] \in Target
    BY <1>2, RouteOfType DEF TypeOK
  <2>2. PICK u \in Target : Put(q, u)
    BY <1>2, <2>1
  <2>3. \A t \in Target :
          sent'[r][t] = IF r = q /\ t = u THEN sent[r][t] + 1 ELSE sent[r][t]
    BY <2>2, PutType
  <2>4. \A t \in Target : sent[r][t] \in Nat
    BY DEF TypeOK
  <2>5. QED BY <2>3, <2>4 DEF Reached
<1>3. QED BY <1>1, <1>2, StepOfSent

LEMMA RowStep ==
  ASSUME TypeOK, [Next]_vars, NEW r \in Row
  PROVE  /\ status[r] # "free" => RouteOf(r)' = RouteOf(r)
         /\ r \in Accepted => r \in Accepted'
<1>1. ASSUME NEW q \in Row, NEW p \in Pattern, Enqueue(q, p)
      PROVE  /\ status[r] # "free" => pattern'[r] = pattern[r]
             /\ r \in Accepted => r \in Accepted'
  BY <1>1 DEF TypeOK, Enqueue, Accepted
<1>2. ASSUME NEW q \in Row, CommitWrite(q) \/ AbortWrite(q)
      PROVE  pattern'[r] = pattern[r] /\ (r \in Accepted => r \in Accepted')
  BY <1>2 DEF TypeOK, CommitWrite, AbortWrite, Accepted
<1>3. ASSUME NEW w \in Relay, CommitDrain(w)
      PROVE  pattern'[r] = pattern[r] /\ (r \in Accepted => r \in Accepted')
  BY <1>3 DEF TypeOK, CommitDrain, Accepted
<1>4. CASE UNCHANGED <<status, pattern>>
  BY <1>4 DEF Accepted, RouteOf
<1>5. \/ \E q \in Row, p \in Pattern : Enqueue(q, p)
      \/ \E q \in Row : CommitWrite(q) \/ AbortWrite(q)
      \/ \E w \in Relay : CommitDrain(w)
      \/ UNCHANGED <<status, pattern>>
  BY NextCases DEF FlipSwitch, BeginDrain, LoseSession, OrphanStops, Crash,
     SkipUnrouted, Emit, EmitFails, Mark
<1>6. QED BY <1>1, <1>2, <1>3, <1>4, <1>5 DEF RouteOf

\* A relay keeps what it knows to be emitted as long as it does not move on
\* within a row.
LEMMA EmittedByKept ==
  ASSUME TypeOK, Ownership, [Next]_vars, NEW w \in Relay, EmittedBy(w),
         pos'[w] = 1 \/ (todo'[w] = todo[w] /\ pos'[w] = pos[w]),
         marks'[w] \subseteq marks[w]
  PROVE  EmittedBy(w)'
<1>1. ASSUME NEW r \in marks'[w] PROVE (TargetsOf(r) \subseteq Reached(r))'
  <2>1. r \in Row /\ status[r] = "pending"
    BY <1>1 DEF TypeOK, Ownership
  <2>2. RouteOf(r)' = RouteOf(r) /\ Reached(r) \subseteq Reached(r)'
    BY <2>1, RowStep, ReachedGrows
  <2>3. TargetsOf(r) \subseteq Reached(r)
    BY <1>1 DEF EmittedBy
  <2>4. QED BY <2>2, <2>3 DEF TargetsOf
<1>2. CASE pos'[w] = 1
  BY <1>1, <1>2 DEF EmittedBy
<1>3. CASE todo'[w] = todo[w] /\ pos'[w] = pos[w]
  <2>1. ASSUME NEW r \in todo'[w], IsCurrent(w, r)', NEW i \in 1..Len(RouteOf(r))',
               i < pos'[w]
        PROVE  (RouteOf(r)[i] \in Reached(r))'
    <3>1. r \in Row /\ r \in Accepted /\ r \in todo[w]
      BY <1>3, <2>1 DEF TypeOK, Ownership
    <3>2. RouteOf(r)' = RouteOf(r) /\ Reached(r) \subseteq Reached(r)'
      BY <3>1, RowStep, ReachedGrows DEF Accepted
    <3>3. IsCurrent(w, r)
      BY <1>3, <2>1 DEF IsCurrent
    <3>4. RouteOf(r)[i] \in Reached(r)
      BY <1>3, <2>1, <3>1, <3>2, <3>3 DEF EmittedBy
    <3>5. QED BY <3>2, <3>4
  <2>2. QED BY <1>1, <2>1 DEF EmittedBy
<1>4. QED BY <1>2, <1>3

\* The three ways a relay's view of its rows changes.
LEMMA EmittedStep ==
  ASSUME TypeOK, Ownership, EmittedSoFar, [Next]_vars
  PROVE  EmittedSoFar'
<1>1. ASSUME NEW w \in Relay, NEW r \in Row, Emit(w, r)
      PROVE  \A v \in Relay : EmittedBy(v)'
  <2>1. ASSUME NEW v \in Relay, v # w PROVE EmittedBy(v)'
    <3>1. todo'[v] = todo[v] /\ pos'[v] = pos[v] /\ marks'[v] = marks[v]
      BY <1>1, <2>1 DEF TypeOK, Emit
    <3>2. QED BY <3>1, EmittedByKept DEF EmittedSoFar
  <2>2. EmittedBy(w)'
    <3>1. /\ pos'[w] = pos[w] + 1 /\ todo' = todo /\ marks' = marks
          /\ pattern' = pattern
      BY <1>1 DEF TypeOK, Emit
    <3>2. RouteOf(r)[pos[w]] \in Target
      BY <1>1, RouteOfType DEF TypeOK, Emit
    <3>3. sent'[r][RouteOf(r)[pos[w]]] > 0
      <4>1. PICK u \in Target : u = RouteOf(r)[pos[w]] /\ Put(r, u)
        BY <1>1, <3>2 DEF Emit
      <4>2. sent'[r][u] = sent[r][u] + 1
        BY <4>1, PutType
      <4>3. sent[r][u] \in Nat
        BY SentType
      <4>4. QED BY <4>1, <4>2, <4>3
    <3>4. ASSUME NEW q \in marks'[w] PROVE (TargetsOf(q) \subseteq Reached(q))'
      <4>1. q \in Row /\ TargetsOf(q) \subseteq Reached(q)
        BY <3>1, <3>4 DEF TypeOK, EmittedSoFar, EmittedBy
      <4>2. Reached(q) \subseteq Reached(q)'
        BY <4>1, ReachedGrows
      <4>3. QED BY <3>1, <4>1, <4>2 DEF TargetsOf, RouteOf
    <3>5. ASSUME NEW q \in todo'[w], IsCurrent(w, q)',
                 NEW i \in 1..Len(RouteOf(q))', i < pos'[w]
          PROVE  (RouteOf(q)[i] \in Reached(q))'
      <4>1. q = r
        BY <1>1, <3>1, <3>5 DEF TypeOK, Emit, IsCurrent
      <4>2. RouteOf(q)' = RouteOf(q)
        BY <3>1 DEF RouteOf
      <4>3. CASE i = pos[w]
        BY <3>2, <3>3, <4>1, <4>2, <4>3 DEF Reached
      <4>4. CASE i # pos[w]
        <5>1. i < pos[w] /\ i \in 1..Len(RouteOf(r))
          BY <3>1, <3>5, <4>1, <4>2, <4>4 DEF TypeOK
        <5>2. RouteOf(r)[i] \in Reached(r)
          BY <1>1, <5>1 DEF EmittedSoFar, EmittedBy, Emit, IsCurrent
        <5>3. QED BY <4>1, <4>2, <5>2, ReachedGrows
      <4>5. QED BY <4>3, <4>4
    <3>6. QED BY <3>4, <3>5 DEF EmittedBy
  <2>3. QED BY <2>1, <2>2
<1>2. ASSUME NEW w \in Relay, NEW r \in Row, Mark(w, r)
      PROVE  \A v \in Relay : EmittedBy(v)'
  <2>1. ASSUME NEW v \in Relay, v # w PROVE EmittedBy(v)'
    <3>1. todo'[v] = todo[v] /\ pos'[v] = pos[v] /\ marks'[v] = marks[v]
      BY <1>2, <2>1 DEF TypeOK, Mark, NextRow
    <3>2. QED BY <3>1, EmittedByKept DEF EmittedSoFar
  <2>2. EmittedBy(w)'
    <3>1. /\ pos'[w] = 1 /\ marks'[w] = marks[w] \cup {r}
          /\ UNCHANGED <<pattern, sent>>
      BY <1>2 DEF TypeOK, Mark, NextRow
    <3>2. TargetsOf(r) \subseteq Reached(r)
      <4>1. Len(RouteOf(r)) \in Nat
        BY RouteOfType
      <4>2. \A i \in 1..Len(RouteOf(r)) : i < pos[w]
        BY <1>2, <4>1 DEF TypeOK, Mark, FullyEmitted
      <4>3. QED BY <1>2, <4>2 DEF TargetsOf, EmittedSoFar, EmittedBy, Mark, IsCurrent
    <3>3. \A q \in marks'[w] : TargetsOf(q) \subseteq Reached(q)
      BY <3>1, <3>2 DEF EmittedSoFar, EmittedBy
    <3>4. \A q \in marks'[w] : (TargetsOf(q) \subseteq Reached(q))'
      BY <3>1, <3>3 DEF TargetsOf, RouteOf, Reached
    <3>5. QED BY <3>1, <3>4 DEF EmittedBy
  <2>3. QED BY <2>1, <2>2
<1>3. ASSUME NEW v \in Relay,
             pos'[v] = 1 \/ (todo'[v] = todo[v] /\ pos'[v] = pos[v]),
             marks'[v] \subseteq marks[v]
      PROVE  EmittedBy(v)'
  BY <1>3, EmittedByKept DEF EmittedSoFar
<1>4. ASSUME NEW w \in Relay, BeginDrain(w)
      PROVE  \A v \in Relay : EmittedBy(v)'
  <2>1. \A v \in Relay : /\ pos'[v] = 1 \/ (todo'[v] = todo[v] /\ pos'[v] = pos[v])
                         /\ marks'[v] \subseteq marks[v]
    BY <1>4 DEF TypeOK, Ownership, BeginDrain
  <2>2. QED BY <1>3, <2>1
<1>5. ASSUME NEW w \in Relay, EndDrain(w)
      PROVE  \A v \in Relay : EmittedBy(v)'
  <2>1. \A v \in Relay : /\ pos'[v] = 1 \/ (todo'[v] = todo[v] /\ pos'[v] = pos[v])
                         /\ marks'[v] \subseteq marks[v]
    BY <1>5 DEF TypeOK, EndDrain, DropSession
  <2>2. QED BY <1>3, <2>1
<1>6. ASSUME NEW w \in Relay, NEW r \in Row, NextRow(w, r), UNCHANGED marks
      PROVE  \A v \in Relay : EmittedBy(v)'
  <2>1. \A v \in Relay : pos'[v] = 1 \/ (todo'[v] = todo[v] /\ pos'[v] = pos[v])
    BY <1>6 DEF TypeOK, NextRow
  <2>2. QED BY <1>3, <1>6, <2>1
<1>7. ASSUME UNCHANGED loop, \A v \in Relay : marks'[v] \subseteq marks[v]
      PROVE  \A v \in Relay : EmittedBy(v)'
  BY <1>3, <1>7
<1>8. ASSUME NEW w \in Relay, LoseSession(w)
      PROVE  \A v \in Relay : marks'[v] \subseteq marks[v]
  BY <1>8 DEF TypeOK, LoseSession, DropSession
<1>9. \/ \E w \in Relay, r \in Row : Emit(w, r) \/ Mark(w, r)
      \/ \E w \in Relay : BeginDrain(w) \/ EndDrain(w) \/ LoseSession(w)
      \/ \E w \in Relay, r \in Row : NextRow(w, r) /\ UNCHANGED marks
      \/ UNCHANGED <<loop, marks>>
  BY NextCases DEF Enqueue, CommitWrite, AbortWrite, FlipSwitch, CommitDrain,
     OrphanStops, Crash, SkipUnrouted, EmitFails
<1>10. QED
  <2>1. \A w \in Relay : LoseSession(w) => UNCHANGED loop
    BY DEF LoseSession
  <2>2. \A v \in Relay : EmittedBy(v)'
    BY <1>1, <1>2, <1>4, <1>5, <1>6, <1>7, <1>8, <1>9, <2>1
  <2>3. QED BY <2>2 DEF EmittedSoFar

\* Only committed rows are in any relay's hands, so only they are sent.
LEMMA OnlyCommittedStep ==
  ASSUME TypeOK, Ownership, OnlyCommittedSent, [Next]_vars
  PROVE  OnlyCommittedSent'
<1>1. CASE UNCHANGED sent
  BY <1>1, RowStep DEF OnlyCommittedSent, Reached
<1>2. ASSUME NEW w \in Relay, NEW q \in Row, IsCurrent(w, q),
             pos[w] <= Len(RouteOf(q)), Put(q, RouteOf(q)[pos[w]])
      PROVE  OnlyCommittedSent'
  <2>1. PICK u \in Target : Put(q, u)
    BY <1>2, RouteOfType DEF TypeOK
  <2>2. q \in Accepted
    BY <1>2 DEF IsCurrent, Ownership
  <2>3. \A r \in Row : r # q => Reached(r)' = Reached(r)
    BY <2>1, PutType DEF Reached
  <2>4. QED BY <2>2, <2>3, RowStep DEF OnlyCommittedSent
<1>3. QED BY <1>1, <1>2, StepOfSent

\* Rows become published by a commit only, and a commit publishes marked rows.
LEMMA PublishedStep ==
  ASSUME TypeOK, Ownership, EmittedSoFar, PublishedReachedAll, [Next]_vars
  PROVE  PublishedReachedAll'
<1>1. ASSUME NEW r \in Row, status'[r] = "published", status[r] # "published"
      PROVE  \E w \in Relay : r \in marks[w]
  <2>1. ASSUME NEW q \in Row, Produce(q) PROVE FALSE
    BY <1>1, <2>1 DEF TypeOK, Produce, Enqueue, CommitWrite, AbortWrite
  <2>2. ASSUME NEW w \in Relay, CommitDrain(w) PROVE r \in marks[w]
    BY <1>1, <2>2 DEF CommitDrain
  <2>3. \/ \E q \in Row : Produce(q)
        \/ \E w \in Relay : CommitDrain(w)
        \/ UNCHANGED status
    BY NextCases DEF Produce, FlipSwitch, BeginDrain, LoseSession, OrphanStops, Crash,
       SkipUnrouted, Emit, EmitFails, Mark
  <2>4. QED BY <1>1, <2>1, <2>2, <2>3
<1>2. ASSUME NEW r \in Row, status'[r] = "published"
      PROVE  TargetsOf(r) \subseteq Reached(r) /\ status[r] # "free"
  <2>1. CASE status[r] = "published"
    BY <2>1 DEF PublishedReachedAll
  <2>2. CASE status[r] # "published"
    BY <1>1, <1>2, <2>2 DEF EmittedSoFar, EmittedBy, Ownership
  <2>3. QED BY <2>1, <2>2
<1>3. QED BY <1>2, ReachedGrows, RowStep DEF PublishedReachedAll, TargetsOf

\* The inductive invariant holds throughout.
THEOREM InvariantHolds == Spec => []IInv
<1>1. Init => IInv
  BY RelayAssumption DEF Init, IInv, TypeOK, Ownership, NoSharedRow,
     EmittedSoFar, EmittedBy, OnlyCommittedSent, PublishedReachedAll, Reached
<1>2. IInv /\ [Next]_vars => IInv'
  BY TypeStep, OwnershipStep, EmittedStep, OnlyCommittedStep, PublishedStep
     DEF IInv
<1>3. QED BY <1>1, <1>2, PTL DEF Spec

\* A row is marked published only once every target of its pattern has it.
THEOREM PublishedHasReachedAll == Spec => []PublishedReachedAll
<1>1. IInv => PublishedReachedAll
  BY DEF IInv
<1>2. QED BY <1>1, InvariantHolds, PTL

\* No event is sent whose domain write did not commit.
THEOREM OnlyCommittedIsSent == Spec => []OnlyCommittedSent
<1>1. IInv => OnlyCommittedSent
  BY DEF IInv
<1>2. QED BY <1>1, InvariantHolds, PTL

\* No two replicas ever hold the same row.
THEOREM RowsAreNotShared == Spec => []NoSharedRow
<1>1. IInv => NoSharedRow
  BY DEF IInv
<1>2. QED BY <1>1, InvariantHolds, PTL

\* Nobody emits a published row but a relay whose session is gone: a live
\* session holds what it emits, and what is held is pending.
THEOREM PublishedIsNotResent == Spec => PublishedNotResent
<1>1. ASSUME IInv, [Next]_vars
      PROVE  \A r \in Row : status[r] = "published" /\ sent'[r] # sent[r] =>
               \E w \in Relay : phase[w] = "orphaned" /\ IsCurrent(w, r)
  <2>1. SUFFICES ASSUME NEW r \in Row, status[r] = "published",
                        sent'[r] # sent[r]
                 PROVE  \E w \in Relay : phase[w] = "orphaned" /\ IsCurrent(w, r)
    OBVIOUS
  <2>2. PICK w \in Relay, q \in Row : IsCurrent(w, q) /\ Put(q, RouteOf(q)[pos[w]])
    BY <1>1, <2>1, StepOfSent DEF IInv
  <2>3. q = r
    BY <1>1, <2>1, <2>2 DEF IInv, TypeOK, Put
  <2>4. phase[w] # "draining"
    BY <1>1, <2>1, <2>2, <2>3 DEF IInv, Ownership, IsCurrent
  <2>5. phase[w] # "idle"
    BY <1>1, <2>2, <2>3 DEF IInv, Ownership, IsCurrent
  <2>6. phase[w] = "orphaned"
    BY <1>1, <2>4, <2>5 DEF IInv, TypeOK
  <2>7. QED BY <2>2, <2>3, <2>6
<1>2. QED BY <1>1, InvariantHolds, PTL DEF Spec, PublishedNotResent
-----------------------------------------------------------------------------
\* The outbox implements EventDelivery.

LEMMA EmitDelivers ==
  ASSUME IInv, [Next]_vars, NEW w \in Relay, NEW r \in Row, NEW u \in Target,
         IsCurrent(w, r), pos[w] <= Len(RouteOf(r)), u = RouteOf(r)[pos[w]],
         Put(r, u), UNCHANGED rows
  PROVE  Promise!Deliver(r, pos[w]) /\ pos[w] \in 1..Len(RouteOf(r))
<1>1. r \in Accepted /\ r \in todo[w]
  BY DEF IInv, Ownership, IsCurrent
<1>2. pos[w] \in 1..Len(RouteOf(r))
  <2>1. Len(RouteOf(r)) \in Nat /\ pos[w] \in Nat \ {0}
    BY RouteOfType DEF IInv, TypeOK
  <2>2. QED BY <2>1
<1>3. \A j \in 1..(pos[w] - 1) : RouteOf(r)[j] \in Reached(r)
  <2>1. \A j \in 1..(pos[w] - 1) : j \in 1..Len(RouteOf(r)) /\ j < pos[w]
    BY <1>2
  <2>2. QED BY <1>1, <2>1 DEF IInv, EmittedSoFar, EmittedBy
<1>4. /\ \A q \in Row : q # r => Reached(q)' = Reached(q)
      /\ Reached(r)' = Reached(r) \cup {u}
  <2>1. \A q \in Row, t \in Target :
          sent'[q][t] = IF q = r /\ t = u THEN sent[q][t] + 1 ELSE sent[q][t]
    BY PutType DEF IInv
  <2>2. \A q \in Row, t \in Target : sent[q][t] \in Nat
    BY DEF IInv, TypeOK
  <2>3. QED BY <2>1, <2>2 DEF Reached
<1>5. [q \in Row |-> Reached(q)]'
        = [[q \in Row |-> Reached(q)] EXCEPT ![r] = @ \cup {RouteOf(r)[pos[w]]}]
  BY <1>4
<1>6. UNCHANGED <<Accepted, {q \in Row : status[q] = "published"},
                  [q \in Row |-> IF q \in Accepted THEN RouteOf(q) ELSE <<>>]>>
  BY DEF Accepted, RouteOf
<1>7. QED
  BY <1>1, <1>2, <1>3, <1>5, <1>6 DEF Promise!Deliver

\* Every step of the outbox is a step of EventDelivery or a stutter: a commit
\* of a write accepts, an emit delivers, a commit of a drain settles a batch.
THEOREM ImplementsDelivery == Spec => Delivers
<1>1. Init => Promise!Init
  BY DEF Init, Promise!Init, Accepted, Reached
<1>2. ASSUME IInv, [Next]_vars
      PROVE  Promise!Next \/ UNCHANGED Promise!vars
  <2>1. ASSUME NEW r \in Row, NEW p \in Pattern, Enqueue(r, p)
        PROVE  UNCHANGED Promise!vars
    <3>1. Accepted' = Accepted /\ r \notin Accepted
      BY <1>2, <2>1 DEF IInv, TypeOK, Enqueue, Accepted
    <3>2. \A q \in Accepted : RouteOf(q)' = RouteOf(q)
      BY <1>2, <2>1, <3>1 DEF IInv, TypeOK, Enqueue, RouteOf
    <3>3. {q \in Row : status[q] = "published"}'
            = {q \in Row : status[q] = "published"}
      BY <1>2, <2>1 DEF IInv, TypeOK, Enqueue
    <3>4. sent' = sent
      BY <2>1 DEF Enqueue
    <3>5. QED BY <3>1, <3>2, <3>3, <3>4 DEF Promise!vars, Reached
  <2>2. ASSUME NEW r \in Row, CommitWrite(r)
        PROVE  Promise!Next
    <3>1. /\ r \notin Accepted /\ Accepted' = Accepted \cup {r}
          /\ \A q \in Row : RouteOf(q)' = RouteOf(q)
      BY <1>2, <2>2 DEF IInv, TypeOK, CommitWrite, Accepted, RouteOf
    <3>2. /\ {q \in Row : status[q] = "published"}'
               = {q \in Row : status[q] = "published"}
          /\ sent' = sent
      BY <1>2, <2>2 DEF IInv, TypeOK, CommitWrite
    <3>3. RouteOf(r) \in {Route[p] : p \in Pattern}
      BY <1>2 DEF IInv, TypeOK, RouteOf
    <3>4. [q \in Row |-> IF q \in Accepted THEN RouteOf(q) ELSE <<>>]'
            = [[q \in Row |-> IF q \in Accepted THEN RouteOf(q) ELSE <<>>]
                 EXCEPT ![r] = RouteOf(r)]
      BY <3>1
    <3>5. [q \in Row |-> Reached(q)]' = [q \in Row |-> Reached(q)]
      BY <3>2 DEF Reached
    <3>6. PICK rt \in {Route[p] : p \in Pattern} : rt = RouteOf(r)
      BY <3>3
    <3>7. Promise!Accept(r, rt)
      BY <3>1, <3>2, <3>4, <3>5, <3>6 DEF Promise!Accept
    <3>8. QED BY <3>7 DEF Promise!Next
  <2>3. ASSUME NEW r \in Row, AbortWrite(r) PROVE UNCHANGED Promise!vars
    <3>1. /\ Accepted' = Accepted
          /\ {q \in Row : status[q] = "published"}'
               = {q \in Row : status[q] = "published"}
      BY <1>2, <2>3 DEF IInv, TypeOK, AbortWrite, Accepted
    <3>2. pattern' = pattern /\ sent' = sent
      BY <2>3 DEF AbortWrite
    <3>3. QED BY <3>1, <3>2 DEF Promise!vars, Reached, RouteOf
  <2>4. ASSUME NEW w \in Relay, CommitDrain(w) PROVE Promise!Next
    <3>1. /\ marks[w] \subseteq Accepted /\ marks[w] \subseteq Row
          /\ \A r \in marks[w] : TargetsOf(r) \subseteq Reached(r)
      BY <1>2 DEF IInv, TypeOK, Ownership, EmittedSoFar, EmittedBy, Accepted
    <3>2. /\ Accepted' = Accepted
          /\ {q \in Row : status[q] = "published"}'
               = {q \in Row : status[q] = "published"} \cup marks[w]
      BY <1>2, <2>4, <3>1 DEF IInv, TypeOK, CommitDrain, Accepted
    <3>3. pattern' = pattern /\ sent' = sent
      BY <2>4 DEF CommitDrain
    <3>4. \A r \in marks[w] :
            Promise!TargetsOf(r) \subseteq [q \in Row |-> Reached(q)][r]
      BY <3>1 DEF Promise!TargetsOf, TargetsOf
    <3>5. PICK S \in SUBSET Row : S = marks[w]
      BY <3>1
    <3>6. Promise!Settle(S)
      BY <3>1, <3>2, <3>3, <3>4, <3>5 DEF Promise!Settle, Reached, RouteOf
    <3>7. QED BY <3>6 DEF Promise!Next
  <2>5. ASSUME UNCHANGED rows,
               NEW w \in Relay, NEW r \in Row, IsCurrent(w, r),
               pos[w] <= Len(RouteOf(r)), Put(r, RouteOf(r)[pos[w]])
        PROVE  Promise!Next
    <3>1. RouteOf(r)[pos[w]] \in Target
      BY <1>2, <2>5, RouteOfType DEF IInv, TypeOK
    <3>2. Promise!Deliver(r, pos[w]) /\ pos[w] \in 1..Len(RouteOf(r))
      BY <1>2, <2>5, <3>1, EmitDelivers
    <3>3. r \in Accepted
      BY <1>2, <2>5 DEF IInv, Ownership, IsCurrent
    <3>4. QED BY <3>2, <3>3 DEF Promise!Next
  <2>6. CASE UNCHANGED <<rows, sent>>
    BY <2>6 DEF Promise!vars, Accepted, Reached, RouteOf
  <2>7. \/ \E r \in Row, p \in Pattern : Enqueue(r, p)
        \/ \E r \in Row : CommitWrite(r) \/ AbortWrite(r)
        \/ \E w \in Relay : CommitDrain(w)
        \/ UNCHANGED <<rows, sent>>
        \/ /\ UNCHANGED rows
           /\ \E w \in Relay, r \in Row :
                /\ IsCurrent(w, r)
                /\ pos[w] <= Len(RouteOf(r))
                /\ Put(r, RouteOf(r)[pos[w]])
    BY <1>2, NextCases DEF FlipSwitch, BeginDrain, LoseSession, OrphanStops,
       Crash, SkipUnrouted, Emit, EmitFails, Mark
  <2>8. QED BY <2>1, <2>2, <2>3, <2>4, <2>5, <2>6, <2>7
<1>3. QED BY <1>1, <1>2, InvariantHolds, PTL DEF Spec, Delivers, Promise!Spec
-----------------------------------------------------------------------------
\* Fan-out in route order.  FanoutInOrder alone is not inductive: a relay that
\* has emitted to an early target and not yet to a late one is about to raise
\* the later count.  Ahead counts those relays, one copy each; they are
\* finitely many, as each became active in a step of its own.

Active == {w \in Relay : phase[w] # "idle"}
ActiveFinite == IsFiniteSet(Active)

\* Relays that have passed the i-th target of row r and not the j-th.
Ahead(r, i, j) == {w \in Relay : IsCurrent(w, r) /\ i < pos[w] /\ pos[w] <= j}

LaggingBy(r, i, j) ==
  sent[r][RouteOf(r)[j]] + Cardinality(Ahead(r, i, j)) <= sent[r][RouteOf(r)[i]]

FanoutLag == \A r \in Row : \A i, j \in 1..Len(RouteOf(r)) :
               i < j => LaggingBy(r, i, j)

\* A tick makes one relay active, no other step any.
LEMMA ActiveStep == ASSUME TypeOK, ActiveFinite, [Next]_vars PROVE ActiveFinite'
<1>1. \/ UNCHANGED phase
      \/ \E w \in Relay : BeginDrain(w) \/ LoseSession(w) \/ EndDrain(w)
  BY NextCases DEF Enqueue, CommitWrite, AbortWrite, FlipSwitch, CommitDrain,
     OrphanStops, Crash, SkipUnrouted, Emit, EmitFails, Mark
<1>2. ASSUME NEW w \in Relay, BeginDrain(w) \/ LoseSession(w) \/ EndDrain(w)
      PROVE  Active' \subseteq Active \cup {w}
  <2>1. \A v \in Relay : v # w => phase'[v] = phase[v]
    BY <1>2 DEF TypeOK, BeginDrain, LoseSession, EndDrain
  <2>2. QED BY <2>1 DEF Active
<1>3. CASE UNCHANGED phase
  BY <1>3 DEF ActiveFinite, Active
<1>4. ASSUME NEW w \in Relay, Active' \subseteq Active \cup {w}
      PROVE  ActiveFinite'
  <2>1. IsFiniteSet(Active \cup {w})
    BY FS_AddElement DEF ActiveFinite
  <2>2. QED BY <1>4, <2>1, FS_Subset DEF ActiveFinite
<1>5. QED BY <1>1, <1>2, <1>3, <1>4

LEMMA AheadFinite ==
  ASSUME TypeOK, Ownership, ActiveFinite, NEW r \in Row, NEW i, NEW j
  PROVE  IsFiniteSet(Ahead(r, i, j)) /\ Cardinality(Ahead(r, i, j)) \in Nat
<1>1. Ahead(r, i, j) \subseteq Active
  BY DEF Ahead, Active, IsCurrent, Ownership
<1>2. QED BY <1>1, FS_Subset, FS_CardinalityType DEF ActiveFinite

\* How a step moves the relays' loops and the counters together: nothing is
\* put anywhere, or the current row of one relay is put on the target at its
\* position, which the relay then moves past or leaves.
Stays(v) == todo'[v] = todo[v] /\ pos'[v] = pos[v]
Restarts(v) == pos'[v] = 1

LEMMA LoopStep ==
  ASSUME TypeOK, Ownership, [Next]_vars
  PROVE  \/ UNCHANGED sent /\ \A v \in Relay : Restarts(v) \/ Stays(v)
         \/ \E w \in Relay, r \in Row :
              /\ IsCurrent(w, r)
              /\ pos[w] <= Len(RouteOf(r))
              /\ Put(r, RouteOf(r)[pos[w]])
              /\ UNCHANGED rows
              /\ Restarts(w) \/ (todo'[w] = todo[w] /\ pos'[w] = pos[w] + 1)
              /\ \A v \in Relay : v # w => Stays(v)
<1>1. ASSUME NEW w \in Relay, BeginDrain(w)
      PROVE  UNCHANGED sent /\ \A v \in Relay : Restarts(v) \/ Stays(v)
  BY <1>1 DEF TypeOK, Ownership, BeginDrain, Restarts, Stays
<1>2. ASSUME NEW w \in Relay, EndDrain(w)
      PROVE  Restarts(w) /\ \A v \in Relay : v # w => Stays(v)
  BY <1>2 DEF TypeOK, EndDrain, Restarts, Stays
<1>3. ASSUME NEW w \in Relay, NEW r \in Row, NextRow(w, r)
      PROVE  Restarts(w) /\ \A v \in Relay : v # w => Stays(v)
  BY <1>3 DEF TypeOK, NextRow, Restarts, Stays
<1>4. UNCHANGED loop => \A v \in Relay : Stays(v)
  BY DEF Stays
<1>5. ASSUME NEW w \in Relay, NEW r \in Row, Emit(w, r)
      PROVE  /\ IsCurrent(w, r)
             /\ pos[w] <= Len(RouteOf(r))
             /\ Put(r, RouteOf(r)[pos[w]])
             /\ UNCHANGED rows
             /\ todo'[w] = todo[w] /\ pos'[w] = pos[w] + 1
             /\ \A v \in Relay : v # w => Stays(v)
  BY <1>5 DEF TypeOK, Emit, Stays
<1>6. ASSUME NEW w \in Relay, NEW r \in Row, EmitFails(w, r)
      PROVE  /\ IsCurrent(w, r)
             /\ pos[w] <= Len(RouteOf(r))
             /\ UNCHANGED sent \/ Put(r, RouteOf(r)[pos[w]])
             /\ UNCHANGED rows
             /\ Restarts(w)
             /\ \A v \in Relay : v # w => Stays(v)
             /\ \A v \in Relay : Restarts(v) \/ Stays(v)
  <2>1. Restarts(w) /\ \A v \in Relay : v # w => Stays(v)
    BY <1>2, <1>3, <1>6 DEF EmitFails
  <2>2. QED BY <1>6, <2>1 DEF EmitFails
<1>7. ASSUME NEW w \in Relay, CommitDrain(w) \/ OrphanStops(w) \/ Crash(w)
      PROVE  UNCHANGED sent /\ \A v \in Relay : Restarts(v) \/ Stays(v)
  BY <1>2, <1>7 DEF CommitDrain, OrphanStops, Crash
<1>8. ASSUME NEW w \in Relay, NEW r \in Row, SkipUnrouted(w, r) \/ Mark(w, r)
      PROVE  UNCHANGED sent /\ \A v \in Relay : Restarts(v) \/ Stays(v)
  BY <1>3, <1>8 DEF SkipUnrouted, Mark
<1>9. \/ UNCHANGED sent /\ UNCHANGED loop
      \/ \E w \in Relay : BeginDrain(w)
      \/ \E w \in Relay : CommitDrain(w) \/ OrphanStops(w) \/ Crash(w)
      \/ \E w \in Relay, r \in Row : SkipUnrouted(w, r) \/ Mark(w, r)
      \/ \E w \in Relay, r \in Row : Emit(w, r)
      \/ \E w \in Relay, r \in Row : EmitFails(w, r)
  BY NextCases DEF Enqueue, CommitWrite, AbortWrite, FlipSwitch, LoseSession
<1>10. QED BY <1>1, <1>4, <1>5, <1>6, <1>7, <1>8, <1>9

\* A relay that stays, or starts on another row, does not get ahead.
LEMMA AheadNotJoined ==
  ASSUME NEW v \in Relay, NEW r \in Row, NEW i \in Nat \ {0}, NEW j,
         Restarts(v) \/ Stays(v), v \in Ahead(r, i, j)'
  PROVE  v \in Ahead(r, i, j) /\ ~Restarts(v)
  BY DEF Ahead, Restarts, Stays, IsCurrent

\* A row nobody may have sent yet: its copies are none and no relay has it.
LEMMA UnacceptedIsIdle ==
  ASSUME TypeOK, Ownership, OnlyCommittedSent, NEW r \in Row, r \notin Accepted
  PROVE  /\ \A t \in Target : sent[r][t] = 0
         /\ \A w \in Relay : ~IsCurrent(w, r)
<1>1. \A t \in Target : sent[r][t] = 0
  <2>1. \A t \in Target : sent[r][t] \in Nat
    BY SentType
  <2>2. Reached(r) = {}
    BY DEF OnlyCommittedSent
  <2>3. QED BY <2>1, <2>2 DEF Reached
<1>2. QED BY <1>1 DEF Ownership, IsCurrent

\* A count and the relays ahead of it, against the count they are ahead of.
LEMMA Narrowed ==
  \A x, y, m, n \in Nat : x + m <= y /\ n <= m => x + n <= y
  OBVIOUS

LEMMA LeadGrows ==
  \A x, y, m, n \in Nat : x + m <= y /\ n <= m + 1 => x + n <= y + 1
  OBVIOUS

LEMMA OneCaughtUp ==
  \A x, y, m, n \in Nat : x + m <= y /\ n + 1 <= m => (x + 1) + n <= y
  OBVIOUS

LEMMA FanoutStep ==
  ASSUME TypeOK, TypeOK', Ownership, Ownership', OnlyCommittedSent,
         ActiveFinite, ActiveFinite', FanoutLag, [Next]_vars
  PROVE  FanoutLag'
<1> SUFFICES ASSUME NEW r \in Row, NEW i \in 1..Len(RouteOf(r))',
                    NEW j \in 1..Len(RouteOf(r))', i < j
             PROVE  LaggingBy(r, i, j)'
  BY DEF FanoutLag
<1> DEFINE A == Ahead(r, i, j)
           B == Ahead(r, i, j)'
<1> HIDE DEF A, B
<1>1. /\ Len(RouteOf(r))' \in Nat /\ i \in Nat \ {0} /\ j \in Nat \ {0}
      /\ RouteOf(r)'[i] \in Target /\ RouteOf(r)'[j] \in Target
  <2>1. RouteOf(r)' \in Seq(Target)
    BY RelayAssumption DEF TypeOK, RouteOf
  <2>2. QED BY <2>1
<1>2. /\ IsFiniteSet(A) /\ Cardinality(A) \in Nat
      /\ IsFiniteSet(B) /\ Cardinality(B) \in Nat
  <2>1. IsFiniteSet(A) /\ Cardinality(A) \in Nat
    BY AheadFinite DEF A
  <2>2. B \subseteq Active'
    BY DEF B, Ahead, Active, IsCurrent, Ownership
  <2>3. QED BY <2>1, <2>2, FS_Subset, FS_CardinalityType DEF ActiveFinite
<1>3. CASE UNCHANGED sent /\ (\A v \in Relay : Restarts(v) \/ Stays(v))
  <2>1. B \subseteq A
    <3>1. \A v \in B : v \in Relay /\ v \in Ahead(r, i, j)'
      BY DEF B, Ahead
    <3>2. \A v \in B : v \in Ahead(r, i, j)
      BY <1>1, <1>3, <3>1, AheadNotJoined
    <3>3. QED BY <3>2 DEF A
  <2>2. Cardinality(B) <= Cardinality(A)
    BY <1>2, <2>1, FS_Subset
  <2>3. CASE r \notin Accepted
    <3>1. A = {}
      BY <2>3, UnacceptedIsIdle DEF A, Ahead
    <3>2. B = {}
      BY <2>1, <3>1
    <3>3. Cardinality(B) = 0
      BY <3>2, FS_EmptySet
    <3>4. sent'[r][RouteOf(r)'[j]] = 0 /\ sent'[r][RouteOf(r)'[i]] = 0
      BY <1>1, <1>3, <2>3, UnacceptedIsIdle
    <3>5. QED BY <3>3, <3>4 DEF B, LaggingBy
  <2>4. CASE r \in Accepted
    <3>1. RouteOf(r)' = RouteOf(r)
      BY <2>4, RowStep DEF Accepted
    <3>2. LaggingBy(r, i, j)
      BY <3>1 DEF FanoutLag
    <3>3. sent[r][RouteOf(r)[i]] \in Nat /\ sent[r][RouteOf(r)[j]] \in Nat
      <4>1. RouteOf(r)[i] \in Target /\ RouteOf(r)[j] \in Target
        BY <1>1, <3>1
      <4>2. QED BY <4>1, SentType
    <3>4. sent[r][RouteOf(r)[j]] + Cardinality(A) <= sent[r][RouteOf(r)[i]]
      BY <3>2 DEF A, LaggingBy
    <3>5. sent[r][RouteOf(r)[j]] + Cardinality(B) <= sent[r][RouteOf(r)[i]]
      BY <1>2, <2>2, <3>3, <3>4, Narrowed
    <3>6. QED BY <1>3, <3>1, <3>5 DEF B, LaggingBy
  <2>5. QED BY <2>3, <2>4
<1>4. ASSUME NEW w \in Relay, NEW q \in Row, IsCurrent(w, q),
             pos[w] <= Len(RouteOf(q)), Put(q, RouteOf(q)[pos[w]]),
             UNCHANGED rows,
             Restarts(w) \/ (todo'[w] = todo[w] /\ pos'[w] = pos[w] + 1),
             \A v \in Relay : v # w => Stays(v)
      PROVE  LaggingBy(r, i, j)'
  <2>1. RouteOf(r)' = RouteOf(r)
    BY <1>4 DEF RouteOf
  <2>2. LaggingBy(r, i, j)
    BY <2>1 DEF FanoutLag
  <2>3. sent[r][RouteOf(r)[j]] + Cardinality(A) <= sent[r][RouteOf(r)[i]]
    BY <2>2 DEF A, LaggingBy
  <2>4. /\ pos[w] \in Nat \ {0}
        /\ RouteOf(q)[pos[w]] \in Target
        /\ sent[r][RouteOf(r)[i]] \in Nat /\ sent[r][RouteOf(r)[j]] \in Nat
    <3>1. pos[w] \in Nat \ {0}
      BY DEF TypeOK
    <3>2. RouteOf(q)[pos[w]] \in Target
      BY <1>4, <3>1, RouteOfType
    <3>3. RouteOf(r)[i] \in Target /\ RouteOf(r)[j] \in Target
      BY <1>1, <2>1
    <3>4. QED BY <3>1, <3>2, <3>3, SentType
  <2> DEFINE u == RouteOf(q)[pos[w]]
  <2>5. \A t \in Target :
          sent'[r][t] = IF r = q /\ t = u THEN sent[r][t] + 1 ELSE sent[r][t]
    BY <1>4, <2>4, PutType
  <2>6. \A v \in Relay : v # w /\ v \in B => v \in A
    BY <1>1, <1>4, AheadNotJoined DEF A, B
  <2>7. CASE r # q
    <3>1. w \notin B
      <4>1. CASE Restarts(w)
        BY <1>1, <4>1 DEF B, Ahead, Restarts
      <4>2. CASE todo'[w] = todo[w]
        <5>1. q \in Row /\ r \in Row /\ todo[w] \subseteq Row
          BY DEF TypeOK
        <5>2. ~(\A p \in todo[w] : r <= p) \/ r \notin todo[w]
          BY <1>4, <2>7, <5>1 DEF IsCurrent
        <5>3. QED BY <4>2, <5>2 DEF B, Ahead, IsCurrent
      <4>3. QED BY <1>4, <4>1, <4>2
    <3>2. B \subseteq A
      BY <2>6, <3>1 DEF B, Ahead
    <3>3. Cardinality(B) <= Cardinality(A)
      BY <1>2, <3>2, FS_Subset
    <3>4. /\ sent'[r][RouteOf(r)[i]] = sent[r][RouteOf(r)[i]]
          /\ sent'[r][RouteOf(r)[j]] = sent[r][RouteOf(r)[j]]
      BY <1>1, <2>1, <2>5, <2>7
    <3>5. sent'[r][RouteOf(r)[j]] + Cardinality(B) <= sent'[r][RouteOf(r)[i]]
      <4>1. sent[r][RouteOf(r)[j]] + Cardinality(B) <= sent[r][RouteOf(r)[i]]
        BY <1>2, <2>3, <2>4, <3>3, Narrowed
      <4>2. QED BY <3>4, <4>1
    <3>6. QED BY <2>1, <3>5 DEF B, LaggingBy
  <2>8. CASE r = q
    <3>0. Len(RouteOf(r)) \in Nat /\ pos[w] \in 1..Len(RouteOf(r))
      BY <1>1, <1>4, <2>1, <2>4, <2>8
    <3>1. \A k \in {i, j} : RouteOf(r)[k] = u <=> k = pos[w]
      <4>1. pattern[r] \in Pattern
        BY DEF TypeOK
      <4>2. QED BY <1>1, <2>1, <2>8, <3>0, <4>1, RelayAssumption DEF RouteOf
    <3>2. CASE pos[w] = i
      <4>1. /\ sent'[r][RouteOf(r)[i]] = sent[r][RouteOf(r)[i]] + 1
            /\ sent'[r][RouteOf(r)[j]] = sent[r][RouteOf(r)[j]]
        BY <1>1, <2>1, <2>5, <2>8, <3>1, <3>2
      <4>2. B \subseteq A \cup {w}
        BY <2>6 DEF B, Ahead
      <4>3. w \notin A
        BY <3>2, <1>1 DEF A, Ahead
      <4>4. /\ IsFiniteSet(A \cup {w})
            /\ Cardinality(A \cup {w}) = Cardinality(A) + 1
        BY <1>2, <4>3, FS_AddElement
      <4>5. Cardinality(B) <= Cardinality(A) + 1
        BY <4>2, <4>4, FS_Subset
      <4>6. sent[r][RouteOf(r)[j]] + Cardinality(B) <= sent[r][RouteOf(r)[i]] + 1
        BY <1>2, <2>3, <2>4, <4>5, LeadGrows
      <4>7. sent'[r][RouteOf(r)[j]] + Cardinality(B) <= sent'[r][RouteOf(r)[i]]
        BY <4>1, <4>6
      <4>8. QED BY <2>1, <4>7 DEF B, LaggingBy
    <3>3. CASE pos[w] = j
      <4>1. /\ sent'[r][RouteOf(r)[i]] = sent[r][RouteOf(r)[i]]
            /\ sent'[r][RouteOf(r)[j]] = sent[r][RouteOf(r)[j]] + 1
        BY <1>1, <2>1, <2>5, <2>8, <3>1, <3>3
      <4>2. w \in A /\ w \notin B
        BY <1>1, <1>4, <2>8, <3>3 DEF A, B, Ahead, Restarts
      <4>3. B \subseteq A \ {w}
        BY <2>6, <4>2 DEF B, Ahead
      <4>4. /\ IsFiniteSet(A \ {w})
            /\ Cardinality(A \ {w}) = Cardinality(A) - 1
        BY <1>2, <4>2, FS_RemoveElement
      <4>5. Cardinality(B) + 1 <= Cardinality(A)
        BY <1>2, <4>3, <4>4, FS_Subset
      <4>6. (sent[r][RouteOf(r)[j]] + 1) + Cardinality(B) <= sent[r][RouteOf(r)[i]]
        BY <1>2, <2>3, <2>4, <4>5, OneCaughtUp
      <4>7. sent'[r][RouteOf(r)[j]] + Cardinality(B) <= sent'[r][RouteOf(r)[i]]
        BY <4>1, <4>6
      <4>8. QED BY <2>1, <4>7 DEF B, LaggingBy
    <3>4. CASE pos[w] # i /\ pos[w] # j
      <4>1. /\ sent'[r][RouteOf(r)[i]] = sent[r][RouteOf(r)[i]]
            /\ sent'[r][RouteOf(r)[j]] = sent[r][RouteOf(r)[j]]
        BY <1>1, <2>1, <2>5, <3>1, <3>4
      <4>2. w \in B => w \in A
        BY <1>1, <1>4, <2>4, <2>8, <3>4 DEF A, B, Ahead, Restarts
      <4>3. B \subseteq A
        BY <2>6, <4>2 DEF B, Ahead
      <4>4. Cardinality(B) <= Cardinality(A)
        BY <1>2, <4>3, FS_Subset
      <4>5. sent'[r][RouteOf(r)[j]] + Cardinality(B) <= sent'[r][RouteOf(r)[i]]
        <5>1. sent[r][RouteOf(r)[j]] + Cardinality(B) <= sent[r][RouteOf(r)[i]]
          BY <1>2, <2>3, <2>4, <4>4, Narrowed
        <5>2. QED BY <4>1, <5>1
      <4>6. QED BY <2>1, <4>5 DEF B, LaggingBy
    <3>5. QED BY <3>2, <3>3, <3>4
  <2>9. QED BY <2>7, <2>8
<1>5. QED BY <1>3, <1>4, LoopStep

\* A later target of a pattern never has more copies of a row than an earlier
\* one, across failed emits, lost sessions and overlapping drains.
THEOREM FanoutIsInOrder == Spec => []FanoutInOrder
<1>1. Init => ActiveFinite /\ FanoutLag
  <2>1. SUFFICES ASSUME Init PROVE ActiveFinite /\ FanoutLag
    OBVIOUS
  <2>2. Active = {}
    BY <2>1 DEF Init, Active
  <2>3. ASSUME NEW r \in Row, NEW i \in 1..Len(RouteOf(r)),
               NEW j \in 1..Len(RouteOf(r)), i < j
        PROVE  LaggingBy(r, i, j)
    <3>1. Ahead(r, i, j) = {}
      BY <2>1 DEF Init, Ahead, IsCurrent
    <3>2. Cardinality(Ahead(r, i, j)) = 0
      BY <3>1, FS_EmptySet
    <3>3. TypeOK
      BY <2>1, RelayAssumption DEF Init, TypeOK
    <3>4. RouteOf(r)[i] \in Target /\ RouteOf(r)[j] \in Target
      BY <2>3, <3>3, RouteOfType
    <3>5. QED BY <2>1, <3>2, <3>4 DEF Init, LaggingBy
  <2>4. QED BY <2>2, <2>3, FS_EmptySet DEF ActiveFinite, FanoutLag
<1>2. IInv /\ IInv' /\ ActiveFinite /\ FanoutLag /\ [Next]_vars
        => ActiveFinite' /\ FanoutLag'
  BY ActiveStep, FanoutStep DEF IInv
<1>3. IInv /\ ActiveFinite /\ FanoutLag => FanoutInOrder
  <2>1. SUFFICES ASSUME IInv, ActiveFinite, FanoutLag, NEW r \in Row,
                        NEW i \in 1..Len(RouteOf(r)),
                        NEW j \in 1..Len(RouteOf(r)), i < j
                 PROVE  sent[r][RouteOf(r)[j]] <= sent[r][RouteOf(r)[i]]
    BY DEF FanoutInOrder
  <2>2. Cardinality(Ahead(r, i, j)) \in Nat
    BY <2>1, AheadFinite DEF IInv
  <2>3. RouteOf(r)[i] \in Target /\ RouteOf(r)[j] \in Target
    BY <2>1, RouteOfType DEF IInv
  <2>4. sent[r][RouteOf(r)[i]] \in Nat /\ sent[r][RouteOf(r)[j]] \in Nat
    BY <2>1, <2>3, SentType DEF IInv
  <2>5. sent[r][RouteOf(r)[j]] + Cardinality(Ahead(r, i, j)) <= sent[r][RouteOf(r)[i]]
    BY <2>1 DEF FanoutLag, LaggingBy
  <2>6. QED BY <2>2, <2>4, <2>5
<1>4. QED BY <1>1, <1>2, <1>3, InvariantHolds, PTL DEF Spec
-----------------------------------------------------------------------------
\* Copies and faults.  Every copy is paid for: one by the row's publication,
\* or by a live drain that has emitted it and may still publish, each other
\* one by a fault.  A relay without a session is a fault already counted whose
\* copy may still come.

\* What a relay's drain has emitted of a row to a target.
Done(w, r, t) ==
  \/ r \in marks[w] /\ t \in TargetsOf(r)
  \/ /\ IsCurrent(w, r)
     /\ \E i \in 1..Len(RouteOf(r)) : i < pos[w] /\ RouteOf(r)[i] = t

\* Relays without a session that may still emit a row to a target.
Coming(r, t) ==
  {w \in Relay : phase[w] = "orphaned" /\ r \in todo[w] /\ ~Done(w, r, t)}

Booked(r, t) == \/ status[r] = "published"
                \/ \E w \in Relay : phase[w] = "draining" /\ Done(w, r, t)

Due(r, t) == IF Booked(r, t) THEN 1 ELSE 0

PaidFor(r, t) == sent[r][t] + Cardinality(Coming(r, t)) <= faults + Due(r, t)

CopiesPaid == \A r \in Row, t \in Target : PaidFor(r, t)

\* A marked row is one the loop has left behind.
MarkedIsOver == \A w \in Relay : marks[w] \cap todo[w] = {}

LEMMA MarkedStep ==
  ASSUME TypeOK, Ownership, MarkedIsOver, [Next]_vars
  PROVE  MarkedIsOver'
<1>1. ASSUME NEW v \in Relay, marks'[v] \subseteq marks[v], todo'[v] \subseteq todo[v]
      PROVE  marks'[v] \cap todo'[v] = {}
  BY <1>1 DEF MarkedIsOver
<1>2. ASSUME NEW w \in Relay, BeginDrain(w) PROVE MarkedIsOver'
  <2>1. marks[w] = {}
    BY <1>2 DEF BeginDrain, Ownership
  <2>2. /\ marks'[w] = {}
        /\ \A v \in Relay : v # w => marks'[v] = marks[v] /\ todo'[v] = todo[v]
    BY <1>2, <2>1 DEF TypeOK, BeginDrain
  <2>3. QED BY <1>1, <2>2 DEF MarkedIsOver
<1>3. ASSUME NEW w \in Relay, NEW r \in Row, Mark(w, r) PROVE MarkedIsOver'
  <2>1. /\ marks'[w] = marks[w] \cup {r} /\ todo'[w] = todo[w] \ {r}
        /\ \A v \in Relay : v # w => marks'[v] = marks[v] /\ todo'[v] = todo[v]
    BY <1>3 DEF TypeOK, Mark, NextRow
  <2>2. QED BY <2>1 DEF MarkedIsOver
<1>4. ASSUME NEW w \in Relay, EndDrain(w) PROVE MarkedIsOver'
  <2>1. \A v \in Relay : marks'[v] \subseteq marks[v] /\ todo'[v] \subseteq todo[v]
    BY <1>4 DEF TypeOK, EndDrain, DropSession
  <2>2. QED BY <1>1, <2>1 DEF MarkedIsOver
<1>5. ASSUME NEW w \in Relay, LoseSession(w) PROVE MarkedIsOver'
  <2>1. \A v \in Relay : marks'[v] \subseteq marks[v] /\ todo'[v] \subseteq todo[v]
    BY <1>5 DEF TypeOK, LoseSession, DropSession
  <2>2. QED BY <1>1, <2>1 DEF MarkedIsOver
<1>6. ASSUME NEW w \in Relay, NEW r \in Row, NextRow(w, r), UNCHANGED marks
      PROVE  MarkedIsOver'
  <2>1. \A v \in Relay : marks'[v] \subseteq marks[v] /\ todo'[v] \subseteq todo[v]
    BY <1>6 DEF TypeOK, NextRow
  <2>2. QED BY <1>1, <2>1 DEF MarkedIsOver
<1>7. CASE UNCHANGED <<marks, todo>>
  BY <1>7 DEF MarkedIsOver
<1>8. \/ UNCHANGED <<marks, todo>>
      \/ \E w \in Relay : BeginDrain(w) \/ EndDrain(w) \/ LoseSession(w)
      \/ \E w \in Relay, r \in Row : Mark(w, r)
      \/ \E w \in Relay, r \in Row : NextRow(w, r) /\ UNCHANGED marks
  BY NextCases DEF Enqueue, CommitWrite, AbortWrite, FlipSwitch, CommitDrain,
     OrphanStops, Crash, SkipUnrouted, Emit, EmitFails
<1>9. QED BY <1>2, <1>3, <1>4, <1>5, <1>6, <1>7, <1>8

LEMMA ComingFinite ==
  ASSUME TypeOK, ActiveFinite, NEW r \in Row, NEW t \in Target
  PROVE  IsFiniteSet(Coming(r, t)) /\ Cardinality(Coming(r, t)) \in Nat
<1>1. Coming(r, t) \subseteq Active
  BY DEF Coming, Active
<1>2. QED BY <1>1, FS_Subset, FS_CardinalityType DEF ActiveFinite

\* A row in a relay's hands keeps its route.
LEMMA RouteKept ==
  ASSUME TypeOK, Ownership, [Next]_vars, NEW w \in Relay, NEW r \in Row,
         r \in todo[w] \/ r \in marks[w]
  PROVE  RouteOf(r)' = RouteOf(r)
BY RowStep DEF Ownership, Accepted

\* What a relay has done stays done while it works on the same rows, and a
\* relay gets no more done but by an emit.
LEMMA DoneKept ==
  ASSUME TypeOK, Ownership, [Next]_vars, NEW w \in Relay, NEW r \in Row,
         NEW t \in Target, Stays(w), marks'[w] = marks[w]
  PROVE  Done(w, r, t)' <=> Done(w, r, t)
<1>1. CASE r \in todo[w] \/ r \in marks[w]
  <2>1. RouteOf(r)' = RouteOf(r)
    BY <1>1, RouteKept
  <2>2. QED BY <2>1 DEF Done, TargetsOf, Stays, IsCurrent
<1>2. CASE r \notin todo[w] /\ r \notin marks[w]
  BY <1>2 DEF Done, Stays, IsCurrent
<1>3. QED BY <1>1, <1>2

LEMMA DoneOfRestart ==
  ASSUME TypeOK, NEW w \in Relay, NEW r \in Row, NEW t \in Target, Restarts(w)
  PROVE  Done(w, r, t)' => r \in marks'[w]
<1>1. \A i \in 1..Len(RouteOf(r))' : ~(i < pos'[w])
  BY DEF Restarts
<1>2. QED BY <1>1 DEF Done

\* A step that sends nothing, brings no relay in and loses no booking, or pays
\* for the one it loses, keeps the account.
LEMMA QuietKeepsPaid ==
  ASSUME TypeOK, TypeOK', ActiveFinite, NEW r \in Row, NEW t \in Target, PaidFor(r, t),
         sent'[r][t] = sent[r][t],
         Coming(r, t)' \subseteq Coming(r, t),
         \/ faults' >= faults /\ (Booked(r, t) => Booked(r, t)')
         \/ faults' = faults + 1
  PROVE  PaidFor(r, t)'
<1>1. /\ Cardinality(Coming(r, t))' <= Cardinality(Coming(r, t))
      /\ Cardinality(Coming(r, t))' \in Nat /\ Cardinality(Coming(r, t)) \in Nat
  BY ComingFinite, FS_Subset, FS_CardinalityType
<1>2. sent[r][t] \in Nat /\ faults \in Nat /\ faults' \in Nat
  BY DEF TypeOK
<1>3. /\ Due(r, t) \in {0, 1} /\ Due(r, t)' \in {0, 1}
      /\ (Booked(r, t) => Booked(r, t)') => Due(r, t) <= Due(r, t)'
  BY DEF Due
<1>4. faults + Due(r, t) <= faults' + Due(r, t)'
  BY <1>2, <1>3
<1>5. sent[r][t] + Cardinality(Coming(r, t)) <= faults + Due(r, t)
  BY DEF PaidFor
<1>6. sent'[r][t] + Cardinality(Coming(r, t))' <= faults' + Due(r, t)'
  BY <1>1, <1>2, <1>3, <1>4, <1>5
<1>7. QED BY <1>6 DEF PaidFor

\* The copy a step puts on a queue is paid for by a fault, by a new booking, or
\* by a relay that was still coming.
LEMMA SendKeepsPaid ==
  ASSUME TypeOK, TypeOK', ActiveFinite, NEW r \in Row, NEW t \in Target, PaidFor(r, t),
         sent'[r][t] = sent[r][t] + 1,
         Coming(r, t)' \subseteq Coming(r, t),
         \/ faults' = faults + 1 /\ (Booked(r, t) => Booked(r, t)')
         \/ faults' = faults /\ ~Booked(r, t) /\ Booked(r, t)'
         \/ /\ faults' = faults /\ (Booked(r, t) => Booked(r, t)')
            /\ Coming(r, t)' # Coming(r, t)
  PROVE  PaidFor(r, t)'
<1> DEFINE A == Coming(r, t)
           B == Coming(r, t)'
<1>1. /\ Cardinality(B) <= Cardinality(A)
      /\ Cardinality(B) \in Nat /\ Cardinality(A) \in Nat
      /\ B # A => Cardinality(B) + 1 <= Cardinality(A)
  <2>1. IsFiniteSet(A) /\ Cardinality(A) \in Nat
    BY ComingFinite
  <2>2. IsFiniteSet(B) /\ Cardinality(B) \in Nat /\ Cardinality(B) <= Cardinality(A)
    BY <2>1, FS_Subset, FS_CardinalityType
  <2>3. B # A => Cardinality(B) # Cardinality(A)
    BY <2>1, <2>2, FS_Subset
  <2>4. QED BY <2>1, <2>2, <2>3
<1>2. sent[r][t] \in Nat /\ faults \in Nat /\ faults' \in Nat
  BY DEF TypeOK
<1>3. /\ Due(r, t) \in {0, 1} /\ Due(r, t)' \in {0, 1}
      /\ (Booked(r, t) => Booked(r, t)') => Due(r, t) <= Due(r, t)'
      /\ ~Booked(r, t) /\ Booked(r, t)' => Due(r, t)' = Due(r, t) + 1
  BY DEF Due
<1>4. sent[r][t] + Cardinality(A) <= faults + Due(r, t)
  BY DEF PaidFor
<1> HIDE DEF A, B
<1>5. sent'[r][t] + Cardinality(B) <= faults' + Due(r, t)'
  <2>1. CASE faults' = faults + 1 /\ (Booked(r, t) => Booked(r, t)')
    BY <1>1, <1>2, <1>3, <1>4, <2>1
  <2>2. CASE faults' = faults /\ ~Booked(r, t) /\ Booked(r, t)'
    BY <1>1, <1>2, <1>3, <1>4, <2>2
  <2>3. CASE faults' = faults /\ (Booked(r, t) => Booked(r, t)') /\ B # A
    BY <1>1, <1>2, <1>3, <1>4, <2>3
  <2>4. QED BY <2>1, <2>2, <2>3 DEF A, B
<1>6. QED BY <1>5 DEF PaidFor, B

\* One relay acts: the account of a row depends on what that one does.
LEMMA OthersKeepAccount ==
  ASSUME TypeOK, Ownership, [Next]_vars, NEW w \in Relay, NEW r \in Row, NEW t \in Target,
         \A v \in Relay : v # w =>
            Stays(v) /\ marks'[v] = marks[v] /\ phase'[v] = phase[v]
  PROVE  /\ (w \in Coming(r, t)' => w \in Coming(r, t))
              => Coming(r, t)' \subseteq Coming(r, t)
         /\ Coming(r, t)' \subseteq Coming(r, t) \cup {w}
         /\ (/\ status[r] = "published" => status'[r] = "published"
             /\ phase[w] = "draining" /\ Done(w, r, t)
                  => \/ phase'[w] = "draining" /\ Done(w, r, t)'
                     \/ status'[r] = "published")
              => (Booked(r, t) => Booked(r, t)')
<1>1. \A v \in Relay : v # w => /\ Done(v, r, t)' <=> Done(v, r, t)
                                /\ v \in Coming(r, t)' <=> v \in Coming(r, t)
  BY DoneKept DEF Coming, Stays
<1>2. /\ (w \in Coming(r, t)' => w \in Coming(r, t))
           => Coming(r, t)' \subseteq Coming(r, t)
      /\ Coming(r, t)' \subseteq Coming(r, t) \cup {w}
  BY <1>1 DEF Coming
<1>3. QED BY <1>1, <1>2 DEF Booked

\* A live drain that is about to emit has the row to itself, and has not
\* emitted it to that target before.
LEMMA NotBookedYet ==
  ASSUME TypeOK, Ownership, NoSharedRow, MarkedIsOver,
         NEW w \in Relay, NEW q \in Row, IsCurrent(w, q), pos[w] <= Len(RouteOf(q))
  PROVE  /\ ~Done(w, q, RouteOf(q)[pos[w]])
         /\ phase[w] = "draining" => ~Booked(q, RouteOf(q)[pos[w]])
<1> DEFINE u == RouteOf(q)[pos[w]]
<1>1. q \in todo[w] /\ q \notin marks[w]
  BY DEF IsCurrent, MarkedIsOver
<1>2. ~Done(w, q, u)
  <2>1. Len(RouteOf(q)) \in Nat /\ pos[w] \in Nat \ {0} /\ pattern[q] \in Pattern
    <3>1. Len(RouteOf(q)) \in Nat
      BY RouteOfType
    <3>2. QED BY <3>1 DEF TypeOK
  <2>2. \A i \in 1..Len(RouteOf(q)) : i < pos[w] => RouteOf(q)[i] # u
    BY <2>1, RelayAssumption DEF RouteOf
  <2>3. QED BY <1>1, <2>2 DEF Done
<1>3. ASSUME phase[w] = "draining", Booked(q, u) PROVE FALSE
  <2>1. q \in held[w] /\ status[q] = "pending"
    BY <1>1, <1>3 DEF Ownership
  <2>2. PICK v \in Relay : phase[v] = "draining" /\ Done(v, q, u)
    BY <1>3, <2>1 DEF Booked
  <2>3. q \in held[v]
    BY <2>2 DEF Done, IsCurrent, Ownership
  <2>4. v = w
    BY <2>1, <2>3 DEF NoSharedRow
  <2>5. QED BY <1>2, <2>2, <2>4
<1>4. QED BY <1>2, <1>3

LEMMA OnlyTheActorMoves ==
  ASSUME TypeOK, NEW w \in Relay,
         \/ BeginDrain(w) \/ LoseSession(w) \/ EndDrain(w)
         \/ \E r \in Row : Mark(w, r) \/ Emit(w, r)
         \/ \E r \in Row : NextRow(w, r) /\ UNCHANGED <<marks, phase>>
  PROVE  \A v \in Relay : v # w =>
            Stays(v) /\ marks'[v] = marks[v] /\ phase'[v] = phase[v]
BY DEF TypeOK, BeginDrain, LoseSession, EndDrain, DropSession, NextRow, Mark,
   Emit, Stays

\* Emits, confirmed or not, that reach the queue.
LEMMA EmitKeepsPaid ==
  ASSUME TypeOK, TypeOK', Ownership, NoSharedRow, MarkedIsOver, ActiveFinite,
         CopiesPaid, [Next]_vars, NEW w \in Relay, NEW q \in Row,
         Emit(w, q) \/ (EmitFails(w, q) /\ Put(q, RouteOf(q)[pos[w]])),
         NEW r \in Row, NEW t \in Target
  PROVE  PaidFor(r, t)'
<1> DEFINE u == RouteOf(q)[pos[w]]
<1>1. /\ IsCurrent(w, q) /\ pos[w] <= Len(RouteOf(q)) /\ Put(q, u)
      /\ UNCHANGED <<status, pattern>>
      /\ phase[w] \in {"draining", "orphaned"}
  BY DEF Emit, EmitFails, IsCurrent, Ownership, TypeOK
<1>2. u \in Target
  BY <1>1, RouteOfType DEF TypeOK
<1>3. sent'[r][t] = IF r = q /\ t = u THEN sent[r][t] + 1 ELSE sent[r][t]
  BY <1>1, <1>2, PutType
<1>4. PaidFor(r, t)
  BY DEF CopiesPaid
<1>5. \A v \in Relay : v # w =>
         Stays(v) /\ marks'[v] = marks[v] /\ phase'[v] = phase[v]
  <2>1. Emit(w, q) \/ EndDrain(w) \/ (NextRow(w, q) /\ UNCHANGED <<marks, phase>>)
    BY DEF EmitFails
  <2>2. QED BY <2>1, OnlyTheActorMoves
<1>6. CASE EmitFails(w, q)
  <2>1. faults' = faults + 1
    BY <1>6 DEF EmitFails
  <2>2. w \notin Coming(r, t)'
    <3>1. CASE phase[w] = "draining"
      BY <1>6, <3>1 DEF EmitFails, Coming
    <3>2. CASE phase[w] = "orphaned"
      BY <1>6, <3>2 DEF EmitFails, EndDrain, Coming, TypeOK
    <3>3. QED BY <1>1, <3>1, <3>2
  <2>3. Coming(r, t)' \subseteq Coming(r, t)
    BY <1>5, <2>2, OthersKeepAccount
  <2>4. CASE r = q /\ t = u
    <3>1. sent'[r][t] = sent[r][t] + 1
      BY <1>3, <2>4
    <3>2. Booked(r, t) => Booked(r, t)'
      <4>1. CASE phase[w] = "draining"
        BY <1>1, <2>4, <4>1, NotBookedYet
      <4>2. CASE phase[w] = "orphaned"
        BY <1>1, <1>5, <4>2, OthersKeepAccount
      <4>3. QED BY <1>1, <4>1, <4>2
    <3>3. QED BY <1>4, <2>1, <2>3, <3>1, <3>2, SendKeepsPaid
  <2>5. CASE ~(r = q /\ t = u)
    BY <1>3, <1>4, <2>1, <2>3, <2>5, QuietKeepsPaid
  <2>6. QED BY <2>4, <2>5
<1>7. CASE Emit(w, q)
  <2>1. /\ pos'[w] = pos[w] + 1 /\ UNCHANGED <<todo, marks, phase, faults>>
        /\ RouteOf(r)' = RouteOf(r) /\ pos[w] \in Nat
    BY <1>7 DEF Emit, TypeOK, RouteOf
  <2>2. Done(w, r, t) => Done(w, r, t)'
    <3>1. Len(RouteOf(r)) \in Nat
      BY RouteOfType
    <3>2. QED BY <2>1, <3>1 DEF Done, TargetsOf, IsCurrent
  <2>3. w \in Coming(r, t)' => w \in Coming(r, t)
    BY <2>1, <2>2 DEF Coming
  <2>4. Coming(r, t)' \subseteq Coming(r, t)
    BY <1>5, <2>3, OthersKeepAccount
  <2>5. Booked(r, t) => Booked(r, t)'
    BY <1>1, <1>5, <2>1, <2>2, OthersKeepAccount
  <2>6. CASE ~(r = q /\ t = u)
    <3>1. faults' >= faults
      BY <2>1 DEF TypeOK
    <3>2. QED BY <1>3, <1>4, <2>4, <2>5, <2>6, <3>1, QuietKeepsPaid
  <2>7. CASE r = q /\ t = u
    <3>1. sent'[r][t] = sent[r][t] + 1
      BY <1>3, <2>7
    <3>2. Done(w, r, t)'
      <4>1. pos[w] \in 1..Len(RouteOf(r)) /\ pos[w] < pos'[w] /\ RouteOf(r)[pos[w]] = t
        <5>1. Len(RouteOf(r)) \in Nat /\ pos[w] \in Nat \ {0}
          BY RouteOfType DEF TypeOK
        <5>2. QED BY <1>1, <2>1, <2>7, <5>1
      <4>2. QED BY <1>1, <2>1, <2>7, <4>1 DEF Done, IsCurrent
    <3>3. CASE phase[w] = "draining"
      <4>1. ~Booked(r, t) /\ Booked(r, t)'
        BY <1>1, <2>1, <2>7, <3>2, <3>3, NotBookedYet DEF Booked
      <4>2. QED BY <1>4, <2>1, <2>4, <3>1, <4>1, SendKeepsPaid
    <3>4. CASE phase[w] = "orphaned"
      <4>1. w \in Coming(r, t)
        BY <1>1, <2>7, <3>4, NotBookedYet DEF Coming, IsCurrent
      <4>2. w \notin Coming(r, t)'
        BY <3>2 DEF Coming
      <4>3. QED BY <1>4, <2>1, <2>4, <2>5, <3>1, <4>1, <4>2, SendKeepsPaid
    <3>5. QED BY <1>1, <3>3, <3>4
  <2>8. QED BY <2>6, <2>7
<1>8. QED BY <1>6, <1>7

\* Steps of one relay that put nothing on a queue.
LEMMA QuietStepKeepsPaid ==
  ASSUME TypeOK, TypeOK', Ownership, MarkedIsOver, ActiveFinite,
         CopiesPaid, [Next]_vars, NEW w \in Relay,
         \/ BeginDrain(w) \/ CommitDrain(w) \/ OrphanStops(w) \/ Crash(w)
         \/ \E q \in Row : SkipUnrouted(w, q) \/ Mark(w, q),
         NEW r \in Row, NEW t \in Target
  PROVE  PaidFor(r, t)'
<1>1. PaidFor(r, t)
  BY DEF CopiesPaid
<1>2. sent' = sent /\ (faults' >= faults \/ faults' = faults + 1)
  BY DEF BeginDrain, CommitDrain, OrphanStops, Crash, SkipUnrouted, Mark, TypeOK
<1>3. \A v \in Relay : v # w =>
         Stays(v) /\ marks'[v] = marks[v] /\ phase'[v] = phase[v]
  BY OnlyTheActorMoves DEF CommitDrain, OrphanStops, Crash, SkipUnrouted
<1>4. status[r] = "published" => status'[r] = "published"
  BY DEF BeginDrain, CommitDrain, OrphanStops, Crash, SkipUnrouted, Mark, TypeOK
<1>5. CASE BeginDrain(w)
  <2>1. phase[w] = "idle" /\ phase'[w] = "draining"
    BY <1>5 DEF BeginDrain, TypeOK
  <2>2. w \notin Coming(r, t)'
    BY <2>1 DEF Coming
  <2>3. Coming(r, t)' \subseteq Coming(r, t) /\ (Booked(r, t) => Booked(r, t)')
    BY <1>3, <1>4, <2>1, <2>2, OthersKeepAccount
  <2>4. faults' >= faults
    BY <1>5 DEF BeginDrain, TypeOK
  <2>5. QED BY <1>1, <1>2, <2>3, <2>4, QuietKeepsPaid
<1>6. CASE CommitDrain(w)
  <2>1. phase'[w] = "idle" /\ todo[w] = {} /\ faults' >= faults
    BY <1>6 DEF CommitDrain, EndDrain, TypeOK
  <2>2. w \notin Coming(r, t)'
    BY <2>1 DEF Coming
  <2>3. Done(w, r, t) => status'[r] = "published"
    BY <1>6, <2>1 DEF Done, IsCurrent, CommitDrain, TypeOK
  <2>4. Coming(r, t)' \subseteq Coming(r, t) /\ (Booked(r, t) => Booked(r, t)')
    BY <1>3, <1>4, <2>2, <2>3, OthersKeepAccount
  <2>5. QED BY <1>1, <1>2, <2>1, <2>4, QuietKeepsPaid
<1>7. CASE OrphanStops(w)
  <2>1. phase'[w] = "idle" /\ phase[w] = "orphaned" /\ faults' >= faults
    BY <1>7 DEF OrphanStops, EndDrain, TypeOK
  <2>2. w \notin Coming(r, t)'
    BY <2>1 DEF Coming
  <2>3. Coming(r, t)' \subseteq Coming(r, t) /\ (Booked(r, t) => Booked(r, t)')
    BY <1>3, <1>4, <2>1, <2>2, OthersKeepAccount
  <2>4. QED BY <1>1, <1>2, <2>1, <2>3, QuietKeepsPaid
<1>8. CASE Crash(w)
  <2>1. phase'[w] = "idle" /\ faults' = faults + 1
    BY <1>8 DEF Crash, EndDrain, TypeOK
  <2>2. w \notin Coming(r, t)'
    BY <2>1 DEF Coming
  <2>3. Coming(r, t)' \subseteq Coming(r, t)
    BY <1>3, <2>2, OthersKeepAccount
  <2>4. QED BY <1>1, <1>2, <2>1, <2>3, QuietKeepsPaid
<1>9. ASSUME NEW q \in Row, SkipUnrouted(w, q) \/ Mark(w, q)
      PROVE  PaidFor(r, t)'
  <2>1. /\ IsCurrent(w, q) /\ NextRow(w, q)
        /\ UNCHANGED <<status, pattern, phase, faults>>
        /\ RouteOf(r)' = RouteOf(r)
        /\ todo'[w] = todo[w] \ {q}
    BY <1>9 DEF SkipUnrouted, Mark, NextRow, RouteOf, TypeOK
  <2>2. marks[w] \subseteq marks'[w] /\ faults' >= faults
    BY <1>9, <2>1 DEF SkipUnrouted, Mark, TypeOK
  <2>3. w \in Coming(r, t)' => w \in Coming(r, t)
    <3>1. SUFFICES ASSUME w \in Coming(r, t)' PROVE w \in Coming(r, t)
      OBVIOUS
    <3>2. phase[w] = "orphaned" /\ r \in todo[w] /\ r # q
      BY <2>1, <3>1 DEF Coming
    <3>3. r \notin marks[w]
      BY <3>2 DEF MarkedIsOver
    <3>4. ~IsCurrent(w, r)
      <4>1. q \in Nat /\ r \in Nat /\ q \in todo[w]
        BY <2>1 DEF IsCurrent, TypeOK
      <4>2. QED BY <2>1, <3>2, <4>1 DEF IsCurrent
    <3>5. QED BY <3>2, <3>3, <3>4 DEF Coming, Done
  <2>4. Done(w, r, t) => Done(w, r, t)'
    <3>1. CASE r \in marks[w] /\ t \in TargetsOf(r)
      BY <2>1, <2>2, <3>1 DEF Done, TargetsOf
    <3>2. CASE IsCurrent(w, r) /\ \E i \in 1..Len(RouteOf(r)) :
                                    i < pos[w] /\ RouteOf(r)[i] = t
      <4>1. r = q
        <5>1. q \in Nat /\ r \in Nat
          OBVIOUS
        <5>2. QED BY <2>1, <3>2, <5>1 DEF IsCurrent
      <4>2. t \in TargetsOf(r) /\ RouteOf(r) # <<>>
        <5>1. Len(RouteOf(r)) \in Nat /\ RouteOf(r) \in Seq(Target)
          BY RouteOfType
        <5>2. QED BY <3>2, <5>1 DEF TargetsOf
      <4>3. Mark(w, q)
        BY <1>9, <4>1, <4>2 DEF SkipUnrouted
      <4>4. r \in marks'[w]
        BY <4>1, <4>3 DEF Mark, TypeOK
      <4>5. QED BY <2>1, <4>2, <4>4 DEF Done, TargetsOf
    <3>3. QED BY <3>1, <3>2 DEF Done
  <2>5. Coming(r, t)' \subseteq Coming(r, t) /\ (Booked(r, t) => Booked(r, t)')
    BY <1>3, <1>4, <2>1, <2>3, <2>4, OthersKeepAccount
  <2>6. QED BY <1>1, <1>2, <2>2, <2>5, QuietKeepsPaid
<1>10. QED BY <1>5, <1>6, <1>7, <1>8, <1>9

\* A lost session is the fault that pays for the copy its relay may still send,
\* or for the one it has sent and can no longer mark: never for both.
LEMMA LoseSessionKeepsPaid ==
  ASSUME TypeOK, TypeOK', Ownership, MarkedIsOver, ActiveFinite, ActiveFinite',
         CopiesPaid, [Next]_vars, NEW w \in Relay, LoseSession(w),
         NEW r \in Row, NEW t \in Target
  PROVE  PaidFor(r, t)'
<1>1. PaidFor(r, t)
  BY DEF CopiesPaid
<1>2. /\ sent' = sent /\ faults' = faults + 1 /\ UNCHANGED <<status, loop>>
      /\ RouteOf(r)' = RouteOf(r)
      /\ phase[w] = "draining" /\ phase'[w] = "orphaned" /\ marks'[w] = {}
  BY DEF LoseSession, DropSession, TypeOK, RouteOf
<1>3. \A v \in Relay : v # w =>
         Stays(v) /\ marks'[v] = marks[v] /\ phase'[v] = phase[v]
  BY OnlyTheActorMoves
<1>4. CASE w \notin Coming(r, t)'
  <2>1. Coming(r, t)' \subseteq Coming(r, t)
    BY <1>3, <1>4, OthersKeepAccount
  <2>2. QED BY <1>1, <1>2, <2>1, QuietKeepsPaid
<1>5. CASE w \in Coming(r, t)'
  <2>1. ~Done(w, r, t)
    <3>1. r \in todo[w] /\ r \notin marks[w]
      BY <1>2, <1>5 DEF Coming, MarkedIsOver
    <3>2. QED BY <1>2, <1>5, <3>1 DEF Coming, Done, IsCurrent
  <2>2. /\ Coming(r, t)' \subseteq Coming(r, t) \cup {w}
        /\ Booked(r, t) => Booked(r, t)'
    BY <1>2, <1>3, <2>1, OthersKeepAccount
  <2>3. w \notin Coming(r, t)
    BY <1>2 DEF Coming
  <2>4. /\ Cardinality(Coming(r, t))' <= Cardinality(Coming(r, t)) + 1
        /\ Cardinality(Coming(r, t))' \in Nat /\ Cardinality(Coming(r, t)) \in Nat
    <3>1. IsFiniteSet(Coming(r, t)) /\ Cardinality(Coming(r, t)) \in Nat
      BY ComingFinite
    <3>2. /\ IsFiniteSet(Coming(r, t) \cup {w})
          /\ Cardinality(Coming(r, t) \cup {w}) = Cardinality(Coming(r, t)) + 1
      BY <2>3, <3>1, FS_AddElement
    <3>3. QED BY <2>2, <3>1, <3>2, FS_Subset, FS_CardinalityType
  <2>5. Due(r, t) \in Nat /\ Due(r, t)' \in Nat /\ Due(r, t) <= Due(r, t)'
    BY <2>2 DEF Due
  <2>6. sent[r][t] + Cardinality(Coming(r, t)) <= faults + Due(r, t)
    BY <1>1 DEF PaidFor
  <2>7. sent[r][t] \in Nat /\ faults \in Nat
    BY DEF TypeOK
  <2>8. sent'[r][t] + Cardinality(Coming(r, t))' <= faults' + Due(r, t)'
    BY <1>2, <2>4, <2>5, <2>6, <2>7
  <2>9. QED BY <2>8 DEF PaidFor
<1>6. QED BY <1>4, <1>5

LEMMA CopiesStep ==
  ASSUME TypeOK, TypeOK', Ownership, NoSharedRow, MarkedIsOver,
         ActiveFinite, ActiveFinite', CopiesPaid, [Next]_vars
  PROVE  CopiesPaid'
<1> SUFFICES ASSUME NEW r \in Row, NEW t \in Target PROVE PaidFor(r, t)'
  BY DEF CopiesPaid
<1>1. ASSUME UNCHANGED <<phase, marks, loop, sent, faults>>,
             status[r] = "published" => status'[r] = "published"
      PROVE  PaidFor(r, t)'
  <2>1. \A v \in Relay : Done(v, r, t)' <=> Done(v, r, t)
    BY <1>1, DoneKept DEF Stays
  <2>2. Coming(r, t)' \subseteq Coming(r, t) /\ (Booked(r, t) => Booked(r, t)')
    BY <1>1, <2>1 DEF Coming, Booked
  <2>3. faults' >= faults /\ PaidFor(r, t)
    BY <1>1 DEF TypeOK, CopiesPaid
  <2>4. QED BY <1>1, <2>2, <2>3, QuietKeepsPaid
<1>2. ASSUME NEW q \in Row,
             (\E p \in Pattern : Enqueue(q, p)) \/ CommitWrite(q) \/ AbortWrite(q)
      PROVE  PaidFor(r, t)'
  <2>1. /\ UNCHANGED <<phase, marks, loop, sent, faults>>
        /\ status[r] = "published" => status'[r] = "published"
    BY <1>2 DEF Enqueue, CommitWrite, AbortWrite, TypeOK
  <2>2. QED BY <1>1, <2>1
<1>3. CASE FlipSwitch \/ UNCHANGED vars
  BY <1>1, <1>3 DEF FlipSwitch
<1>4. ASSUME NEW w \in Relay, NEW q \in Row, EmitFails(w, q), UNCHANGED sent
      PROVE  PaidFor(r, t)'
  <2>1. w \notin Coming(r, t)'
    BY <1>4 DEF EmitFails, EndDrain, Coming, TypeOK
  <2>2. \A v \in Relay : v # w =>
           Stays(v) /\ marks'[v] = marks[v] /\ phase'[v] = phase[v]
    <3>1. EndDrain(w) \/ (NextRow(w, q) /\ UNCHANGED <<marks, phase>>)
      BY <1>4 DEF EmitFails
    <3>2. QED BY <3>1, OnlyTheActorMoves
  <2>3. Coming(r, t)' \subseteq Coming(r, t)
    BY <2>1, <2>2, OthersKeepAccount
  <2>4. faults' = faults + 1 /\ PaidFor(r, t)
    BY <1>4 DEF EmitFails, CopiesPaid
  <2>5. QED BY <1>4, <2>3, <2>4, QuietKeepsPaid
<1>5. ASSUME NEW w \in Relay, NEW q \in Row, Emit(w, q) \/ EmitFails(w, q)
      PROVE  PaidFor(r, t)'
  BY <1>4, <1>5, EmitKeepsPaid DEF EmitFails
<1>6. QED
  BY <1>2, <1>3, <1>5, NextCases, QuietStepKeepsPaid, LoseSessionKeepsPaid

\* The inductive invariant of the account, with the one it rests on.
THEOREM CopiesArePaidFor == Spec => []CopiesPaid
<1>1. Init => ActiveFinite /\ MarkedIsOver /\ CopiesPaid
  <2>1. SUFFICES ASSUME Init PROVE ActiveFinite /\ MarkedIsOver /\ CopiesPaid
    OBVIOUS
  <2>2. Active = {} /\ MarkedIsOver
    BY <2>1 DEF Init, Active, MarkedIsOver
  <2>3. ASSUME NEW r \in Row, NEW t \in Target PROVE PaidFor(r, t)
    <3>1. Coming(r, t) = {}
      BY <2>1 DEF Init, Coming
    <3>2. Cardinality(Coming(r, t)) = 0
      BY <3>1, FS_EmptySet
    <3>3. sent[r][t] = 0 /\ faults = 0 /\ Due(r, t) \in {0, 1}
      BY <2>1 DEF Init, Due
    <3>4. QED BY <3>2, <3>3 DEF PaidFor
  <2>4. QED BY <2>2, <2>3, FS_EmptySet DEF ActiveFinite, CopiesPaid
<1>2. /\ IInv /\ IInv' /\ ActiveFinite /\ MarkedIsOver /\ CopiesPaid /\ [Next]_vars
      => ActiveFinite' /\ MarkedIsOver' /\ CopiesPaid'
  BY ActiveStep, MarkedStep, CopiesStep DEF IInv
<1>3. QED BY <1>1, <1>2, InvariantHolds, PTL DEF Spec

\* Without faults a target gets a row once, and each further copy takes a
\* crash, a lost session or a failed emit, however many replicas drain.
THEOREM CopiesTakeFaults == Spec => []CopiesNeedFaults
<1>1. Init => ActiveFinite
  BY FS_EmptySet DEF Init, ActiveFinite, Active
<1>2. IInv /\ ActiveFinite /\ [Next]_vars => ActiveFinite'
  BY ActiveStep DEF IInv
<1>3. IInv /\ ActiveFinite /\ CopiesPaid => CopiesNeedFaults
  <2>1. SUFFICES ASSUME IInv, ActiveFinite, CopiesPaid, NEW r \in Row, NEW t \in Target
                 PROVE  sent[r][t] <= 1 + faults
    BY DEF CopiesNeedFaults
  <2>2. Cardinality(Coming(r, t)) \in Nat
    BY <2>1, ComingFinite DEF IInv
  <2>3. sent[r][t] + Cardinality(Coming(r, t)) <= faults + Due(r, t)
    BY <2>1 DEF CopiesPaid, PaidFor
  <2>4. sent[r][t] \in Nat /\ faults \in Nat /\ Due(r, t) \in {0, 1}
    BY <2>1 DEF IInv, TypeOK, Due
  <2>5. QED BY <2>2, <2>3, <2>4
<1>4. QED BY <1>1, <1>2, <1>3, InvariantHolds, CopiesArePaidFor, PTL DEF Spec
-----------------------------------------------------------------------------
(* The outbox and the user projection it feeds.                              *)

HIDE DEF Row

\* The step of auth is a step of its outbox; those of farms leave it alone.
LEMMA StepOfOutbox == [ProjectionNext]_allVars => [Next]_vars
<1> SUFFICES ASSUME [ProjectionNext]_allVars PROVE [Next]_vars
  OBVIOUS
<1>1. ASSUME AuthStep PROVE Next
  BY <1>1 DEF AuthStep, Auth, UserWrite, Next, Produce
<1>2. ASSUME NEW c \in Consumer, Consume(c) PROVE UNCHANGED vars
  BY <1>2 DEF Consume, Take, Upsert, AckUpsert, UpsertThrows, Redeliver
<1>3. QED BY <1>1, <1>2 DEF ProjectionNext, allVars

\* The projection's outbox is an outbox: what is proved of it carries over.
THEOREM ProjectionImplementsOutbox == ProjectionSpec => Spec
<1>1. ProjectionInit => Init
  BY DEF ProjectionInit
<1>2. QED BY <1>1, StepOfOutbox, PTL DEF ProjectionSpec, Spec

\* The actions under ProjectionNext, for case splits.
LEMMA ProjectionCases ==
  ASSUME [ProjectionNext]_allVars
  PROVE  \/ AuthStep
         \/ \E c \in Consumer : Take(c) \/ Upsert(c) \/ AckUpsert(c)
                                \/ UpsertThrows(c) \/ Redeliver(c)
         \/ UNCHANGED <<vars, farmsVars>>
  BY DEF ProjectionNext, Consume, allVars

\* What is in a queue after a put at either end and a take.
LEMMA PutSet ==
  ASSUME NEW S, NEW s \in Seq(S), NEW r \in S
  PROVE  ToSet(Append(s, r)) = ToSet(s) \cup {r}
<1>1. /\ DOMAIN Append(s, r) = 1..Len(s) + 1 /\ DOMAIN s = 1..Len(s)
      /\ Len(s) \in Nat /\ Append(s, r)[Len(s) + 1] = r
      /\ \A i \in 1..Len(s) : Append(s, r)[i] = s[i]
  OBVIOUS
<1>2. ASSUME NEW x PROVE x \in ToSet(Append(s, r)) <=> x \in ToSet(s) \cup {r}
  <2>1. ASSUME x \in ToSet(Append(s, r)) PROVE x \in ToSet(s) \cup {r}
    <3>1. PICK i \in 1..Len(s) + 1 : x = Append(s, r)[i]
      BY <1>1, <2>1 DEF ToSet
    <3>2. i \in 1..Len(s) \/ i = Len(s) + 1
      BY <1>1
    <3>3. QED BY <1>1, <3>1, <3>2 DEF ToSet
  <2>2. ASSUME x \in ToSet(s) PROVE x \in ToSet(Append(s, r))
    <3>1. PICK i \in 1..Len(s) : x = s[i]
      BY <1>1, <2>2 DEF ToSet
    <3>2. i \in 1..Len(s) + 1 /\ x = Append(s, r)[i]
      BY <1>1, <3>1
    <3>3. QED BY <1>1, <3>2 DEF ToSet
  <2>3. r \in ToSet(Append(s, r))
    <3>1. Len(s) + 1 \in 1..Len(s) + 1
      BY <1>1
    <3>2. QED BY <1>1, <3>1 DEF ToSet
  <2>4. QED BY <2>1, <2>2, <2>3
<1>3. QED BY <1>2

LEMMA PutBackSet ==
  ASSUME NEW S, NEW s \in Seq(S), NEW r \in S
  PROVE  ToSet(<<r>> \o s) = ToSet(s) \cup {r}
<1>1. /\ DOMAIN (<<r>> \o s) = 1..Len(s) + 1 /\ DOMAIN s = 1..Len(s)
      /\ Len(s) \in Nat /\ (<<r>> \o s)[1] = r
      /\ \A i \in 1..Len(s) : (<<r>> \o s)[i + 1] = s[i]
  OBVIOUS
<1>2. ASSUME NEW x PROVE x \in ToSet(<<r>> \o s) <=> x \in ToSet(s) \cup {r}
  <2>1. ASSUME x \in ToSet(<<r>> \o s) PROVE x \in ToSet(s) \cup {r}
    <3>1. PICK i \in 1..Len(s) + 1 : x = (<<r>> \o s)[i]
      BY <1>1, <2>1 DEF ToSet
    <3>2. i = 1 \/ (i - 1 \in 1..Len(s) /\ i = (i - 1) + 1)
      BY <1>1
    <3>3. QED BY <1>1, <3>1, <3>2 DEF ToSet
  <2>2. ASSUME x \in ToSet(s) PROVE x \in ToSet(<<r>> \o s)
    <3>1. PICK i \in 1..Len(s) : x = s[i]
      BY <1>1, <2>2 DEF ToSet
    <3>2. i + 1 \in 1..Len(s) + 1 /\ x = (<<r>> \o s)[i + 1]
      BY <1>1, <3>1
    <3>3. QED BY <1>1, <3>2 DEF ToSet
  <2>3. r \in ToSet(<<r>> \o s)
    <3>1. 1 \in 1..Len(s) + 1
      BY <1>1
    <3>2. QED BY <1>1, <3>1 DEF ToSet
  <2>4. QED BY <2>1, <2>2, <2>3
<1>3. QED BY <1>2

LEMMA TakeSet ==
  ASSUME NEW S, NEW s \in Seq(S), s # <<>>
  PROVE  /\ Head(s) \in S /\ Tail(s) \in Seq(S)
         /\ ToSet(s) = ToSet(Tail(s)) \cup {Head(s)}
<1>1. DOMAIN Tail(s) = 1..Len(s) - 1 /\ DOMAIN s = 1..Len(s) /\ Len(s) >= 1
  OBVIOUS
<1>2. \A i \in 1..Len(s) - 1 : Tail(s)[i] = s[i + 1]
  OBVIOUS
<1>3. Head(s) = s[1]
  OBVIOUS
<1>4. ASSUME NEW x \in ToSet(s) PROVE x \in ToSet(Tail(s)) \cup {Head(s)}
  <2>1. PICK i \in 1..Len(s) : x = s[i]
    BY <1>1, <1>4 DEF ToSet
  <2>2. CASE i = 1
    BY <1>3, <2>1, <2>2
  <2>3. CASE i # 1
    <3>1. PICK h : h = i - 1
      OBVIOUS
    <3>2. h \in 1..Len(s) - 1 /\ i = h + 1
      BY <1>1, <2>3, <3>1
    <3>3. Tail(s)[h] = x
      BY <1>2, <2>1, <3>2
    <3>4. QED BY <1>1, <3>2, <3>3 DEF ToSet
  <2>4. QED BY <2>2, <2>3
<1>5. ASSUME NEW x \in ToSet(Tail(s)) PROVE x \in ToSet(s)
  <2>1. PICK i \in 1..Len(s) - 1 : x = Tail(s)[i]
    BY <1>1, <1>5 DEF ToSet
  <2>2. i + 1 \in 1..Len(s) /\ x = s[i + 1]
    BY <1>1, <1>2, <2>1
  <2>3. QED BY <1>1, <2>2 DEF ToSet
<1>6. Head(s) \in ToSet(s)
  <2>1. 1 \in 1..Len(s)
    BY <1>1
  <2>2. QED BY <1>1, <1>3, <2>1 DEF ToSet
<1>7. QED BY <1>4, <1>5, <1>6

LEMMA ProjectionTypeStep ==
  ASSUME ProjectionTypeOK, [ProjectionNext]_allVars
  PROVE  ProjectionTypeOK'
<1>1. TypeOK'
  BY StepOfOutbox, TypeStep DEF ProjectionTypeOK
<1>2. CASE AuthStep
  BY <1>1, <1>2 DEF AuthStep, ProjectionTypeOK
<1>3. ASSUME NEW c \in Consumer, Take(c) PROVE ProjectionTypeOK'
  BY <1>1, <1>3, TakeSet DEF Take, ProjectionTypeOK
<1>4. ASSUME NEW c \in Consumer, Upsert(c) PROVE ProjectionTypeOK'
  BY <1>1, <1>4 DEF Upsert, ProjectionTypeOK
<1>5. ASSUME NEW c \in Consumer, AckUpsert(c) PROVE ProjectionTypeOK'
  BY <1>1, <1>5 DEF AckUpsert, Release, ProjectionTypeOK
<1>6. ASSUME NEW c \in Consumer, UpsertThrows(c) PROVE ProjectionTypeOK'
  BY <1>1, <1>6 DEF UpsertThrows, Release, ProjectionTypeOK
<1>7. ASSUME NEW c \in Consumer, Redeliver(c) PROVE ProjectionTypeOK'
  BY <1>1, <1>7 DEF Redeliver, Release, ProjectionTypeOK
<1>8. CASE UNCHANGED <<vars, farmsVars>>
  BY <1>1, <1>8 DEF farmsVars, ProjectionTypeOK
<1>9. QED BY <1>2, <1>3, <1>4, <1>5, <1>6, <1>7, <1>8, ProjectionCases

\* Every variable of the projection keeps its type.
THEOREM ProjectionTypeCorrect == ProjectionSpec => []ProjectionTypeOK
<1>1. ProjectionInit => ProjectionTypeOK
  <2>1. Init => TypeOK
    BY RelayAssumption DEF Init, TypeOK
  <2>2. QED BY <2>1 DEF ProjectionInit, ProjectionTypeOK
<1>2. QED BY <1>1, ProjectionTypeStep, PTL DEF ProjectionSpec
-----------------------------------------------------------------------------
\* Nothing that arrived at farms is ever out of sight.

Tracked(r) == \/ r \in applied \/ r \in discarded
              \/ r \in ToSet(queue)
              \/ \E c \in Consumer : working[c] = r
ArrivedIsTracked == \A r \in Row : sent[r][Farms] > 0 => Tracked(r)
UpsertedIsApplied == \A c \in Consumer : upserted[c] => working[c] \in applied

\* A step of farms loses sight of no row.
LEMMA FarmsKeepsSight ==
  ASSUME ProjectionTypeOK, UpsertedIsApplied, NEW c \in Consumer, Consume(c),
         NEW r \in Row, Tracked(r)
  PROVE  Tracked(r)'
<1>1. CASE Take(c)
  <2>1. ToSet(queue) = ToSet(queue') \cup {working'[c]}
    <3>1. queue \in Seq(Row) /\ Head(queue) \in Row
      BY <1>1, TakeSet DEF ProjectionTypeOK, Take
    <3>2. QED BY <1>1, <3>1, TakeSet DEF ProjectionTypeOK, Take
  <2>2. \A b \in Consumer : working[b] = r => working'[b] = r
    BY <1>1 DEF ProjectionTypeOK, Take, Row
  <2>3. UNCHANGED <<applied, discarded>>
    BY <1>1 DEF Take
  <2>4. QED BY <2>1, <2>2, <2>3 DEF Tracked
<1>2. CASE Upsert(c)
  BY <1>2 DEF Upsert, Tracked
<1>3. CASE AckUpsert(c)
  <2>1. working[c] \in applied /\ UNCHANGED <<queue, applied, discarded>>
    BY <1>3 DEF AckUpsert, UpsertedIsApplied
  <2>2. \A b \in Consumer : b # c => working'[b] = working[b]
    BY <1>3 DEF AckUpsert, Release, ProjectionTypeOK
  <2>3. QED BY <2>1, <2>2 DEF Tracked
<1>4. CASE UpsertThrows(c)
  <2>1. discarded' = discarded \cup {working[c]} /\ UNCHANGED <<queue, applied>>
    BY <1>4 DEF UpsertThrows
  <2>2. \A b \in Consumer : b # c => working'[b] = working[b]
    BY <1>4 DEF UpsertThrows, Release, ProjectionTypeOK
  <2>3. QED BY <2>1, <2>2 DEF Tracked
<1>5. CASE Redeliver(c)
  <2>1. ToSet(queue') = ToSet(queue) \cup {working[c]}
    BY <1>5, PutBackSet DEF Redeliver, ProjectionTypeOK
  <2>2. UNCHANGED <<applied, discarded>>
    BY <1>5 DEF Redeliver
  <2>3. \A b \in Consumer : b # c => working'[b] = working[b]
    BY <1>5 DEF Redeliver, Release, ProjectionTypeOK
  <2>4. QED BY <2>1, <2>2, <2>3 DEF Tracked
<1>6. QED BY <1>1, <1>2, <1>3, <1>4, <1>5 DEF Consume

\* One step of the outbox puts a copy of at most one row on the queues.
LEMMA OneRowArrives ==
  ASSUME TypeOK, [Next]_vars, NEW q \in Row, NEW r \in Row, Arrives(q), Arrives(r)
  PROVE  q = r
<1>1. PICK w \in Relay, p \in Row : /\ pos[w] <= Len(RouteOf(p))
                                    /\ Put(p, RouteOf(p)[pos[w]])
  BY StepOfSent DEF Arrives
<1>2. QED BY <1>1 DEF Arrives, Put, TypeOK

LEMMA ArrivedStep ==
  ASSUME ProjectionTypeOK, ProjectionTypeOK', UpsertedIsApplied, ArrivedIsTracked,
         [ProjectionNext]_allVars
  PROVE  ArrivedIsTracked'
<1> SUFFICES ASSUME NEW r \in Row, sent'[r][Farms] > 0 PROVE Tracked(r)'
  BY DEF ArrivedIsTracked
<1>1. CASE AuthStep
  <2>1. [Next]_vars
    BY StepOfOutbox
  <2>2. /\ UNCHANGED <<working, applied, discarded>>
        /\ ToSet(queue) \subseteq ToSet(queue')
    <3>1. queue \in Seq(Row)
      BY DEF ProjectionTypeOK
    <3>2. UNCHANGED queue \/ \E q \in Row : queue' = Append(queue, q)
      BY <1>1 DEF AuthStep
    <3>3. \A q \in Row : ToSet(Append(queue, q)) = ToSet(queue) \cup {q}
      BY <3>1, PutSet
    <3>4. ToSet(queue) \subseteq ToSet(queue')
      BY <3>2, <3>3
    <3>5. QED BY <1>1, <3>4 DEF AuthStep
  <2>3. CASE Arrives(r)
    <3>1. PICK q \in Row : Arrives(q) /\ queue' = Append(queue, q)
      BY <1>1, <2>3 DEF AuthStep
    <3>2. q = r
      BY <2>1, <2>3, <3>1, OneRowArrives DEF ProjectionTypeOK
    <3>3. queue \in Seq(Row) /\ queue' = Append(queue, r)
      BY <3>1, <3>2 DEF ProjectionTypeOK
    <3>4. ToSet(Append(queue, r)) = ToSet(queue) \cup {r}
      BY <3>3, PutSet
    <3>5. QED BY <3>3, <3>4 DEF Tracked
  <2>4. CASE ~Arrives(r)
    <3>1. Tracked(r)
      BY <2>4 DEF Arrives, ArrivedIsTracked
    <3>2. QED BY <2>2, <3>1 DEF Tracked
  <2>5. QED BY <2>3, <2>4
<1>2. ASSUME NEW c \in Consumer, Consume(c) PROVE Tracked(r)'
  <2>1. UNCHANGED sent
    BY <1>2 DEF Consume, Take, Upsert, AckUpsert, UpsertThrows, Redeliver
  <2>2. Tracked(r)
    BY <2>1 DEF ArrivedIsTracked
  <2>3. QED BY <1>2, <2>2, FarmsKeepsSight
<1>3. CASE UNCHANGED <<vars, farmsVars>>
  BY <1>3 DEF farmsVars, Tracked, ArrivedIsTracked
<1>4. QED BY <1>1, <1>2, <1>3 DEF ProjectionNext, allVars

LEMMA UpsertedStep ==
  ASSUME ProjectionTypeOK, UpsertedIsApplied, [ProjectionNext]_allVars
  PROVE  UpsertedIsApplied'
<1>1. CASE AuthStep \/ UNCHANGED <<vars, farmsVars>>
  BY <1>1 DEF AuthStep, farmsVars, UpsertedIsApplied
<1>2. ASSUME NEW c \in Consumer, NEW b \in Consumer, Consume(c), upserted'[b]
      PROVE  working'[b] \in applied'
  <2>1. CASE Take(c)
    <3>1. b # c \/ ~upserted[c]
      BY <1>2, <2>1 DEF Take, UpsertedIsApplied, ProjectionTypeOK, Row
    <3>2. QED BY <1>2, <2>1, <3>1 DEF Take, UpsertedIsApplied, ProjectionTypeOK
  <2>2. CASE Upsert(c)
    BY <1>2, <2>2 DEF Upsert, UpsertedIsApplied, ProjectionTypeOK
  <2>3. CASE AckUpsert(c) \/ UpsertThrows(c) \/ Redeliver(c)
    <3>1. Release(c) /\ UNCHANGED applied
      BY <2>3 DEF AckUpsert, UpsertThrows, Redeliver
    <3>2. QED BY <1>2, <3>1 DEF Release, UpsertedIsApplied, ProjectionTypeOK
  <2>4. QED BY <1>2, <2>1, <2>2, <2>3 DEF Consume
<1>3. QED BY <1>1, <1>2 DEF ProjectionNext, allVars, farmsVars, UpsertedIsApplied

\* Every state goes to farms, so what reached all its targets is there.
LEMMA FarmsIsATarget ==
  ASSUME TypeOK, NEW r \in Row
  PROVE  Farms \in TargetsOf(r) /\ RouteOf(r) # <<>>
<1>1. pattern[r] \in Pattern /\ RouteOf(r) \in Seq(Target)
  BY RouteOfType DEF TypeOK, RouteOf
<1>2. Farms \in ToSet(RouteOf(r))
  BY <1>1, ProjectionAssumption DEF RouteOf
<1>3. PICK i \in DOMAIN RouteOf(r) : RouteOf(r)[i] = Farms
  BY <1>2 DEF ToSet
<1>4. i \in 1..Len(RouteOf(r))
  BY <1>1, <1>3
<1>5. QED BY <1>3, <1>4 DEF TargetsOf

\* A state that auth's outbox holds as published is applied, discarded or on
\* its way, across two databases and the broker, whatever crashes, whatever
\* is sent twice and however many replicas there are of either service.
THEOREM PublishedStatesAreProjected == ProjectionSpec => []PublishedIsProjected
<1>1. ProjectionInit => UpsertedIsApplied /\ ArrivedIsTracked
  BY ProjectionAssumption DEF ProjectionInit, Init, UpsertedIsApplied, ArrivedIsTracked
<1>2. /\ ProjectionTypeOK /\ ProjectionTypeOK' /\ UpsertedIsApplied /\ ArrivedIsTracked
      /\ [ProjectionNext]_allVars
      => UpsertedIsApplied' /\ ArrivedIsTracked'
  BY UpsertedStep, ArrivedStep
<1>3. ProjectionTypeOK /\ ArrivedIsTracked /\ PublishedReachedAll
      => PublishedIsProjected
  <2>1. SUFFICES ASSUME ProjectionTypeOK, ArrivedIsTracked, PublishedReachedAll,
                        NEW r \in Row, status[r] = "published"
                 PROVE  Tracked(r)
    BY DEF PublishedIsProjected, Tracked
  <2>2. Farms \in Reached(r)
    BY <2>1, FarmsIsATarget DEF PublishedReachedAll, ProjectionTypeOK
  <2>3. QED BY <2>1, <2>2 DEF Reached, ArrivedIsTracked
<1>4. QED
  BY <1>1, <1>2, <1>3, ProjectionTypeCorrect, ProjectionImplementsOutbox,
     PublishedHasReachedAll, PTL DEF ProjectionSpec
-----------------------------------------------------------------------------
\* Undisturbed, with one replica on each side, states arrive in their order.

\* What is deployed of auth and of farms (prefetch 1).
OneOfEach == /\ \A v, w \in Relay : v = w
             /\ \A b, c \in Consumer : b = c

AtFarms(r) == sent[r][Farms] > 0

\* A write of the user starts once the one before it has ended.
WritesTakeTurns ==
  \A q, r \in Row : q < r /\ status[r] # "free" => status[q] \notin {"free", "open"}

\* A poll takes the lowest rows: what a loop has passed has arrived.
PollsInOrder ==
  \A w \in Relay : \A r \in todo[w], q \in Row :
     q < r /\ status[q] = "pending" => q \in todo[w] \/ AtFarms(q)

\* What has arrived is older than what has not.
OldestFirst ==
  \A q, r \in Row : AtFarms(r) /\ ~AtFarms(q) /\ status[q] # "aborted" => r < q

\* The projection, the delivery being handled and the queue, in this order.
InLine ==
  /\ \A r \in Row : Tracked(r) => AtFarms(r)
  /\ projection # 0 => projection \in applied
  /\ \A i, j \in 1..Len(queue) : i < j => queue[i] < queue[j]
  /\ \A i \in 1..Len(queue) : projection <= queue[i]
  /\ \A c \in Consumer : working[c] # 0 =>
        /\ projection <= working[c]
        /\ \A i \in 1..Len(queue) : working[c] < queue[i]

Ordered == faults = 0 => PollsInOrder /\ OldestFirst /\ InLine

LEMMA TurnsStep ==
  ASSUME TypeOK, Ownership, WritesTakeTurns, [ProjectionNext]_allVars
  PROVE  WritesTakeTurns'
<1>1. ASSUME NEW r \in Row, NEW p \in Pattern, UserWrite(r, p)
      PROVE  WritesTakeTurns'
  BY <1>1 DEF UserWrite, Enqueue, WritesTakeTurns, TypeOK
<1>2. ASSUME NEW r \in Row, CommitWrite(r) \/ AbortWrite(r)
      PROVE  WritesTakeTurns'
  BY <1>2 DEF CommitWrite, AbortWrite, WritesTakeTurns, TypeOK
<1>3. ASSUME NEW w \in Relay, CommitDrain(w) PROVE WritesTakeTurns'
  <2>1. \A q \in Row : status'[q] = "published" \/ status'[q] = status[q]
    BY <1>3 DEF CommitDrain
  <2>2. ASSUME NEW q \in Row, NEW r \in Row, q < r, status'[r] # "free"
        PROVE  status'[q] \notin {"free", "open"}
    <3>1. status[r] # "free"
      BY <1>3, <2>2 DEF CommitDrain, Ownership, TypeOK
    <3>2. QED BY <2>1, <2>2, <3>1 DEF WritesTakeTurns
  <2>3. QED BY <2>2 DEF WritesTakeTurns
<1>4. ASSUME UNCHANGED status PROVE WritesTakeTurns'
  BY <1>4 DEF WritesTakeTurns
<1>5. \/ \E r \in Row : \/ \E p \in Pattern : UserWrite(r, p)
                        \/ CommitWrite(r) \/ AbortWrite(r)
      \/ \E w \in Relay : CommitDrain(w)
      \/ UNCHANGED status
  BY ProjectionCases DEF AuthStep, Auth, Drain, BeginDrain, Handle, SkipUnrouted, Emit,
     EmitFails, Mark, LoseSession, OrphanStops, Crash, Take, Upsert, AckUpsert,
     UpsertThrows, Redeliver
<1>6. QED BY <1>1, <1>2, <1>3, <1>4, <1>5

\* A poll that takes a row takes the candidates before it.
LEMMA LowestIsLower ==
  ASSUME NEW S, S \subseteq Row, NEW r \in Lowest(S), NEW q \in S, q < r
  PROVE  q \in Lowest(S)
<1> DEFINE Before(x) == {y \in S : y < x}
<1>1. IsFiniteSet(Row)
  BY RelayAssumption, FS_Interval DEF Row
<1>2. IsFiniteSet(Before(r)) /\ Before(q) \subseteq Before(r)
  <2>1. Before(r) \subseteq Row
    OBVIOUS
  <2>2. r \in S
    BY DEF Lowest
  <2>3. \A y \in S : y < q => y < r
    BY <2>2 DEF Row
  <2>4. QED BY <1>1, <2>1, <2>3, FS_Subset
<1>3. /\ Cardinality(Before(q)) <= Cardinality(Before(r))
      /\ Cardinality(Before(q)) \in Nat /\ Cardinality(Before(r)) \in Nat
  BY <1>2, FS_Subset, FS_CardinalityType
<1>4. Cardinality(Before(r)) < BatchSize
  BY DEF Lowest
<1>5. QED BY <1>3, <1>4, RelayAssumption DEF Lowest

\* Once at farms, always.
LEMMA AtFarmsStays ==
  ASSUME TypeOK, [Next]_vars, NEW r \in Row, AtFarms(r)
  PROVE  AtFarms(r)'
<1>1. Reached(r) \subseteq Reached(r)' /\ Farms \in Reached(r)
  BY ReachedGrows, ProjectionAssumption DEF AtFarms, Reached
<1>2. QED BY <1>1 DEF AtFarms, Reached

\* Without a fault there is one way a loop leaves a row.
LEMMA PollsStep ==
  ASSUME IInv, WritesTakeTurns, PollsInOrder, OneOfEach, [Next]_vars, faults' = faults
  PROVE  PollsInOrder'
<1> USE DEF IInv
<1> SUFFICES ASSUME NEW w \in Relay, NEW r \in todo'[w], NEW q \in Row, q < r,
                    status'[q] = "pending"
             PROVE  q \in todo'[w] \/ AtFarms(q)'
  BY DEF PollsInOrder
<1>1. r \in todo[w] /\ q \in todo[w] /\ UNCHANGED todo => q \in todo'[w]
  OBVIOUS
<1>2. ASSUME status[q] = "pending", r \in todo[w], q \in todo[w] => q \in todo'[w]
      PROVE  q \in todo'[w] \/ AtFarms(q)'
  BY <1>2, AtFarmsStays DEF PollsInOrder
<1>3. ASSUME NEW p \in Row,
             (\E x \in Pattern : Enqueue(p, x)) \/ CommitWrite(p) \/ AbortWrite(p)
      PROVE  q \in todo'[w] \/ AtFarms(q)'
  <2>1. UNCHANGED todo /\ r \in Row /\ r \in Accepted
    BY <1>3 DEF Enqueue, CommitWrite, AbortWrite, Ownership, TypeOK
  <2>2. status[q] \notin {"free", "open"}
    BY <2>1 DEF WritesTakeTurns, Accepted
  <2>3. status[q] = "pending"
    BY <1>3, <2>2 DEF Enqueue, CommitWrite, AbortWrite, TypeOK
  <2>4. QED BY <1>2, <2>1, <2>3
<1>4. CASE FlipSwitch \/ UNCHANGED vars
  BY <1>2, <1>4 DEF FlipSwitch
<1>5. ASSUME NEW v \in Relay, BeginDrain(v) PROVE q \in todo'[w] \/ AtFarms(q)'
  <2>1. v = w /\ todo'[w] = Lowest(Candidates) /\ status[q] = "pending"
    BY <1>5 DEF BeginDrain, OneOfEach, TypeOK
  <2>2. Locked = {}
    BY <1>5 DEF BeginDrain, OneOfEach, Ownership, Locked
  <2>3. q \in Candidates /\ Candidates \subseteq Row
    BY <2>1, <2>2 DEF Candidates
  <2>4. QED BY <2>1, <2>3, LowestIsLower
<1>6. ASSUME NEW v \in Relay, CommitDrain(v) \/ OrphanStops(v) PROVE FALSE
  BY <1>6 DEF CommitDrain, OrphanStops, EndDrain, OneOfEach, TypeOK
<1>7. ASSUME NEW v \in Relay, NEW p \in Row, SkipUnrouted(v, p) PROVE FALSE
  BY <1>7, FarmsIsATarget DEF SkipUnrouted
<1>8. ASSUME NEW v \in Relay, NEW p \in Row, Emit(v, p)
      PROVE  q \in todo'[w] \/ AtFarms(q)'
  BY <1>2, <1>8 DEF Emit
<1>9. ASSUME NEW v \in Relay, NEW p \in Row, Mark(v, p)
      PROVE  q \in todo'[w] \/ AtFarms(q)'
  <2>1. v = w /\ todo'[w] = todo[w] \ {p} /\ status[q] = "pending" /\ UNCHANGED sent
    BY <1>9 DEF Mark, NextRow, OneOfEach, TypeOK
  <2>2. CASE q # p
    BY <1>2, <2>1, <2>2
  <2>3. CASE q = p
    <3>1. TargetsOf(p) \subseteq Reached(p)
      <4>1. \A i \in 1..Len(RouteOf(p)) : i < pos[v] => RouteOf(p)[i] \in Reached(p)
        BY <1>9 DEF Mark, EmittedSoFar, EmittedBy, IsCurrent
      <4>2. pos[v] > Len(RouteOf(p)) /\ pos[v] \in Nat /\ Len(RouteOf(p)) \in Nat
        BY <1>9, RouteOfType DEF Mark, FullyEmitted, TypeOK
      <4>3. QED BY <4>1, <4>2 DEF TargetsOf
    <3>2. AtFarms(q)
      BY <2>3, <3>1, FarmsIsATarget DEF Reached, AtFarms
    <3>3. QED BY <2>1, <3>2 DEF AtFarms
  <2>4. QED BY <2>2, <2>3
<1>10. ASSUME NEW v \in Relay, NEW p \in Row,
              LoseSession(v) \/ Crash(v) \/ EmitFails(v, p)
       PROVE  FALSE
  BY <1>10 DEF LoseSession, Crash, EmitFails, TypeOK
<1>11. QED
  BY <1>3, <1>4, <1>5, <1>6, <1>7, <1>8, <1>9, <1>10, NextCases

\* What a step puts on the farms queue is the oldest row that is not there yet.
LEMMA NextInLine ==
  ASSUME IInv, CopiesNeedFaults', WritesTakeTurns, PollsInOrder, [Next]_vars,
         faults' = 0, NEW p \in Row, Arrives(p), NEW q \in Row, q # p, ~AtFarms(q),
         status[q] # "aborted"
  PROVE  p < q
<1> USE DEF IInv
<1>1. PICK w \in Relay, r \in Row : IsCurrent(w, r) /\ Put(r, RouteOf(r)[pos[w]])
  BY StepOfSent DEF Arrives
<1>2. r = p
  BY <1>1 DEF Arrives, Put, TypeOK
<1>3. status[p] # "free"
  BY <1>1, <1>2 DEF IsCurrent, Ownership, Accepted
<1>4. ASSUME q < p PROVE FALSE
  <2>1. status[q] \notin {"free", "open", "aborted"}
    BY <1>3, <1>4 DEF WritesTakeTurns
  <2>2. status[q] # "published"
    BY FarmsIsATarget DEF PublishedReachedAll, Reached, AtFarms
  <2>3. status[q] = "pending"
    BY <2>1, <2>2 DEF TypeOK
  <2>4. q \in todo[w]
    BY <1>1, <1>2, <1>4, <2>3 DEF PollsInOrder, IsCurrent
  <2>5. QED BY <1>1, <1>2, <1>4, <2>4 DEF IsCurrent, Row
<1>5. QED BY <1>4 DEF Row

\* Without a fault a row arrives at farms once.
LEMMA ArrivesOnce ==
  ASSUME IInv, IInv', CopiesNeedFaults', [Next]_vars, faults' = 0,
         NEW p \in Row, Arrives(p)
  PROVE  ~AtFarms(p) /\ AtFarms(p)' /\ status[p] # "aborted"
<1> USE DEF IInv
<1>1. PICK w \in Relay, r \in Row : /\ IsCurrent(w, r)
                                    /\ pos[w] <= Len(RouteOf(r))
                                    /\ Put(r, RouteOf(r)[pos[w]])
  BY StepOfSent DEF Arrives
<1>2. r = p
  BY <1>1 DEF Arrives, Put, TypeOK
<1>3. PICK t \in Target : Put(p, t)
  BY <1>1, <1>2, RouteOfType DEF TypeOK
<1>4. sent'[p][Farms] = IF Farms = t THEN sent[p][Farms] + 1 ELSE sent[p][Farms]
  BY <1>3, PutType, ProjectionAssumption
<1>5. sent'[p][Farms] = sent[p][Farms] + 1
  BY <1>4 DEF Arrives
<1>6. sent[p][Farms] \in Nat /\ sent'[p][Farms] <= 1
  BY ProjectionAssumption DEF TypeOK, CopiesNeedFaults
<1>7. status[p] # "aborted"
  BY <1>1, <1>2 DEF IsCurrent, Ownership, Accepted
<1>8. QED BY <1>5, <1>6, <1>7 DEF AtFarms

LEMMA OldestStep ==
  ASSUME IInv, IInv', CopiesNeedFaults', WritesTakeTurns, PollsInOrder, OldestFirst,
         [Next]_vars, faults' = 0
  PROVE  OldestFirst'
<1> SUFFICES ASSUME NEW q \in Row, NEW r \in Row, AtFarms(r)', ~AtFarms(q)',
                    status'[q] # "aborted"
             PROVE  r < q
  BY DEF OldestFirst
<1>1. ~AtFarms(q) /\ q # r
  BY AtFarmsStays DEF IInv
<1>2. status[q] # "aborted"
  BY NextCases DEF IInv, TypeOK, Enqueue, CommitWrite, AbortWrite, FlipSwitch, BeginDrain,
     CommitDrain, LoseSession, OrphanStops, Crash, SkipUnrouted, Emit, EmitFails, Mark,
     Ownership
<1>3. CASE Arrives(r)
  BY <1>1, <1>2, <1>3, NextInLine
<1>4. CASE ~Arrives(r)
  <2>1. AtFarms(r)
    BY <1>4 DEF Arrives, AtFarms
  <2>2. QED BY <1>1, <1>2, <2>1 DEF OldestFirst
<1>5. QED BY <1>3, <1>4

\* A step of auth puts at most one state behind all that arrived before.
LEMMA LineGrows ==
  ASSUME ProjectionTypeOK, IInv, IInv', CopiesNeedFaults', OldestFirst, InLine,
         AuthStep, faults' = 0
  PROVE  InLine'
<1>1. [Next]_vars
  BY StepOfOutbox DEF ProjectionNext
<1>2. /\ UNCHANGED <<working, projection, applied, discarded>>
      /\ queue \in Seq(Row)
  BY DEF AuthStep, ProjectionTypeOK
<1>3. \A r \in Row : AtFarms(r) => AtFarms(r)'
  BY <1>1, AtFarmsStays DEF ProjectionTypeOK
<1>4. CASE UNCHANGED queue
  <2>1. \A r \in Row : Tracked(r)' => Tracked(r)
    BY <1>2, <1>4 DEF Tracked
  <2>2. QED BY <1>2, <1>3, <1>4, <2>1 DEF InLine
<1>5. ASSUME NEW p \in Row, Arrives(p), queue' = Append(queue, p)
      PROVE  InLine'
  <2>1. ~AtFarms(p) /\ AtFarms(p)' /\ status[p] # "aborted"
    BY <1>1, <1>5, ArrivesOnce
  <2>2. \A r \in Row : Tracked(r) => r < p
    BY <2>1 DEF InLine, OldestFirst
  <2>3. \A r \in Row : Tracked(r)' => Tracked(r) \/ r = p
    <3>1. ToSet(queue') = ToSet(queue) \cup {p}
      BY <1>2, <1>5, PutSet
    <3>2. QED BY <1>2, <3>1 DEF Tracked
  <2>4. /\ Len(queue') = Len(queue) + 1 /\ queue'[Len(queue) + 1] = p
        /\ Len(queue) \in Nat
        /\ \A i \in 1..Len(queue) : queue'[i] = queue[i] /\ queue[i] < p
    <3>1. \A i \in 1..Len(queue) : queue[i] \in Row /\ queue[i] \in ToSet(queue)
      BY <1>2 DEF ToSet
    <3>2. \A i \in 1..Len(queue) : queue[i] < p
      BY <2>2, <3>1 DEF Tracked
    <3>3. QED BY <1>2, <1>5, <3>2
  <2>5. projection <= p
    <3>1. projection # 0 => projection \in Row /\ Tracked(projection)
      BY DEF InLine, ProjectionTypeOK, Tracked
    <3>2. CASE projection # 0
      BY <2>2, <3>1, <3>2 DEF Row
    <3>3. CASE projection = 0
      BY <3>3 DEF Row
    <3>4. QED BY <3>2, <3>3
  <2>6. \A c \in Consumer : working[c] # 0 => working[c] < p
    BY <2>2 DEF Tracked, ProjectionTypeOK
  <2>7. \A i \in 1..Len(queue') : i \in 1..Len(queue) \/ i = Len(queue) + 1
    BY <2>4
  <2>8. \A r \in Row : Tracked(r)' => AtFarms(r)'
    BY <1>3, <2>1, <2>3 DEF InLine
  <2>9. \A i, j \in 1..Len(queue') : i < j => queue'[i] < queue'[j]
    <3>1. SUFFICES ASSUME NEW i \in 1..Len(queue'), NEW j \in 1..Len(queue'), i < j
                   PROVE  queue'[i] < queue'[j]
      OBVIOUS
    <3>2. i \in 1..Len(queue)
      BY <2>4, <2>7, <3>1
    <3>3. CASE j \in 1..Len(queue)
      BY <2>4, <3>1, <3>2, <3>3 DEF InLine
    <3>4. CASE j = Len(queue) + 1
      BY <2>4, <3>2, <3>4
    <3>5. QED BY <2>7, <3>3, <3>4
  <2>10. \A i \in 1..Len(queue') : projection' <= queue'[i]
    BY <1>2, <2>4, <2>5, <2>7 DEF InLine
  <2>11. ASSUME NEW c \in Consumer, working'[c] # 0
         PROVE  /\ projection' <= working'[c]
                /\ \A i \in 1..Len(queue') : working'[c] < queue'[i]
    BY <1>2, <2>4, <2>6, <2>7, <2>11 DEF InLine
  <2>12. projection' # 0 => projection' \in applied'
    BY <1>2 DEF InLine
  <2>13. QED BY <2>8, <2>9, <2>10, <2>11, <2>12 DEF InLine
<1>6. QED BY <1>4, <1>5 DEF AuthStep

\* The only consumer takes the head and puts it back there.
LEMMA LineMoves ==
  ASSUME ProjectionTypeOK, ProjectionTypeOK', UpsertedIsApplied, InLine, OneOfEach,
         NEW c \in Consumer, Consume(c)
  PROVE  InLine' /\ projection' >= projection
<1>1. UNCHANGED sent
  BY DEF Consume, Take, Upsert, AckUpsert, UpsertThrows, Redeliver
<1>2. \A b \in Consumer : b = c
  BY DEF OneOfEach
<1>3. \A r \in Row : AtFarms(r)' <=> AtFarms(r)
  BY <1>1 DEF AtFarms
<1>4. queue \in Seq(Row) /\ projection \in Row \cup {0} /\ working[c] \in Row \cup {0}
  BY DEF ProjectionTypeOK
<1>5. CASE Take(c)
  <2>1. /\ queue # <<>> /\ queue' = Tail(queue) /\ working'[c] = Head(queue)
        /\ UNCHANGED <<projection, applied, discarded>> /\ working[c] = 0
    BY <1>5 DEF Take, ProjectionTypeOK
  <2>2. /\ Len(queue) \in Nat /\ Len(queue) >= 1 /\ Len(queue') = Len(queue) - 1
        /\ Head(queue) = queue[1]
        /\ \A i \in 1..Len(queue') : queue'[i] = queue[i + 1] /\ i + 1 \in 1..Len(queue)
    BY <1>4, <2>1
  <2>3. ToSet(queue) = ToSet(queue') \cup {working'[c]}
    BY <1>4, <2>1, TakeSet
  <2>4. \A r \in Row : Tracked(r)' => Tracked(r)
    BY <1>2, <2>1, <2>3 DEF Tracked
  <2>5. \A i, j \in 1..Len(queue') : i < j => queue'[i] < queue'[j]
    BY <2>2 DEF InLine
  <2>6. 1 \in 1..Len(queue)
    BY <2>2
  <2>7. \A i \in 1..Len(queue') : working'[c] < queue'[i] /\ projection' <= queue'[i]
    BY <2>1, <2>2, <2>6 DEF InLine
  <2>8. projection' <= working'[c]
    BY <2>1, <2>2, <2>6 DEF InLine
  <2>9. InLine'
    BY <1>2, <1>3, <2>1, <2>4, <2>5, <2>7, <2>8 DEF InLine
  <2>10. QED BY <1>4, <2>1, <2>9 DEF Row
<1>6. CASE Upsert(c)
  <2>1. /\ working[c] # 0 /\ projection' = working[c]
        /\ applied' = applied \cup {working[c]}
        /\ UNCHANGED <<queue, working, discarded>>
    BY <1>6 DEF Upsert
  <2>2. \A r \in Row : Tracked(r)' => Tracked(r)
    BY <2>1 DEF Tracked
  <2>3. \A i \in 1..Len(queue) : working[c] <= queue[i]
    <3>1. \A i \in 1..Len(queue) : queue[i] \in Row /\ working[c] < queue[i]
      BY <1>4, <2>1 DEF InLine
    <3>2. QED BY <1>4, <3>1 DEF Row
  <2>4. working[c] <= working[c]
    BY <1>4 DEF Row
  <2>5. InLine'
    BY <1>2, <1>3, <2>1, <2>2, <2>3, <2>4 DEF InLine
  <2>6. QED BY <1>4, <2>1, <2>5 DEF InLine, Row
<1>7. CASE AckUpsert(c) \/ UpsertThrows(c)
  <2>1. /\ working'[c] = 0 /\ UNCHANGED <<queue, projection, applied>>
        /\ discarded' \subseteq discarded \cup {working[c]}
    BY <1>7 DEF AckUpsert, UpsertThrows, Release, ProjectionTypeOK
  <2>2. \A r \in Row : Tracked(r)' => Tracked(r)
    BY <1>2, <2>1 DEF Tracked, Row
  <2>3. InLine'
    BY <1>2, <1>3, <2>1, <2>2 DEF InLine
  <2>4. QED BY <1>4, <2>1, <2>3 DEF Row
<1>8. CASE Redeliver(c)
  <2>1. /\ working[c] # 0 /\ working'[c] = 0 /\ queue' = <<working[c]>> \o queue
        /\ UNCHANGED <<projection, applied, discarded>>
    BY <1>8 DEF Redeliver, Release, ProjectionTypeOK
  <2>2. ToSet(queue') = ToSet(queue) \cup {working[c]}
    BY <1>4, <2>1, PutBackSet
  <2>3. \A r \in Row : Tracked(r)' => Tracked(r)
    BY <1>2, <2>1, <2>2 DEF Tracked, Row
  <2>4. /\ Len(queue) \in Nat /\ Len(queue') = Len(queue) + 1 /\ queue'[1] = working[c]
        /\ \A i \in 1..Len(queue) : queue'[i + 1] = queue[i]
    BY <1>4, <2>1
  <2>5. \A i \in 1..Len(queue') :
           i = 1 \/ (i - 1 \in 1..Len(queue) /\ queue'[i] = queue[i - 1])
    <3>1. \A i \in 1..Len(queue') :
             i = 1 \/ (i - 1 \in 1..Len(queue) /\ i = (i - 1) + 1)
      BY <2>4
    <3>2. QED BY <2>4, <3>1
  <2>6. ASSUME NEW i \in 1..Len(queue'), NEW j \in 1..Len(queue'), i < j
        PROVE  queue'[i] < queue'[j]
    <3>1. j - 1 \in 1..Len(queue) /\ queue'[j] = queue[j - 1]
      BY <2>5, <2>6
    <3>2. CASE i = 1
      BY <2>1, <2>4, <3>1, <3>2 DEF InLine
    <3>3. CASE i - 1 \in 1..Len(queue) /\ queue'[i] = queue[i - 1]
      BY <2>6, <3>1, <3>3 DEF InLine
    <3>4. QED BY <2>5, <3>2, <3>3
  <2>7. \A i \in 1..Len(queue') : projection' <= queue'[i]
    BY <2>1, <2>4, <2>5 DEF InLine
  <2>8. InLine'
    BY <1>2, <1>3, <2>1, <2>3, <2>6, <2>7 DEF InLine
  <2>9. QED BY <1>4, <2>1, <2>8 DEF Row
<1>9. QED BY <1>5, <1>6, <1>7, <1>8 DEF Consume

\* As long as nothing is re-sent, and with one replica on each side, the
\* projection never goes back to an older state, however often farms dies
\* with a delivery unacked or drops an event.
THEOREM ProjectionNeverGoesBack == OneOfEach => (ProjectionSpec => NeverGoesBack)
<1> SUFFICES ASSUME OneOfEach PROVE ProjectionSpec => NeverGoesBack
  OBVIOUS
<1>1. ProjectionInit => WritesTakeTurns /\ Ordered /\ UpsertedIsApplied
  <2>1. SUFFICES ASSUME ProjectionInit
                 PROVE  WritesTakeTurns /\ Ordered /\ UpsertedIsApplied
    OBVIOUS
  <2>2. WritesTakeTurns /\ PollsInOrder /\ UpsertedIsApplied
    BY <2>1 DEF ProjectionInit, Init, WritesTakeTurns, PollsInOrder, UpsertedIsApplied
  <2>3. \A r \in Row : ~AtFarms(r)
    BY <2>1, ProjectionAssumption DEF ProjectionInit, Init, AtFarms
  <2>4. ToSet(queue) = {} /\ Len(queue) = 0
    BY <2>1 DEF ProjectionInit, ToSet
  <2>5. \A r \in Row : ~Tracked(r)
    BY <2>1, <2>4 DEF ProjectionInit, Tracked, Row
  <2>6. InLine
    BY <2>1, <2>4, <2>5 DEF ProjectionInit, InLine
  <2>7. QED BY <2>2, <2>3, <2>6 DEF Ordered, OldestFirst
<1>2. ASSUME IInv, IInv', ProjectionTypeOK, ProjectionTypeOK', CopiesNeedFaults',
             WritesTakeTurns, Ordered, UpsertedIsApplied, [ProjectionNext]_allVars
      PROVE  Ordered' /\ (faults = 0 => projection' >= projection)
  <2>1. [Next]_vars
    BY <1>2, StepOfOutbox
  <2>2. faults' >= faults /\ faults \in Nat /\ faults' \in Nat
    BY <1>2, <2>1, NextCases DEF IInv, TypeOK, Enqueue, CommitWrite, AbortWrite,
       FlipSwitch, BeginDrain, CommitDrain, LoseSession, OrphanStops, Crash, SkipUnrouted,
       Emit, EmitFails, Mark
  <2>3. CASE faults' = 0
    <3>1. faults = 0 /\ PollsInOrder /\ OldestFirst /\ InLine
      BY <1>2, <2>2, <2>3 DEF Ordered
    <3>2. PollsInOrder' /\ OldestFirst'
      BY <1>2, <2>1, <2>3, <3>1, PollsStep, OldestStep
    <3>3. InLine' /\ projection' >= projection
      <4>1. CASE AuthStep
        <5>1. InLine'
          BY <1>2, <2>3, <3>1, <4>1, LineGrows
        <5>2. QED BY <1>2, <4>1, <5>1 DEF AuthStep, ProjectionTypeOK, Row
      <4>2. ASSUME NEW c \in Consumer, Consume(c) PROVE InLine' /\ projection' >= projection
        BY <1>2, <3>1, <4>2, LineMoves
      <4>3. CASE UNCHANGED allVars
        BY <1>2, <3>1, <4>3 DEF allVars, farmsVars, InLine, Tracked, AtFarms,
           ProjectionTypeOK, Row
      <4>4. QED BY <1>2, <4>1, <4>2, <4>3 DEF ProjectionNext
    <3>4. QED BY <3>2, <3>3 DEF Ordered
  <2>4. CASE faults' # 0
    <3>1. Ordered'
      BY <2>4 DEF Ordered
    <3>2. faults = 0 => UNCHANGED projection
      <4>1. faults' # faults => AuthStep
        BY <1>2, ProjectionCases DEF Take, Upsert, AckUpsert, UpsertThrows, Redeliver
      <4>2. QED BY <2>4, <4>1 DEF AuthStep
    <3>3. QED BY <1>2, <3>1, <3>2 DEF ProjectionTypeOK, Row
  <2>5. QED BY <2>3, <2>4
<1>3. IInv /\ ProjectionTypeOK /\ WritesTakeTurns /\ [ProjectionNext]_allVars
      => WritesTakeTurns'
  BY TurnsStep DEF IInv
<1>4. ProjectionTypeOK /\ UpsertedIsApplied /\ [ProjectionNext]_allVars
      => UpsertedIsApplied'
  BY UpsertedStep
<1>5. QED
  BY <1>1, <1>2, <1>3, <1>4, ProjectionTypeCorrect, ProjectionImplementsOutbox,
     InvariantHolds, CopiesTakeFaults, PTL DEF ProjectionSpec, NeverGoesBack

\* What converges when nothing is re-sent.  EventuallyConverged says that a
\* committed state is shown in the end; this is the part of it that is safety.
PublishedIsShown ==
  Undisturbed => \A r \in Row : status[r] = "published" =>
    \/ r <= projection
    \/ r \in ToSet(queue)
    \/ \E c \in Consumer : working[c] = r

NewestIsShown == faults = 0 => \A r \in applied : r <= projection

LEMMA AppliedStep ==
  ASSUME ProjectionTypeOK, ProjectionTypeOK', [ProjectionNext]_allVars
  PROVE  /\ faults' = 0 => faults = 0
         /\ applied' \subseteq applied \cup {projection'}
<1>1. faults' = 0 => faults = 0
  BY StepOfOutbox, NextCases DEF ProjectionTypeOK, TypeOK, Enqueue, CommitWrite,
     AbortWrite, FlipSwitch, BeginDrain, CommitDrain, LoseSession, OrphanStops, Crash,
     SkipUnrouted, Emit, EmitFails, Mark
<1>2. applied' \subseteq applied \cup {projection'}
  BY ProjectionCases
  DEF AuthStep, Take, Upsert, AckUpsert, UpsertThrows, Redeliver, allVars, farmsVars
<1>3. QED BY <1>1, <1>2

\* With one replica of each service and nothing re-sent or thrown away, the
\* projection shows every published state of the user, or a newer one, except for
\* those that are still on their way: with the queue empty it is up to date.
THEOREM PublishedStatesAreShown ==
  OneOfEach => (ProjectionSpec => []PublishedIsShown)
<1> SUFFICES ASSUME OneOfEach PROVE ProjectionSpec => []PublishedIsShown
  OBVIOUS
<1>1. ProjectionInit => NewestIsShown
  BY DEF ProjectionInit, NewestIsShown
<1>2. /\ ProjectionTypeOK /\ ProjectionTypeOK' /\ NewestIsShown
      /\ [ProjectionNext]_allVars /\ [faults = 0 => projection' >= projection]_projection
      => NewestIsShown'
  <2> SUFFICES ASSUME ProjectionTypeOK, ProjectionTypeOK', NewestIsShown,
                      [ProjectionNext]_allVars,
                      [faults = 0 => projection' >= projection]_projection,
                      faults' = 0, NEW r \in applied'
               PROVE  r <= projection'
    BY DEF NewestIsShown
  <2>1. /\ faults = 0 /\ r \in applied \cup {projection'}
        /\ projection \in Nat /\ projection' \in Nat /\ r \in Nat
    BY AppliedStep, RelayAssumption DEF ProjectionTypeOK, Row
  <2>2. projection' >= projection
    BY <2>1
  <2>3. CASE r = projection'
    BY <2>1, <2>3
  <2>4. CASE r \in applied
    <3>1. r <= projection
      BY <2>1, <2>4 DEF NewestIsShown
    <3>2. QED BY <2>1, <2>2, <3>1
  <2>5. QED BY <2>1, <2>3, <2>4
<1>3. PublishedIsProjected /\ NewestIsShown => PublishedIsShown
  BY DEF PublishedIsProjected, NewestIsShown, PublishedIsShown, Undisturbed
<1>4. QED
  BY <1>1, <1>2, <1>3, ProjectionTypeCorrect, ProjectionNeverGoesBack,
     PublishedStatesAreProjected, PTL DEF ProjectionSpec, NeverGoesBack
=============================================================================
