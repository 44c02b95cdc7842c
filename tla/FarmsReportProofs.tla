--------------------------- MODULE FarmsReportProofs ---------------------------
(***************************************************************************)
(* For any tree of rows, users, requests, replicas and faults: whatever is   *)
(* written, projected, cached or expires while a report is read, a row that   *)
(* stood all along is on the sheet, a farmer sees his own rows, only who was  *)
(* shown as an admin gets all of them, and known owners are joined.           *)
(*                                                                         *)
(* Drafts and cached reports satisfy the same condition, Good, for the scope  *)
(* of their key; a draft being read satisfies what it will have become by     *)
(* the end of the queries that are left.                                      *)
(***************************************************************************)
EXTENDS FarmsReport, RmqConsumerProofs

USE DEF broker, history, rmqVars, reportVars

\* Every step of the service is a step of the consumer, or leaves it alone.
LEMMA StepOfConsumer == [Next]_vars => [RmqNext]_rmqVars
<1> SUFFICES ASSUME [Next]_vars PROVE [RmqNext]_rmqVars
  OBVIOUS
<1>1. CASE Deliveries /\ UNCHANGED reportVars
  BY <1>1 DEF Deliveries, RmqNext, Transport
<1>2. ASSUME NEW x \in Node, Insert(x) \/ Delete(x) PROVE UNCHANGED rmqVars
  BY <1>2 DEF Insert, Delete, Write
<1>3. ASSUME NEW s \in Scope, Expire(s) PROVE UNCHANGED rmqVars
  BY <1>3 DEF Expire
<1>4. ASSUME NEW k \in Slot, ProjectUser(k) \/ GenerateReport(k) \/ Fails(k)
      PROVE  HandlerReturns(k) \/ HandlerThrows(k) \/ UNCHANGED rmqVars
  BY <1>4 DEF ProjectUser, GenerateReport, Fails, Allow, Refuse, CacheHit, CacheMiss,
     Query, LoadOwners, Finish
<1>5. ASSUME NEW k \in Slot, Around(k) PROVE [RmqNext]_rmqVars
  BY <1>5 DEF Around, RmqNext
<1>6. CASE UNCHANGED vars
  BY <1>6 DEF vars
<1>7. QED BY <1>1, <1>2, <1>3, <1>4, <1>5, <1>6 DEF Next, RmqNext

\* The service implements the consumer.
THEOREM ReportsImplementConsumer == Spec => RmqSpec
<1>1. Init => RmqInit
  BY DEF Init
<1>2. QED BY <1>1, StepOfConsumer, PTL DEF Spec, RmqSpec
-----------------------------------------------------------------------------
\* The tree of rows.

LEMMA ParentKinds ==
  /\ ParentKind["crop"] = "farm" /\ ParentKind["activity"] = "crop"
  /\ ParentKind["harvest"] = "crop"
  /\ DOMAIN ParentKind = {"crop", "activity", "harvest"}
  BY DEF ParentKind

LEMMA Parents ==
  ASSUME NEW x \in Node
  PROVE  /\ KindOf[x] \in Kind
         /\ KindOf[x] = "farm" => ParentOf[x] \in User
         /\ KindOf[x] # "farm" => ParentOf[x] \in Node
         /\ KindOf[x] = "crop" => KindOf[ParentOf[x]] = "farm"
         /\ KindOf[x] \in {"activity", "harvest"} => KindOf[ParentOf[x]] = "crop"
  BY ReportAssumption, ParentKinds

LEMMA Ancestors ==
  ASSUME NEW x \in Node
  PROVE  /\ FarmOf(x) \in Node /\ KindOf[FarmOf(x)] = "farm"
         /\ ParentOf[FarmOf(x)] = Owner(x) /\ Owner(FarmOf(x)) = Owner(x)
         /\ Owner(x) \in User
         /\ KindOf[x] = "farm" => FarmOf(x) = x
         /\ KindOf[x] # "farm" => /\ FarmOf(ParentOf[x]) = FarmOf(x)
                                  /\ Owner(ParentOf[x]) = Owner(x)
<1>1. CASE KindOf[x] = "farm"
  BY <1>1, Parents DEF FarmOf, Owner
<1>2. CASE KindOf[x] = "crop"
  BY <1>2, Parents DEF FarmOf, Owner
<1>3. CASE KindOf[x] \in {"activity", "harvest"}
  BY <1>3, Parents DEF FarmOf, Owner
<1>4. QED BY <1>1, <1>2, <1>3, Parents DEF Kind

LEMMA FarmIsThere ==
  ASSUME NEW tree \in SUBSET Node, Closed(tree), NEW x \in tree
  PROVE  FarmOf(x) \in tree
<1>1. CASE KindOf[x] = "farm"
  BY <1>1, Ancestors
<1>2. CASE KindOf[x] # "farm"
  <2>1. ParentOf[x] \in tree /\ FarmOf(ParentOf[x]) = FarmOf(x)
    BY <1>2, Ancestors DEF Closed
  <2>2. CASE KindOf[ParentOf[x]] = "farm"
    BY <2>1, <2>2, Ancestors
  <2>3. CASE KindOf[ParentOf[x]] # "farm"
    <3>1. KindOf[x] \in {"activity", "harvest"} /\ KindOf[ParentOf[x]] = "crop"
      BY <1>2, <2>3, Parents DEF Kind
    <3>2. ParentOf[ParentOf[x]] \in tree /\ FarmOf(x) = ParentOf[ParentOf[x]]
      BY <2>1, <3>1 DEF Closed, FarmOf
    <3>3. QED BY <3>2
  <2>4. QED BY <2>2, <2>3
<1>3. QED BY <1>1, <1>2
-----------------------------------------------------------------------------
\* The inductive invariant.

Projected == {u \in User : projected[u] # Unknown}
Fits(x, s) == s = "all" \/ Owner(x) = s

\* A finished report of scope s.
Good(r, s) == /\ Closed(r.tree)
              /\ \A x \in r.tree : Fits(x, s)
              /\ r.kept \subseteq r.tree
              /\ s = "all" => r.known \subseteq r.named

\* A report being read: what stood all along has been read, or will be.
Loading(k) ==
  /\ Closed(report(k).tree) /\ Closed(report(k).kept)
  /\ \A x \in report(k).tree \cup report(k).kept : Fits(x, ScopeOf(k))
  /\ report(k).kept \subseteq stored
  /\ \A x \in report(k).kept : KindOf[x] \in work[k].todo \/ x \in report(k).tree
  /\ report(k).known \subseteq Projected

Joining(k) == /\ ForAll(k)
              /\ Closed(report(k).tree)
              /\ report(k).kept \subseteq report(k).tree
              /\ report(k).known \subseteq Projected

Drafted(k) ==
  /\ step[k] = "loading" => Loading(k)
  /\ step[k] = "joining" => Joining(k)
  /\ step[k] \in {"built", "replied"} => Good(report(k), ScopeOf(k))

\* A handler past its check runs a request that passed it.
Knows(k) ==
  step[k] # "start" =>
    /\ ~IsIdle(k) /\ req(k) \in Rpc
    /\ step[k] = "replied" <=> ~At(k, "running")
    /\ IF ForAll(k) THEN req(k).user \in admins ELSE req(k).of = req(k).user

AdminsSeen == \A u \in User : projected[u] = "admin" => u \in admins
Cached == \A s \in Scope : cache[s] # Nothing => Good(cache[s], s)
Slots == \A k \in Slot : Knows(k) /\ Drafted(k)

IInv == TypeOK /\ Slots /\ AdminsSeen /\ Cached

\* A request that is no event.
LEMMA ReqType ==
  ASSUME TypeOK, NEW k \in Slot, req(k) \in Rpc
  PROVE  /\ req(k).user \in User /\ ScopeOf(k) \in Scope
         /\ ForAll(k) => ScopeOf(k) = "all"
         /\ ~ForAll(k) => req(k).of \in User /\ ScopeOf(k) = req(k).of /\ ScopeOf(k) # "all"
<1>1. req(k) \in AdminRequest \cup FarmerRequest
  BY ReportAssumption
<1>2. QED BY <1>1, ReportAssumption
        DEF AdminRequest, FarmerRequest, ForAll, ScopeOf, Scope

LEMMA EventType ==
  ASSUME TypeOK, NEW k \in Slot, ~IsIdle(k), req(k) \notin Rpc
  PROVE  req(k).user \in User /\ req(k).of \in Role
<1>1. req(k) \in Msg \ Rpc
  BY BusyRun DEF TypeOK, req
<1>2. req(k) \in UserEvent
  BY <1>1, ReportAssumption
<1>3. QED BY <1>2 DEF UserEvent

LEMMA NothingIsNoReport == Nothing \notin Report
<1>1. ASSUME Nothing \in Report PROVE FALSE
  <2>1. DOMAIN Nothing = {"tree", "named", "kept", "known"}
    BY <1>1 DEF Report
  <2>2. DOMAIN Nothing = {"absent"}
    BY DEF Nothing
  <2>3. QED BY <2>1, <2>2
<1>2. QED BY <1>1

LEMMA DraftType ==
  ASSUME TypeOK, NEW k \in Slot
  PROVE  /\ work[k] \in Draft /\ report(k) \in Report /\ work[k].todo \in SUBSET Kind
         /\ work[k] = [todo |-> work[k].todo, report |-> report(k)]
         /\ report(k).tree \in SUBSET Node /\ report(k).kept \in SUBSET Node
         /\ report(k).named \in SUBSET User /\ report(k).known \in SUBSET User
  BY DEF TypeOK, Draft, Report, report
-----------------------------------------------------------------------------
\* What the actions make of a draft.

Rest == UNCHANGED <<stored, writes, projected, admins, cache>>

LEMMA RequestOf ==
  ASSUME IInv, NEW k \in Slot, step[k] # "start"
  PROVE  /\ ~IsIdle(k) /\ req(k) \in Rpc /\ req(k).user \in User /\ ScopeOf(k) \in Scope
         /\ ForAll(k) => ScopeOf(k) = "all" /\ req(k).user \in admins
         /\ ~ForAll(k) => /\ req(k).of \in User /\ ScopeOf(k) = req(k).of
                          /\ ScopeOf(k) # "all" /\ req(k).of = req(k).user
  BY ReqType DEF IInv, Slots, Knows

LEMMA MissFacts ==
  ASSUME IInv, NEW k \in Slot, CacheMiss(k)
  PROVE  /\ step[k] = "allowed"
         /\ work'[k] \in Draft /\ step' = [step EXCEPT ![k] = "loading"]
         /\ \A j \in Slot : j # k => work'[j] = work[j]
         /\ work' \in [Slot -> Draft]
         /\ work'[k].todo = Kind /\ work'[k].report.tree = {}
         /\ work'[k].report.kept = {x \in stored : ForAll(k) \/ Owner(x) = req(k).of}
         /\ work'[k].report.known = Projected
         /\ UNCHANGED rmqVars /\ Rest
<1>1. PICK d : d = [todo |-> Kind,
        report |-> [NoDraft.report EXCEPT
          !.kept = {x \in stored : ForAll(k) \/ Owner(x) = req(k).of},
          !.known = Projected]]
  OBVIOUS
<1>2. /\ d \in Draft
      /\ d.todo = Kind /\ d.report.tree = {} /\ d.report.known = Projected
      /\ d.report.kept = {x \in stored : ForAll(k) \/ Owner(x) = req(k).of}
  <2>1. d = [todo |-> Kind,
             report |-> [tree |-> {}, named |-> {},
                         kept |-> {x \in stored : ForAll(k) \/ Owner(x) = req(k).of},
                         known |-> Projected]]
    BY <1>1 DEF NoDraft
  <2>2. stored \in SUBSET Node
    BY DEF IInv, TypeOK
  <2>3. QED BY <2>1, <2>2 DEF Draft, Report, Projected
<1>3. work' = [work EXCEPT ![k] = d] /\ work \in [Slot -> Draft]
  BY <1>1 DEF CacheMiss, Projected, IInv, TypeOK
<1>4. step[k] = "allowed" /\ step' = [step EXCEPT ![k] = "loading"]
  BY DEF CacheMiss, InStep, Goes
<1>5. QED BY <1>2, <1>3, <1>4 DEF CacheMiss, Rest

LEMMA HitFacts ==
  ASSUME IInv, NEW k \in Slot, CacheHit(k)
  PROVE  /\ step[k] = "allowed" /\ cache[ScopeOf(k)] # Nothing /\ ScopeOf(k) \in Scope
         /\ work' \in [Slot -> Draft] /\ step' = [step EXCEPT ![k] = "replied"]
         /\ work'[k].report = cache[ScopeOf(k)]
         /\ \A j \in Slot : j # k => work'[j] = work[j]
         /\ HandlerReturns(k) /\ Rest
<1>1. step[k] = "allowed" /\ ScopeOf(k) \in Scope /\ cache[ScopeOf(k)] # Nothing
  BY RequestOf DEF CacheHit, InStep, KeyOf
<1>2. cache[ScopeOf(k)] \in Report
  BY <1>1 DEF IInv, TypeOK
<1>3. PICK d : d = [work[k] EXCEPT !.report = cache[ScopeOf(k)]]
  OBVIOUS
<1>4. d \in Draft /\ d.report = cache[ScopeOf(k)]
  <2>1. work[k] = [todo |-> work[k].todo, report |-> report(k)] /\ work[k].todo \in SUBSET Kind
    BY DraftType DEF IInv
  <2>2. d = [todo |-> work[k].todo, report |-> cache[ScopeOf(k)]]
    BY <1>3, <2>1
  <2>3. QED BY <1>2, <2>1, <2>2 DEF Draft
<1>5. work' = [work EXCEPT ![k] = d] /\ work \in [Slot -> Draft]
  BY <1>3 DEF CacheHit, KeyOf, IInv, TypeOK
<1>6. QED BY <1>1, <1>4, <1>5 DEF CacheHit, Goes, Rest

LEMMA QueryFacts ==
  ASSUME IInv, NEW k \in Slot, NEW t \in Kind, Query(k, t)
  PROVE  /\ step[k] = "loading" /\ t \in work[k].todo
         /\ t # "farm" => ParentKind[t] \notin work[k].todo
         /\ work' \in [Slot -> Draft]
         /\ work'[k].todo = work[k].todo \ {t}
         /\ work'[k].report.tree = report(k).tree \cup Found(k, t)
         /\ work'[k].report.kept = report(k).kept
         /\ work'[k].report.known = report(k).known
         /\ \A j \in Slot : j # k => work'[j] = work[j]
         /\ step' = [step EXCEPT ![k] = IF work[k].todo # {t} THEN "loading"
                                        ELSE IF ForAll(k) THEN "joining" ELSE "built"]
         /\ UNCHANGED rmqVars /\ Rest
<1>1. PICK d : d = [todo |-> work[k].todo \ {t},
                    report |-> [report(k) EXCEPT !.tree = @ \cup Found(k, t)]]
  OBVIOUS
<1>2. /\ work[k] = [todo |-> work[k].todo, report |-> report(k)]
      /\ report(k) \in Report /\ work[k].todo \in SUBSET Kind
  BY DraftType DEF IInv
<1>3. Found(k, t) \in SUBSET Node
  BY DEF Found, IInv, TypeOK
<1>4. /\ d \in Draft /\ d.todo = work[k].todo \ {t}
      /\ d.report.tree = report(k).tree \cup Found(k, t)
      /\ d.report.kept = report(k).kept /\ d.report.known = report(k).known
  <2>1. PICK r : r = [report(k) EXCEPT !.tree = @ \cup Found(k, t)]
    OBVIOUS
  <2>2. /\ r \in Report /\ r.tree = report(k).tree \cup Found(k, t)
        /\ r.kept = report(k).kept /\ r.known = report(k).known
    BY <1>2, <1>3, <2>1 DEF Report
  <2>3. d = [todo |-> work[k].todo \ {t}, report |-> r]
    BY <1>1, <2>1
  <2>4. QED BY <1>2, <2>2, <2>3 DEF Draft
<1>5. work' = [work EXCEPT ![k] = d] /\ work \in [Slot -> Draft]
  <2>1. PICK w : w = [work EXCEPT ![k].todo = @ \ {t}]
    OBVIOUS
  <2>2. work' = [w EXCEPT ![k].report.tree = @ \cup Found(k, t)]
    BY <2>1 DEF Query
  <2>3. PICK c : c = [work[k] EXCEPT !.todo = @ \ {t}]
    OBVIOUS
  <2>4. c = [todo |-> work[k].todo \ {t}, report |-> report(k)]
    <3>1. PICK s, r : s = work[k].todo /\ r = report(k)
      OBVIOUS
    <3>2. work[k] = [todo |-> s, report |-> r]
      BY <1>2, <3>1
    <3>3. c = [todo |-> s \ {t}, report |-> r]
      BY <2>3, <3>2
    <3>4. QED BY <3>1, <3>3
  <2>5. w = [work EXCEPT ![k] = c] /\ work \in [Slot -> Draft]
    BY <2>1, <2>3 DEF IInv, TypeOK
  <2>6. [c EXCEPT !.report.tree = @ \cup Found(k, t)] = d
    BY <1>1, <2>4
  <2>7. QED BY <2>2, <2>5, <2>6
<1>6. /\ step[k] = "loading" /\ t \in work[k].todo
      /\ t # "farm" => ParentKind[t] \notin work[k].todo
  <2>1. /\ InStep(k, "loading") /\ t \in work[k].todo
        /\ t \in DOMAIN ParentKind => ParentKind[t] \notin work[k].todo
    BY DEF Query
  <2>2. t # "farm" => t \in DOMAIN ParentKind
    BY ParentKinds DEF Kind
  <2>3. QED BY <2>1, <2>2 DEF InStep
<1>7. UNCHANGED rmqVars /\ Rest
      /\ Goes(k, IF work[k].todo # {t} THEN "loading"
                 ELSE IF ForAll(k) THEN "joining" ELSE "built")
  BY DEF Query, Rest
<1>8. /\ work' \in [Slot -> Draft] /\ work'[k] = d
      /\ \A j \in Slot : j # k => work'[j] = work[j]
  BY <1>4, <1>5
<1>9. QED BY <1>4, <1>6, <1>7, <1>8 DEF Goes

LEMMA JoinFacts ==
  ASSUME IInv, NEW k \in Slot, LoadOwners(k)
  PROVE  /\ step[k] = "joining"
         /\ work' \in [Slot -> Draft] /\ step' = [step EXCEPT ![k] = "built"]
         /\ work'[k].report.tree = report(k).tree /\ work'[k].report.kept = report(k).kept
         /\ work'[k].report.known = report(k).known
         /\ work'[k].report.named = Projected
         /\ \A j \in Slot : j # k => work'[j] = work[j]
         /\ UNCHANGED rmqVars /\ Rest
<1>1. PICK r : r = [report(k) EXCEPT !.named = Projected]
  OBVIOUS
<1>2. /\ work[k] = [todo |-> work[k].todo, report |-> report(k)]
      /\ report(k) \in Report /\ work[k].todo \in SUBSET Kind
  BY DraftType DEF IInv
<1>3. /\ r \in Report /\ r.named = Projected /\ r.tree = report(k).tree
      /\ r.kept = report(k).kept /\ r.known = report(k).known
  BY <1>1, <1>2 DEF Report, Projected
<1>4. PICK d : d = [todo |-> work[k].todo, report |-> r]
  OBVIOUS
<1>5. d \in Draft /\ d.report = r
  BY <1>2, <1>3, <1>4 DEF Draft
<1>6. work' = [work EXCEPT ![k] = d] /\ work \in [Slot -> Draft]
  <2>1. [work[k] EXCEPT !.report.named = Projected] = d
    BY <1>1, <1>2, <1>4
  <2>2. QED BY <2>1 DEF LoadOwners, Projected, IInv, TypeOK
<1>7. QED BY <1>3, <1>5, <1>6 DEF LoadOwners, InStep, Goes, Rest

\* A row comes or goes.
LEMMA WriteFacts ==
  ASSUME IInv, NEW rows \in SUBSET Node, Write(rows)
  PROVE  /\ Closed(rows) /\ stored' = rows /\ writes' \in 0..MaxWrites
         /\ work' \in [Slot -> Draft]
         /\ \A k \in Slot :
              /\ step[k] # "loading" => work'[k] = work[k]
              /\ step[k] = "loading" => /\ work'[k].todo = work[k].todo
                                        /\ work'[k].report.tree = report(k).tree
                                        /\ work'[k].report.kept = report(k).kept \cap rows
                                        /\ work'[k].report.known = report(k).known
         /\ UNCHANGED <<rmqVars, projected, admins, cache, step>>
<1>1. ASSUME NEW k \in Slot
      PROVE  /\ work'[k] \in Draft
             /\ step[k] # "loading" => work'[k] = work[k]
             /\ step[k] = "loading" => /\ work'[k].todo = work[k].todo
                                       /\ work'[k].report.tree = report(k).tree
                                       /\ work'[k].report.kept = report(k).kept \cap rows
                                       /\ work'[k].report.known = report(k).known
  <2>1. /\ work[k] = [todo |-> work[k].todo, report |-> report(k)] /\ work[k] \in Draft
        /\ report(k) \in Report /\ work[k].todo \in SUBSET Kind
    BY DraftType DEF IInv
  <2>2. CASE step[k] # "loading"
    BY <2>1, <2>2 DEF Write
  <2>3. CASE step[k] = "loading"
    <3>1. PICK r : r = [report(k) EXCEPT !.kept = @ \cap rows]
      OBVIOUS
    <3>2. /\ r \in Report /\ r.tree = report(k).tree /\ r.known = report(k).known
          /\ r.kept = report(k).kept \cap rows
      BY <2>1, <3>1 DEF Report
    <3>3. work'[k] = [work[k] EXCEPT !.report.kept = @ \cap rows]
      BY <2>3 DEF Write
    <3>4. work'[k] = [todo |-> work[k].todo, report |-> r]
      BY <2>1, <3>1, <3>3
    <3>5. QED BY <2>1, <2>3, <3>2, <3>4 DEF Draft
  <2>4. QED BY <2>2, <2>3
<1>2. work' \in [Slot -> Draft]
  <2>1. work' = [k \in Slot |-> work'[k]]
    BY DEF Write
  <2>2. QED BY <1>1, <2>1
<1>3. writes' \in 0..MaxWrites
  BY ReportAssumption DEF Write, IInv, TypeOK
<1>4. QED BY <1>1, <1>2, <1>3 DEF Write
-----------------------------------------------------------------------------
\* What a step does to the handlers it is not about.

Keeps(j) == /\ step'[j] = step[j]
            /\ step[j] # "start" => /\ ~IsIdle(j)' /\ run'[j].msg = run[j].msg
                                   /\ run'[j].pc = run[j].pc
Shown == admins \subseteq admins' /\ Projected \subseteq Projected'

LEMMA Kept ==
  ASSUME IInv, NEW j \in Slot, Keeps(j), Shown, work'[j] = work[j], stored' = stored
  PROVE  Knows(j)' /\ Drafted(j)'
<1>1. CASE step[j] = "start"
  BY <1>1 DEF Keeps, Knows, Drafted
<1>2. CASE step[j] # "start"
  <2>1. /\ req(j)' = req(j) /\ ForAll(j)' = ForAll(j) /\ ScopeOf(j)' = ScopeOf(j)
        /\ At(j, "running")' = At(j, "running") /\ ~IsIdle(j)'
        /\ report(j)' = report(j) /\ step'[j] = step[j]
    BY <1>2 DEF Keeps, req, ForAll, ScopeOf, At, report, IInv, Slots, Knows
  <2>2. Knows(j) /\ Drafted(j)
    BY DEF IInv, Slots
  <2>3. Knows(j)'
    BY <2>1, <2>2 DEF Knows, Shown
  <2>4. Loading(j) => Loading(j)'
    BY <2>1 DEF Loading, Shown
  <2>5. Joining(j) => Joining(j)'
    BY <2>1 DEF Joining, Shown
  <2>6. Good(report(j), ScopeOf(j)) => Good(report(j), ScopeOf(j))'
    BY <2>1 DEF Good
  <2>7. QED BY <2>1, <2>2, <2>3, <2>4, <2>5, <2>6 DEF Drafted
<1>3. QED BY <1>1, <1>2

\* A handler that starts over.
LEMMA Started ==
  ASSUME NEW k \in Slot, step'[k] = "start"
  PROVE  Knows(k)' /\ Drafted(k)'
  BY DEF Knows, Drafted

\* The handlers of a step of k: the others keep what they have.
LEMMA StepOf ==
  ASSUME IInv, Shown, stored' = stored, NEW k \in Slot,
         \A j \in Slot : j # k => run'[j] = run[j] /\ work'[j] = work[j] /\ step'[j] = step[j],
         Knows(k)' /\ Drafted(k)'
  PROVE  Slots'
<1>1. \A j \in Slot : j # k => Keeps(j)
  BY DEF Keeps, IInv, Slots, Knows, IsIdle
<1>2. QED BY <1>1, Kept DEF Slots

LEMMA QuietSlots ==
  ASSUME IInv, Shown, UNCHANGED <<stored, work>>, \A j \in Slot : Keeps(j)
  PROVE  Slots'
  BY Kept DEF Slots

LEMMA WaitSlots ==
  ASSUME IInv, UNCHANGED reportVars,
         \/ Transport \/ \E k \in Slot : LoseConnection(k)
         \/ UNCHANGED rmqVars
  PROVE  Slots'
<1>1. \A j \in Slot : ~IsIdle(j) =>
        ~IsIdle(j)' /\ run'[j].pc = run[j].pc /\ run'[j].msg = run[j].msg
  BY BusyGoesOn DEF IInv, TypeOK, IsIdle
<1>2. \A j \in Slot : Keeps(j)
  BY <1>1 DEF Keeps, IInv, Slots, Knows
<1>3. Shown
  BY DEF Shown, Projected
<1>4. QED BY <1>2, <1>3, QuietSlots

LEMMA WriteSlots ==
  ASSUME IInv, NEW rows \in SUBSET Node, Write(rows)
  PROVE  Slots'
<1>0. Shown /\ UNCHANGED <<run, step>>
  BY WriteFacts DEF Shown, Projected
<1>1. ASSUME NEW j \in Slot, step[j] = "loading" PROVE Knows(j)' /\ Drafted(j)'
  <2>1. /\ req(j)' = req(j) /\ ForAll(j)' = ForAll(j) /\ ScopeOf(j)' = ScopeOf(j)
        /\ At(j, "running")' = At(j, "running") /\ IsIdle(j)' = IsIdle(j)
        /\ step'[j] = "loading" /\ stored' = rows /\ Closed(rows)
        /\ work'[j].todo = work[j].todo
        /\ report(j)'.tree = report(j).tree
        /\ report(j)'.kept = report(j).kept \cap rows
        /\ report(j)'.known = report(j).known
    BY <1>0, <1>1, WriteFacts DEF req, ForAll, ScopeOf, At, IsIdle, report
  <2>2. Knows(j) /\ Loading(j)
    BY <1>1 DEF IInv, Slots, Drafted
  <2>3. Knows(j)'
    BY <1>0, <1>1, <2>1, <2>2 DEF Knows, Shown
  <2>4. Closed(report(j).kept \cap rows)
    BY <2>1, <2>2 DEF Closed, Loading
  <2>5. Loading(j)'
    BY <1>0, <2>1, <2>2, <2>4 DEF Loading, Shown
  <2>6. QED BY <2>1, <2>3, <2>5 DEF Drafted
<1>2. ASSUME NEW j \in Slot, step[j] # "loading" PROVE Knows(j)' /\ Drafted(j)'
  <2>1. /\ req(j)' = req(j) /\ ForAll(j)' = ForAll(j) /\ ScopeOf(j)' = ScopeOf(j)
        /\ At(j, "running")' = At(j, "running") /\ IsIdle(j)' = IsIdle(j)
        /\ step'[j] = step[j] /\ report(j)' = report(j)
    BY <1>0, <1>2, WriteFacts DEF req, ForAll, ScopeOf, At, IsIdle, report
  <2>2. Knows(j) /\ Drafted(j)
    BY DEF IInv, Slots
  <2>3. Knows(j)'
    BY <1>0, <2>1, <2>2 DEF Knows, Shown
  <2>4. Joining(j) => Joining(j)'
    BY <1>0, <2>1 DEF Joining, Shown
  <2>5. Good(report(j), ScopeOf(j)) => Good(report(j), ScopeOf(j))'
    BY <2>1 DEF Good
  <2>6. QED BY <1>2, <2>1, <2>2, <2>3, <2>4, <2>5 DEF Drafted
<1>3. QED BY <1>1, <1>2 DEF Slots
-----------------------------------------------------------------------------
\* The steps of a handler.

LEMMA ReturningSlot ==
  ASSUME IInv, NEW k \in Slot, HandlerReturns(k) \/ HandlerThrows(k)
  PROVE  /\ ~IsIdle(k) /\ ~IsIdle(k)' /\ ~At(k, "running")' /\ req(k)' = req(k)
         /\ \A j \in Slot : j # k => run'[j] = run[j]
<1>1. ~IsIdle(k) /\ run[k] \in Busy
  BY BusyRun DEF HandlerReturns, HandlerThrows, At, IInv, TypeOK
<1>2. /\ ~IsIdle(k)' /\ run'[k].msg = run[k].msg /\ run'[k].pc # "running"
      /\ \A j \in Slot : j # k => run'[j] = run[j]
  BY <1>1, GotoFacts DEF HandlerReturns, HandlerThrows, IInv, TypeOK
<1>3. QED BY <1>1, <1>2 DEF At, req

LEMMA ProjectSlots ==
  ASSUME IInv, NEW k \in Slot, ProjectUser(k)
  PROVE  Slots' /\ AdminsSeen' /\ projected' \in [User -> Role \cup {Unknown}] /\ admins' \subseteq User
<1>1. /\ ~IsIdle(k) /\ step[k] = "start" /\ req(k) \notin Rpc /\ HandlerReturns(k)
      /\ UNCHANGED <<stored, writes, cache, work, step>>
  BY DEF ProjectUser, InStep, At
<1>2. /\ req(k).user \in User /\ req(k).of \in Role
      /\ projected' = [projected EXCEPT ![req(k).user] = req(k).of]
      /\ admins' = IF req(k).of = "admin" THEN admins \cup {req(k).user} ELSE admins
  BY <1>1, EventType DEF ProjectUser, IInv
<1>3. projected \in [User -> Role \cup {Unknown}] /\ admins \subseteq User /\ Unknown \notin Role
  BY DEF IInv, TypeOK, Role, Unknown
<1>4. Shown
  BY <1>2, <1>3 DEF Shown, Projected
<1>5. Slots'
  BY <1>1, <1>4, Started, StepOf, ReturningSlot
<1>6. AdminsSeen'
  BY <1>2, <1>3 DEF AdminsSeen, IInv
<1>7. QED BY <1>2, <1>3, <1>5, <1>6

LEMMA AllowSlots ==
  ASSUME IInv, NEW k \in Slot, Allow(k)
  PROVE  Slots'
<1>1. /\ At(k, "running") /\ req(k) \in Rpc /\ MayRead(k)
      /\ UNCHANGED <<run, stored, work, admins, projected>>
      /\ step'[k] = "allowed" /\ \A j \in Slot : j # k => step'[j] = step[j]
  BY DEF Allow, InStep, Goes, IInv, TypeOK
<1>2. req(k).user \in User
  BY <1>1, ReqType DEF IInv
<1>3. IF ForAll(k) THEN req(k).user \in admins ELSE req(k).of = req(k).user
  BY <1>1, <1>2 DEF MayRead, IInv, AdminsSeen
<1>4. Knows(k)' /\ Drafted(k)'
  BY <1>1, <1>3 DEF Knows, Drafted, At, IsIdle, req, ForAll
<1>5. Shown
  BY <1>1 DEF Shown, Projected
<1>6. QED BY <1>1, <1>4, <1>5, StepOf

\* A request that has passed the check keeps passing it.
LEMMA StillKnows ==
  ASSUME IInv, NEW k \in Slot, step[k] # "start", step'[k] # "start",
         ~IsIdle(k)', req(k)' = req(k), step'[k] = "replied" <=> ~At(k, "running")',
         UNCHANGED admins
  PROVE  Knows(k)' /\ ScopeOf(k)' = ScopeOf(k) /\ ForAll(k)' = ForAll(k)
  BY RequestOf DEF Knows, ForAll, ScopeOf

LEMMA MissSlots ==
  ASSUME IInv, NEW k \in Slot, CacheMiss(k)
  PROVE  Slots'
<1>1. /\ step[k] = "allowed" /\ step'[k] = "loading" /\ UNCHANGED <<run, admins, stored, projected>>
      /\ \A j \in Slot : j # k => step'[j] = step[j] /\ work'[j] = work[j] /\ run'[j] = run[j]
      /\ ~IsIdle(k)' /\ req(k)' = req(k) /\ At(k, "running")'
  BY MissFacts DEF IInv, TypeOK, Slots, Knows, Rest, IsIdle, req, At
<1>2. Knows(k)' /\ ScopeOf(k)' = ScopeOf(k) /\ ForAll(k)' = ForAll(k)
  BY <1>1, StillKnows
<1>3. /\ report(k)'.tree = {} /\ work'[k].todo = Kind /\ report(k)'.known = Projected
      /\ report(k)'.kept = {x \in stored : ForAll(k) \/ Owner(x) = req(k).of}
  BY MissFacts DEF report
<1>4. \A x \in report(k)'.kept : x \in Node /\ KindOf[x] \in Kind /\ Fits(x, ScopeOf(k))
  <2>1. stored \subseteq Node
    BY DEF IInv, TypeOK
  <2>2. QED BY <1>1, <1>3, <2>1, Parents, RequestOf DEF Fits
<1>5. Closed(report(k)'.kept)
  <2>1. ASSUME NEW x \in report(k)'.kept, KindOf[x] # "farm"
        PROVE  ParentOf[x] \in report(k)'.kept
    BY <1>3, <2>1, Ancestors DEF IInv, TypeOK, Closed
  <2>2. QED BY <2>1 DEF Closed
<1>6. Projected' = Projected
  BY <1>1 DEF Projected
<1>7. Loading(k)'
  BY <1>1, <1>2, <1>3, <1>4, <1>5, <1>6 DEF Loading, Closed, Fits
<1>8. Drafted(k)'
  BY <1>1, <1>7 DEF Drafted
<1>9. Shown
  BY <1>1, <1>6 DEF Shown
<1>10. QED BY <1>1, <1>2, <1>8, <1>9, StepOf

LEMMA HitSlots ==
  ASSUME IInv, NEW k \in Slot, CacheHit(k)
  PROVE  Slots'
<1>1. /\ step[k] = "allowed" /\ step'[k] = "replied" /\ UNCHANGED <<admins, stored, projected>>
      /\ \A j \in Slot : j # k => step'[j] = step[j] /\ work'[j] = work[j] /\ run'[j] = run[j]
      /\ ~IsIdle(k)' /\ req(k)' = req(k) /\ ~At(k, "running")'
  BY HitFacts, ReturningSlot DEF IInv, TypeOK, Rest
<1>2. Knows(k)' /\ ScopeOf(k)' = ScopeOf(k) /\ ForAll(k)' = ForAll(k)
  BY <1>1, StillKnows
<1>3. Good(report(k)', ScopeOf(k))
  BY HitFacts DEF IInv, Cached, report
<1>4. Drafted(k)'
  BY <1>1, <1>2, <1>3 DEF Drafted, Good
<1>5. Shown
  BY <1>1 DEF Shown, Projected
<1>6. QED BY <1>1, <1>2, <1>4, <1>5, StepOf

LEMMA QuerySlots ==
  ASSUME IInv, NEW k \in Slot, NEW t \in Kind, Query(k, t)
  PROVE  Slots'
<1>1. /\ step[k] = "loading" /\ UNCHANGED <<run, admins, stored, projected>>
      /\ step'[k] = IF work[k].todo # {t} THEN "loading"
                    ELSE IF ForAll(k) THEN "joining" ELSE "built"
      /\ \A j \in Slot : j # k => step'[j] = step[j] /\ work'[j] = work[j] /\ run'[j] = run[j]
      /\ ~IsIdle(k)' /\ req(k)' = req(k) /\ At(k, "running")'
  BY QueryFacts DEF IInv, TypeOK, Slots, Knows, Rest, IsIdle, req, At
<1>2. Knows(k)' /\ ScopeOf(k)' = ScopeOf(k) /\ ForAll(k)' = ForAll(k)
  BY <1>1, StillKnows
<1>3. Loading(k)
  BY <1>1 DEF IInv, Slots, Drafted
<1>4. /\ report(k)'.tree = report(k).tree \cup Found(k, t) /\ work'[k].todo = work[k].todo \ {t}
      /\ report(k)'.kept = report(k).kept /\ report(k)'.known = report(k).known
      /\ t \in work[k].todo /\ (t # "farm" => ParentKind[t] \notin work[k].todo)
  BY QueryFacts DEF report
<1>5. \A x \in Found(k, t) : /\ x \in Node /\ x \in stored /\ KindOf[x] = t /\ Fits(x, ScopeOf(k))
                             /\ t # "farm" => ParentOf[x] \in report(k).tree
  <2>1. ASSUME NEW x \in Found(k, t)
        PROVE  /\ x \in Node /\ x \in stored /\ KindOf[x] = t
               /\ t = "farm" => ForAll(k) \/ ParentOf[x] = req(k).of
               /\ t # "farm" => ParentOf[x] \in report(k).tree
    BY DEF Found, IInv, TypeOK
  <2>2. ASSUME NEW x \in Found(k, t) PROVE Fits(x, ScopeOf(k))
    <3>1. CASE t = "farm"
      <4>1. Owner(x) = ParentOf[x]
        BY <2>1, <3>1, Ancestors
      <4>2. QED BY <1>1, <2>1, <3>1, <4>1, RequestOf DEF Fits
    <3>2. CASE t # "farm"
      BY <1>3, <2>1, <3>2, Ancestors DEF Loading, Fits
    <3>3. QED BY <3>1, <3>2
  <2>3. QED BY <2>1, <2>2
<1>6. PICK tree, kept, todo :
        /\ tree = report(k)'.tree /\ kept = report(k)'.kept /\ todo = work'[k].todo
  OBVIOUS
<1>7. /\ tree = report(k).tree \cup Found(k, t)
      /\ kept = report(k).kept /\ todo = work[k].todo \ {t}
  BY <1>4, <1>6
<1>8. Closed(tree) /\ Closed(kept) /\ kept \subseteq stored
  <2>1. Closed(report(k).tree) /\ Closed(report(k).kept) /\ report(k).kept \subseteq stored
    BY <1>3 DEF Loading
  <2>2. ASSUME NEW x \in tree, KindOf[x] # "farm" PROVE ParentOf[x] \in tree
    BY <1>5, <1>7, <2>1, <2>2 DEF Closed
  <2>3. QED BY <1>7, <2>1, <2>2 DEF Closed
<1>9. \A x \in tree \cup kept : Fits(x, ScopeOf(k))
  <2>1. \A x \in report(k).tree \cup report(k).kept : Fits(x, ScopeOf(k))
    BY <1>3 DEF Loading
  <2>2. QED BY <1>5, <1>7, <2>1
<1>10. \A x \in kept : KindOf[x] \in todo \/ x \in tree
  <2>1. ASSUME NEW x \in report(k).kept, KindOf[x] = t PROVE x \in Found(k, t)
    <3>1. x \in stored /\ x \in Node /\ Fits(x, ScopeOf(k))
      BY <1>3 DEF Loading, IInv, TypeOK
    <3>2. CASE t = "farm"
      <4>1. ForAll(k) \/ ParentOf[x] = req(k).of
        BY <1>1, <2>1, <3>1, <3>2, Ancestors, RequestOf DEF Fits
      <4>2. QED BY <2>1, <3>1, <3>2, <4>1 DEF Found
    <3>3. CASE t # "farm"
      <4>1. ParentOf[x] \in report(k).kept /\ KindOf[ParentOf[x]] = ParentKind[t]
        BY <1>3, <2>1, <3>1, <3>3, Parents, ParentKinds DEF Loading, Closed, Kind
      <4>2. ParentOf[x] \in report(k).tree
        BY <1>3, <1>4, <3>3, <4>1 DEF Loading
      <4>3. QED BY <2>1, <3>1, <3>3, <4>2 DEF Found
    <3>4. QED BY <3>2, <3>3
  <2>2. \A x \in report(k).kept : KindOf[x] \in work[k].todo \/ x \in report(k).tree
    BY <1>3 DEF Loading
  <2>3. QED BY <1>7, <2>1, <2>2
<1>11. stored' = stored /\ report(k)'.known \subseteq Projected'
  BY <1>1, <1>3, <1>4 DEF Loading, Projected
<1>12. ASSUME step'[k] = "loading" PROVE Drafted(k)'
  <2>1. Loading(k)'
    BY <1>2, <1>6, <1>8, <1>9, <1>10, <1>11 DEF Loading, Closed, Fits
  <2>2. QED BY <1>12, <2>1 DEF Drafted
<1>13. ASSUME step'[k] # "loading" PROVE Drafted(k)'
  <2>1. kept \subseteq tree
    <3>1. todo = {}
      BY <1>1, <1>7, <1>13
    <3>2. QED BY <1>10, <3>1
  <2>2. CASE ForAll(k)
    <3>1. step'[k] = "joining"
      BY <1>1, <1>13, <2>2
    <3>2. Joining(k)'
      BY <1>2, <1>6, <1>8, <1>11, <2>1, <2>2 DEF Joining, Closed
    <3>3. QED BY <3>1, <3>2 DEF Drafted
  <2>3. CASE ~ForAll(k)
    <3>1. step'[k] = "built" /\ ScopeOf(k) # "all"
      BY <1>1, <1>13, <2>3, RequestOf
    <3>2. Good(report(k), ScopeOf(k))'
      BY <1>2, <1>6, <1>8, <1>9, <2>1, <3>1 DEF Good, Closed, Fits
    <3>3. QED BY <3>1, <3>2 DEF Drafted
  <2>4. QED BY <2>2, <2>3
<1>14. Shown
  BY <1>1 DEF Shown, Projected
<1>15. QED BY <1>1, <1>2, <1>12, <1>13, <1>14, StepOf

LEMMA JoinSlots ==
  ASSUME IInv, NEW k \in Slot, LoadOwners(k)
  PROVE  Slots'
<1>1. /\ step[k] = "joining" /\ step'[k] = "built" /\ UNCHANGED <<run, admins, stored, projected>>
      /\ \A j \in Slot : j # k => step'[j] = step[j] /\ work'[j] = work[j] /\ run'[j] = run[j]
      /\ ~IsIdle(k)' /\ req(k)' = req(k) /\ At(k, "running")'
  BY JoinFacts DEF IInv, TypeOK, Slots, Knows, Rest, IsIdle, req, At
<1>2. Knows(k)' /\ ScopeOf(k)' = ScopeOf(k) /\ ForAll(k)' = ForAll(k)
  BY <1>1, StillKnows
<1>3. Joining(k) /\ ScopeOf(k) = "all"
  BY <1>1, RequestOf DEF IInv, Slots, Drafted, Joining
<1>4. /\ report(k)'.tree = report(k).tree /\ report(k)'.kept = report(k).kept
      /\ report(k)'.known = report(k).known /\ report(k)'.named = Projected
  BY JoinFacts DEF report
<1>5. Drafted(k)'
  BY <1>1, <1>2, <1>3, <1>4 DEF Drafted, Joining, Good, Fits, Closed
<1>6. Shown
  BY <1>1 DEF Shown, Projected
<1>7. QED BY <1>1, <1>2, <1>5, <1>6, StepOf

LEMMA FinishSlots ==
  ASSUME IInv, NEW k \in Slot, Finish(k)
  PROVE  Slots' /\ Cached' /\ cache' \in [Scope -> Report \cup {Nothing}]
<1>1. /\ step[k] = "built" /\ step'[k] = "replied"
      /\ UNCHANGED <<admins, stored, projected, work>>
      /\ \A j \in Slot : j # k => step'[j] = step[j] /\ work'[j] = work[j] /\ run'[j] = run[j]
      /\ ~IsIdle(k)' /\ req(k)' = req(k) /\ ~At(k, "running")'
  BY ReturningSlot DEF Finish, InStep, Goes, IInv, TypeOK
<1>2. Knows(k)' /\ ScopeOf(k)' = ScopeOf(k) /\ ForAll(k)' = ForAll(k)
  BY <1>1, StillKnows
<1>3. Good(report(k), ScopeOf(k)) /\ ScopeOf(k) \in Scope /\ report(k) \in Report
  BY <1>1, RequestOf, DraftType DEF IInv, Slots, Drafted
<1>4. Drafted(k)'
  BY <1>1, <1>2, <1>3 DEF Drafted, Good, report
<1>5. Shown
  BY <1>1 DEF Shown, Projected
<1>6. cache' = [cache EXCEPT ![ScopeOf(k)] = report(k)]
  BY DEF Finish, KeyOf
<1>7. Cached' /\ cache' \in [Scope -> Report \cup {Nothing}]
  BY <1>3, <1>6 DEF Cached, Good, Fits, Closed, IInv, TypeOK
<1>8. QED BY <1>1, <1>2, <1>4, <1>5, <1>7, StepOf

LEMMA AroundSlots ==
  ASSUME IInv, NEW k \in Slot, Refuse(k) \/ Fails(k) \/ Around(k)
  PROVE  Slots' /\ work' \in [Slot -> Draft] /\ step' \in [Slot -> Step] /\ Rest
<1>0. NoDraft \in Draft /\ Shown
  BY DEF NoDraft, Draft, Report, Shown, Projected, Refuse, Fails, Around
<1>1. ASSUME Forget(k), \A j \in Slot : j # k => run'[j] = run[j], Rest
      PROVE  Slots' /\ work' \in [Slot -> Draft] /\ step' \in [Slot -> Step]
  <2>1. /\ step'[k] = "start"
        /\ \A j \in Slot : j # k => run'[j] = run[j] /\ work'[j] = work[j] /\ step'[j] = step[j]
        /\ work' \in [Slot -> Draft] /\ step' \in [Slot -> Step]
    BY <1>0, <1>1 DEF Forget, IInv, TypeOK, Step
  <2>2. QED BY <1>0, <1>1, <2>1, Started, StepOf DEF Rest
<1>2. CASE Refuse(k)
  <2>1. step'[k] = "start" /\ UNCHANGED reportVars /\ \A j \in Slot : j # k => run'[j] = run[j]
    BY <1>2, ReturningSlot DEF Refuse, InStep
  <2>2. QED BY <1>0, <2>1, Started, StepOf DEF Rest, IInv, TypeOK
<1>3. CASE Fails(k)
  BY <1>1, <1>3, ReturningSlot DEF Fails, Rest
<1>4. CASE Settle(k) /\ Forget(k) /\ Rest
  BY <1>1, <1>4, SettledEnds DEF IInv, TypeOK
<1>5. CASE LoseConnection(k) /\ UNCHANGED reportVars
  BY <1>5, WaitSlots DEF Rest, IInv, TypeOK
<1>6. CASE Crash(k) /\ Forget(k) /\ Rest
  BY <1>1, <1>6, ExecutionEnds DEF IInv, TypeOK
<1>7. QED BY <1>2, <1>3, <1>4, <1>5, <1>6 DEF Around, Rest
-----------------------------------------------------------------------------
\* The invariant.

\* The service's part of the types.
Types ==
  /\ stored \in SUBSET Node /\ Closed(stored)
  /\ writes \in 0..MaxWrites
  /\ projected \in [User -> Role \cup {Unknown}]
  /\ admins \subseteq User
  /\ cache \in [Scope -> Report \cup {Nothing}]
  /\ work \in [Slot -> Draft]
  /\ step \in [Slot -> Step]

LEMMA TypesQuiet ==
  ASSUME IInv, Rest, work' \in [Slot -> Draft], step' \in [Slot -> Step]
  PROVE  Types' /\ AdminsSeen' /\ Cached'
<1>1. Types'
  BY DEF Types, Rest, IInv, TypeOK, Closed
<1>2. AdminsSeen'
  BY DEF AdminsSeen, Rest, IInv
<1>3. Cached'
  BY DEF Cached, Rest, IInv, Good, Fits, Closed
<1>4. QED BY <1>1, <1>2, <1>3

LEMMA StepType ==
  ASSUME TypeOK, NEW k \in Slot, NEW s \in Step
  PROVE  [step EXCEPT ![k] = s] \in [Slot -> Step]
  BY DEF TypeOK

\* One step of the handlers' own.
LEMMA HandlerStep ==
  ASSUME IInv, NEW k \in Slot, ProjectUser(k) \/ GenerateReport(k) \/ Fails(k) \/ Around(k)
  PROVE  Slots' /\ Types' /\ AdminsSeen' /\ Cached'
<1>0. {"allowed", "loading", "joining", "built", "replied"} \subseteq Step
  BY DEF Step
<1>1. CASE ProjectUser(k)
  <2>1. Slots' /\ AdminsSeen' /\ projected' \in [User -> Role \cup {Unknown}] /\ admins' \subseteq User
    BY <1>1, ProjectSlots
  <2>2. UNCHANGED <<stored, writes, cache, work, step>>
    BY <1>1 DEF ProjectUser
  <2>3. Types'
    BY <2>1, <2>2 DEF Types, IInv, TypeOK, Closed
  <2>4. Cached'
    BY <2>2 DEF Cached, IInv, Good, Fits, Closed
  <2>5. QED BY <2>1, <2>3, <2>4
<1>2. CASE Allow(k)
  <2>1. Rest /\ work' = work /\ step' = [step EXCEPT ![k] = "allowed"]
    BY <1>2 DEF Allow, Goes, Rest
  <2>2. work' \in [Slot -> Draft] /\ step' \in [Slot -> Step]
    BY <1>0, <2>1, StepType DEF IInv, TypeOK
  <2>3. QED BY <1>2, <2>1, <2>2, AllowSlots, TypesQuiet
<1>3. CASE CacheHit(k)
  <2>1. step' \in [Slot -> Step]
    BY <1>0, <1>3, HitFacts, StepType DEF IInv
  <2>2. QED BY <1>3, <2>1, HitFacts, HitSlots, TypesQuiet
<1>4. CASE CacheMiss(k)
  <2>1. step' \in [Slot -> Step]
    BY <1>0, <1>4, MissFacts, StepType DEF IInv
  <2>2. QED BY <1>4, <2>1, MissFacts, MissSlots, TypesQuiet
<1>5. ASSUME NEW t \in Kind, Query(k, t) PROVE Slots' /\ Types' /\ AdminsSeen' /\ Cached'
  <2>1. PICK s : s = IF work[k].todo # {t} THEN "loading"
                     ELSE IF ForAll(k) THEN "joining" ELSE "built"
    OBVIOUS
  <2>2. s \in Step /\ step' = [step EXCEPT ![k] = s]
    BY <1>0, <1>5, <2>1, QueryFacts
  <2>3. step' \in [Slot -> Step]
    BY <2>2, StepType DEF IInv
  <2>4. QED BY <1>5, <2>3, QueryFacts, QuerySlots, TypesQuiet
<1>6. CASE LoadOwners(k)
  <2>1. step' \in [Slot -> Step]
    BY <1>0, <1>6, JoinFacts, StepType DEF IInv
  <2>2. QED BY <1>6, <2>1, JoinFacts, JoinSlots, TypesQuiet
<1>7. CASE Finish(k)
  <2>1. UNCHANGED <<stored, writes, projected, admins, work>>
        /\ step' = [step EXCEPT ![k] = "replied"]
    BY <1>7 DEF Finish, Goes
  <2>2. step' \in [Slot -> Step]
    BY <1>0, <2>1, StepType DEF IInv
  <2>3. Slots' /\ Cached' /\ cache' \in [Scope -> Report \cup {Nothing}]
    BY <1>7, FinishSlots
  <2>4. Types'
    BY <2>1, <2>2, <2>3 DEF Types, IInv, TypeOK, Closed
  <2>5. AdminsSeen'
    BY <2>1 DEF AdminsSeen, IInv
  <2>6. QED BY <2>3, <2>4, <2>5
<1>8. CASE Refuse(k) \/ Fails(k) \/ Around(k)
  BY <1>8, AroundSlots, TypesQuiet
<1>9. QED BY <1>1, <1>2, <1>3, <1>4, <1>5, <1>6, <1>7, <1>8 DEF GenerateReport

LEMMA IInvStep == IInv /\ [Next]_vars => IInv'
<1> SUFFICES ASSUME IInv, [Next]_vars PROVE IInv'
  OBVIOUS
<1>1. RmqTypeOK'
  BY StepOfConsumer, RmqTypeStep DEF IInv, TypeOK
<1>2. CASE (Deliveries /\ UNCHANGED reportVars) \/ UNCHANGED vars
  <2>1. UNCHANGED reportVars /\ (Transport \/ UNCHANGED rmqVars)
    BY <1>2 DEF Deliveries, Transport, vars
  <2>2. Slots'
    BY <2>1, WaitSlots
  <2>3. Types' /\ AdminsSeen' /\ Cached'
    BY <2>1, TypesQuiet DEF Rest, IInv, TypeOK
  <2>4. QED BY <1>1, <2>2, <2>3 DEF IInv, TypeOK, Types
<1>3. ASSUME NEW x \in Node, Insert(x) \/ Delete(x) PROVE IInv'
  <2>1. PICK rows : rows \in SUBSET Node /\ Write(rows)
    <3>1. stored \cup {x} \in SUBSET Node /\ stored \ {x} \in SUBSET Node
      BY DEF IInv, TypeOK
    <3>2. QED BY <1>3, <3>1 DEF Insert, Delete
  <2>2. Slots'
    BY <2>1, WriteSlots
  <2>3. Types' /\ AdminsSeen' /\ Cached'
    <3>1. Types'
      BY <2>1, WriteFacts DEF Types, IInv, TypeOK, Closed
    <3>2. UNCHANGED <<projected, admins, cache>>
      BY <2>1, WriteFacts
    <3>3. AdminsSeen'
      BY <3>2 DEF AdminsSeen, IInv
    <3>4. Cached'
      BY <3>2 DEF Cached, IInv, Good, Fits, Closed
    <3>5. QED BY <3>1, <3>3, <3>4
  <2>4. QED BY <1>1, <2>2, <2>3 DEF IInv, TypeOK, Types
<1>4. ASSUME NEW s \in Scope, Expire(s) PROVE IInv'
  <2>1. /\ cache' = [cache EXCEPT ![s] = Nothing]
        /\ UNCHANGED <<rmqVars, stored, writes, projected, admins, work, step>>
    BY <1>4 DEF Expire
  <2>2. Slots'
    <3>1. \A j \in Slot : Keeps(j)
      BY <2>1 DEF Keeps, IInv, Slots, Knows, IsIdle
    <3>2. Shown
      BY <2>1 DEF Shown, Projected
    <3>3. QED BY <2>1, <3>1, <3>2, QuietSlots
  <2>3. Types'
    BY <2>1 DEF Types, IInv, TypeOK, Closed
  <2>4. AdminsSeen'
    BY <2>1 DEF AdminsSeen, IInv
  <2>5. Cached'
    BY <2>1 DEF Cached, IInv, TypeOK, Good, Fits, Closed
  <2>6. QED BY <1>1, <2>2, <2>3, <2>4, <2>5 DEF IInv, TypeOK, Types
<1>5. ASSUME NEW k \in Slot, ProjectUser(k) \/ GenerateReport(k) \/ Fails(k) \/ Around(k)
      PROVE  IInv'
  BY <1>1, <1>5, HandlerStep DEF IInv, TypeOK, Types
<1>6. QED BY <1>2, <1>3, <1>4, <1>5 DEF Next

LEMMA IInvInit == Init => IInv
<1> SUFFICES ASSUME Init PROVE IInv
  OBVIOUS
<1>1. RmqTypeOK
  BY DEF Init, RmqInit, RmqTypeOK
<1>2. stored \in SUBSET Node /\ Closed(stored) /\ writes \in 0..MaxWrites
  BY ReportAssumption DEF Init
<1>3. NoDraft \in Draft /\ "start" \in Step
  BY DEF NoDraft, Draft, Report, Step
<1>4. TypeOK
  BY <1>1, <1>2, <1>3 DEF Init, TypeOK, Role
<1>5. Slots
  BY DEF Slots, Knows, Drafted, Init
<1>6. AdminsSeen /\ Cached
  BY DEF AdminsSeen, Cached, Init, Unknown
<1>7. QED BY <1>4, <1>5, <1>6 DEF IInv

THEOREM ReportsInvariant == Spec => []IInv
  BY IInvInit, IInvStep, PTL DEF Spec

\* The types, and the stored tree is closed: no row without its parent.
THEOREM ReportsTypeCorrect == Spec => []TypeOK
<1>1. IInv => TypeOK
  BY DEF IInv
<1>2. QED BY <1>1, ReportsInvariant, PTL
-----------------------------------------------------------------------------
\* The sheets.

LEMMA ChainOwner ==
  ASSUME NEW x \in Node, NEW y \in Chain(x)
  PROVE  y \in Node /\ Owner(y) = Owner(x)
<1>1. CASE y = x
  BY <1>1
<1>2. CASE y = FarmOf(x)
  BY <1>2, Ancestors
<1>3. CASE KindOf[x] \in {"activity", "harvest"} /\ y = ParentOf[x]
  BY <1>3, Parents, Ancestors
<1>4. QED BY <1>1, <1>2, <1>3 DEF Chain

\* Every row of a tree is on the line of some leaf of it: itself, a child's, or
\* a grandchild's.
LEMMA LeafOf ==
  ASSUME NEW tree \in SUBSET Node, NEW x \in tree
  PROVE  \E y \in tree : Below(y, tree) = {} /\ x \in Chain(y)
<1>1. \A y \in tree : KindOf[y] \in {"activity", "harvest"} => Below(y, tree) = {}
  BY Parents DEF Below, Kind
<1>2. \A y \in tree : y \in Chain(y) /\ FarmOf(y) \in Chain(y)
  BY DEF Chain
<1>3. ASSUME NEW c \in tree, KindOf[c] = "crop"
      PROVE  \E y \in tree : Below(y, tree) = {} /\ c \in Chain(y) /\ FarmOf(c) \in Chain(y)
  <2>1. CASE Below(c, tree) = {}
    BY <1>2, <2>1
  <2>2. CASE Below(c, tree) # {}
    <3>1. PICK y \in tree : KindOf[y] # "farm" /\ ParentOf[y] = c
      BY <2>2 DEF Below
    <3>2. KindOf[y] \in {"activity", "harvest"}
      BY <1>3, <3>1, Parents DEF Kind
    <3>3. c \in Chain(y) /\ FarmOf(c) = FarmOf(y)
      BY <3>1, <3>2, Ancestors DEF Chain
    <3>4. QED BY <1>1, <1>2, <3>2, <3>3
  <2>3. QED BY <2>1, <2>2
<1>4. CASE KindOf[x] = "farm"
  <2>1. CASE Below(x, tree) = {}
    BY <1>2, <2>1
  <2>2. CASE Below(x, tree) # {}
    <3>1. PICK c \in tree : KindOf[c] # "farm" /\ ParentOf[c] = x
      BY <2>2 DEF Below
    <3>2. KindOf[c] = "crop"
      BY <1>4, <3>1, Parents DEF Kind
    <3>3. FarmOf(c) = x
      BY <3>1, <3>2 DEF FarmOf
    <3>4. QED BY <1>3, <3>2, <3>3
  <2>3. QED BY <2>1, <2>2
<1>5. CASE KindOf[x] # "farm"
  BY <1>1, <1>2, <1>3, <1>5, Parents DEF Kind
<1>6. QED BY <1>4, <1>5

\* The farms of a closed tree are each in the group of their owner.
LEMMA GroupOf ==
  ASSUME NEW r \in Report, Closed(r.tree), NEW x \in r.tree
  PROVE  \E g \in Groups(r) : FarmOf(x) \in g.farms
<1>1. r.tree \in SUBSET Node /\ x \in Node
  BY DEF Report
<1>2. PICK g : g = [owner |-> Owner(x), named |-> Owner(x) \in r.named,
                    farms |-> {f \in r.tree : KindOf[f] = "farm" /\ ParentOf[f] = Owner(x)}]
  OBVIOUS
<1>3. g \in Groups(r)
  BY <1>2 DEF Groups
<1>4. FarmOf(x) \in r.tree /\ KindOf[FarmOf(x)] = "farm" /\ ParentOf[FarmOf(x)] = Owner(x)
  BY <1>1, FarmIsThere, Ancestors
<1>5. FarmOf(x) \in g.farms
  BY <1>2, <1>4
<1>6. QED BY <1>3, <1>5

\* A row of a closed tree is on the sheet made of it.
LEMMA RowIsShown ==
  ASSUME NEW k \in Slot, report(k) \in Report, Closed(report(k).tree), NEW x \in report(k).tree
  PROVE  x \in UNION Sheet(k)
<1>1. report(k).tree \in SUBSET Node
  BY DEF Report
<1>2. PICK y \in report(k).tree : Below(y, report(k).tree) = {} /\ x \in Chain(y)
  BY <1>1, LeafOf
<1>3. Chain(y) \in RowsOf(FarmOf(y), report(k).tree)
  BY <1>2 DEF RowsOf
<1>4. CASE ~ForAll(k)
  <2>1. Chain(y) \in FarmerSheet(report(k))
    BY <1>3 DEF FarmerSheet
  <2>2. QED BY <1>2, <1>4, <2>1 DEF Sheet
<1>5. CASE ForAll(k)
  <2>1. PICK g \in Groups(report(k)) : FarmOf(y) \in g.farms
    BY GroupOf
  <2>2. PICK line : line = [columns |-> OwnerColumn \cap DOMAIN g, row |-> Chain(y)]
    OBVIOUS
  <2>3. line \in AdminSheet(report(k))
    <3>1. Chain(y) \in UNION {RowsOf(f, report(k).tree) : f \in g.farms}
      BY <1>3, <2>1
    <3>2. line \in {[columns |-> OwnerColumn \cap DOMAIN g, row |-> row] :
                     row \in UNION {RowsOf(f, report(k).tree) : f \in g.farms}}
      BY <2>2, <3>1, Zenon
    <3>3. QED BY <2>1, <3>2, Zenon DEF AdminSheet
  <2>4. line.row = Chain(y)
    BY <2>2
  <2>5. Chain(y) \in Sheet(k)
    BY <1>5, <2>3, <2>4 DEF Sheet
  <2>6. QED BY <1>2, <2>5
<1>6. QED BY <1>4, <1>5

\* What IInv says of a report that was sent.
LEMMA Sent ==
  ASSUME IInv, NEW k \in Slot, Replied(k)
  PROVE  /\ Good(report(k), ScopeOf(k)) /\ report(k) \in Report
         /\ report(k).tree \in SUBSET Node
         /\ ForAll(k) => ScopeOf(k) = "all" /\ req(k).user \in admins
         /\ ~ForAll(k) => ScopeOf(k) = req(k).user /\ ScopeOf(k) # "all"
<1>1. step[k] = "replied"
  BY DEF Replied
<1>2. Good(report(k), ScopeOf(k))
  BY <1>1 DEF IInv, Slots, Drafted
<1>3. QED BY <1>1, <1>2, RequestOf, DraftType DEF IInv
-----------------------------------------------------------------------------
\* Whatever is written between the queries of a report, and whether the answer
\* is fresh or was cached: a row that stood all the while is on the sheet.
THEOREM KeptRowsAreShown == Spec => []KeptIsShown
<1>1. IInv => KeptIsShown
  <2> SUFFICES ASSUME IInv, NEW k \in Slot, Replied(k), NEW x \in report(k).kept
               PROVE  x \in UNION Sheet(k)
    BY DEF KeptIsShown
  <2>1. x \in report(k).tree /\ Closed(report(k).tree) /\ report(k) \in Report
    BY Sent DEF Good
  <2>2. QED BY <2>1, RowIsShown
<1>2. QED BY <1>1, ReportsInvariant, PTL

\* A farmer only sees rows he owns: no scope's cache serves another's.
THEOREM FarmersSeeTheirOwn == Spec => []FarmersSeeOwn
<1>1. IInv => FarmersSeeOwn
  <2> SUFFICES ASSUME IInv, NEW k \in Slot, Replied(k), ~ForAll(k),
                      NEW row \in Sheet(k), NEW x \in row
               PROVE  Owner(x) = req(k).user
    BY DEF FarmersSeeOwn
  <2>1. PICK y \in report(k).tree : row = Chain(y)
    BY DEF Sheet, FarmerSheet, RowsOf
  <2>2. y \in Node /\ Owner(y) = req(k).user
    BY Sent DEF Good, Fits
  <2>3. QED BY <2>1, <2>2, ChainOwner
<1>2. QED BY <1>1, ReportsInvariant, PTL

\* Nobody gets the report of all farms, cached or not, whom the projection
\* never showed as an admin.
THEOREM OnlyAdminsGetAll == Spec => []AdminsOnly
<1>1. IInv => AdminsOnly
  BY Sent DEF AdminsOnly
<1>2. QED BY <1>1, ReportsInvariant, PTL

\* Owners known when the report was begun are never shown as a bare id, and no
\* farm is left without a group.
THEOREM OwnersAreJoined == Spec => []OwnersJoined
<1>1. IInv => OwnersJoined
  <2> SUFFICES ASSUME IInv, NEW k \in Slot, Replied(k), ForAll(k)
               PROVE  /\ \A g \in Groups(report(k)) :
                           g.owner \in report(k).known => g.named
                      /\ \A x \in report(k).tree :
                           \E g \in Groups(report(k)) : FarmOf(x) \in g.farms
    BY DEF OwnersJoined
  <2>1. /\ report(k).known \subseteq report(k).named
        /\ Closed(report(k).tree) /\ report(k) \in Report
    BY Sent DEF Good
  <2>2. ASSUME NEW g \in Groups(report(k)), g.owner \in report(k).known PROVE g.named
    <3>1. PICK u : /\ g.owner = u /\ g.named = (u \in report(k).named)
      BY DEF Groups
    <3>2. QED BY <2>1, <2>2, <3>1
  <2>3. QED BY <2>1, <2>2, GroupOf
<1>2. QED BY <1>1, ReportsInvariant, PTL
=============================================================================
