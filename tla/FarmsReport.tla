----------------------------- MODULE FarmsReport -----------------------------
(***************************************************************************)
(* ReportService of farms and the sheets the gateway makes of its answers.  *)
(* A report is the tree of farms, crops, activities and harvests, read with *)
(* one query per relation while others write, joined with the owners known  *)
(* to user_projection, and kept in Redis under one key per scope.  The      *)
(* handlers are those of the consumer in RmqConsumer; user events arrive on *)
(* the same queue and change who is an admin in the middle of it.           *)
(*                                                                         *)
(* What FarmsDomain does to a row is reduced to its coming and going, and   *)
(* what a row holds to its place in the tree.  The gateway's guards only    *)
(* narrow who asks: the service is not to rely on them, so anyone may.      *)
(***************************************************************************)
EXTENDS RmqConsumer

CONSTANTS User,
          Node,     \* rows of the four tables
          KindOf,   \* the table of each
          ParentOf, \* the row it refers to; the owner, for a farm
          Before,   \* what the tables may hold at first
          MaxWrites \* bound: rows that come or go

Kind == {"farm", "crop", "activity", "harvest"}
Role == {"none", "admin"}
Unknown == "unknown"
ParentKind == [crop |-> "farm", activity |-> "crop", harvest |-> "crop"]

\* "of": whose farms a farmer report is about; the role a user event carries.
AdminRequest == [cmd : {"getAdminReport"}, user : User]
FarmerRequest == [cmd : {"getFarmerReport"}, user : User, of : User]
UserEvent == [cmd : {"user.updated"}, user : User, of : Role]

\* FOREIGN KEY: every row has its parent.
Closed(rows) == \A x \in rows : KindOf[x] = "farm" \/ ParentOf[x] \in rows

ASSUME ReportAssumption ==
  /\ KindOf \in [Node -> Kind]
  /\ DOMAIN ParentOf = Node
  /\ \A x \in Node : IF KindOf[x] = "farm" THEN ParentOf[x] \in User
                     ELSE /\ ParentOf[x] \in Node
                          /\ KindOf[ParentOf[x]] = ParentKind[KindOf[x]]
  /\ Before \subseteq {rows \in SUBSET Node : Closed(rows)}
  /\ MaxWrites \in Nat
  /\ "all" \notin User
  /\ Rpc \subseteq AdminRequest \cup FarmerRequest
  /\ Msg \ Rpc \subseteq UserEvent
  /\ Guarded = {}

VARIABLES
  stored,    \* the rows that exist
  writes,    \* how often that has changed
  projected, \* the role in each user's projection, if there is one
  admins,    \* users it ever showed as admin
  cache,     \* Redis: a report per scope, or nothing
  work,      \* what each handler has gathered
  step       \* where it is

reportVars == <<stored, writes, projected, admins, cache, work, step>>
vars == <<rmqVars, reportVars>>

Scope == User \cup {"all"}
Step == {"start", "allowed", "loading", "joining", "built", "replied"}

\* tree, named: what was read.  kept, known: the rows that stood from before the
\* first query to after the last, the users projected before the first.
Report == [tree : SUBSET Node, named : SUBSET User,
           kept : SUBSET Node, known : SUBSET User]
Draft == [todo : SUBSET Kind, report : Report]
Nothing == [absent |-> TRUE]
NoDraft == [todo |-> {}, report |-> [tree |-> {}, named |-> {}, kept |-> {},
                                     known |-> {}]]

TypeOK ==
  /\ RmqTypeOK
  /\ stored \in SUBSET Node /\ Closed(stored)
  /\ writes \in 0..MaxWrites
  /\ projected \in [User -> Role \cup {Unknown}]
  /\ admins \subseteq User
  /\ cache \in [Scope -> Report \cup {Nothing}]
  /\ work \in [Slot -> Draft]
  /\ step \in [Slot -> Step]

Init ==
  /\ RmqInit
  /\ stored \in Before
  /\ writes = 0
  /\ projected \in [User -> {"none", Unknown}]
  /\ admins = {}
  /\ cache = [s \in Scope |-> Nothing]
  /\ work = [k \in Slot |-> NoDraft]
  /\ step = [k \in Slot |-> "start"]
-----------------------------------------------------------------------------
req(k) == run[k].msg
InStep(k, s) == At(k, "running") /\ step[k] = s
ForAll(k) == req(k).cmd = "getAdminReport"
ScopeOf(k) == IF ForAll(k) THEN "all" ELSE req(k).of
report(k) == work[k].report

FarmOf(x) == CASE KindOf[x] = "farm" -> x
               [] KindOf[x] = "crop" -> ParentOf[x]
               [] OTHER              -> ParentOf[ParentOf[x]]
Owner(x) == ParentOf[FarmOf(x)]
-----------------------------------------------------------------------------
(* The rest of farms.                                                       *)

\* Mutant of Write: a parent is deleted under its rows.
WriteOrphans(rows) ==
  /\ writes < MaxWrites
  /\ writes' = writes + 1
  /\ stored' = rows
  /\ UNCHANGED <<rmqVars, projected, admins, cache, work, step>>

\* A row comes or goes; reports being read note which rows stood all along.
Write(rows) ==
  /\ writes < MaxWrites
  /\ writes' = writes + 1
  /\ Closed(rows)
  /\ stored' = rows
  /\ work' = [k \in Slot |->
                IF step[k] = "loading"
                THEN [work[k] EXCEPT !.report.kept = @ \cap rows] ELSE work[k]]
  /\ UNCHANGED <<rmqVars, projected, admins, cache, step>>

Insert(x) == x \notin stored /\ Write(stored \cup {x})
Delete(x) == x \in stored /\ Write(stored \ {x})

Forget(k) == /\ work' = [work EXCEPT ![k] = NoDraft]
             /\ step' = [step EXCEPT ![k] = "start"]
Goes(k, s) == step' = [step EXCEPT ![k] = s]

\* user.created, user.updated: the projection takes what the event carries.
ProjectUser(k) ==
  LET e == req(k)
  IN  /\ InStep(k, "start") /\ e \notin Rpc
      /\ projected' = [projected EXCEPT ![e.user] = e.of]
      /\ admins' = IF e.of = "admin" THEN admins \cup {e.user} ELSE admins
      /\ HandlerReturns(k)
      /\ UNCHANGED <<stored, writes, cache, work, step>>
-----------------------------------------------------------------------------
(* ReportService.                                                           *)

\* Mutant of MayRead: the role is left to the gateway's RolesGuard.
MayReadUnchecked(k) == ~ForAll(k) => req(k).of = req(k).user

\* The projection says admin; a farmer asks for himself.
MayRead(k) == IF ForAll(k) THEN projected[req(k).user] = "admin"
                           ELSE req(k).of = req(k).user

Allow(k) ==
  /\ InStep(k, "start") /\ req(k) \in Rpc
  /\ MayRead(k)
  /\ Goes(k, "allowed")
  /\ UNCHANGED <<rmqVars, stored, writes, projected, admins, cache, work>>

Refuse(k) ==
  /\ InStep(k, "start") /\ req(k) \in Rpc
  /\ ~MayRead(k)
  /\ HandlerThrows(k)
  /\ UNCHANGED reportVars

\* Mutant of KeyOf: one key for every report.
KeyOfAll(k) == IF k \in Slot THEN "all" ELSE ScopeOf(k)

\* ADMIN_REPORT_KEY, farmerReportKey.
KeyOf(k) == ScopeOf(k)

CacheHit(k) ==
  /\ InStep(k, "allowed")
  /\ cache[KeyOf(k)] # Nothing
  /\ work' = [work EXCEPT ![k].report = cache[KeyOf(k)]]
  /\ Goes(k, "replied")
  /\ HandlerReturns(k)
  /\ UNCHANGED <<stored, writes, projected, admins, cache>>

CacheMiss(k) ==
  /\ InStep(k, "allowed")
  /\ cache[KeyOf(k)] = Nothing
  /\ work' = [work EXCEPT ![k] =
       [todo |-> Kind,
        report |-> [NoDraft.report EXCEPT
          !.kept = {x \in stored : ForAll(k) \/ Owner(x) = req(k).of},
          !.known = {u \in User : projected[u] # Unknown}]]]
  /\ Goes(k, "loading")
  /\ UNCHANGED <<rmqVars, stored, writes, projected, admins, cache>>

\* The rows of one relation, of the parents that were found.
Found(k, t) ==
  {x \in stored : /\ KindOf[x] = t
                  /\ IF t = "farm" THEN ForAll(k) \/ ParentOf[x] = req(k).of
                                   ELSE ParentOf[x] \in report(k).tree}

\* relationLoadStrategy "query": parents first, siblings in any order.
Query(k, t) ==
  /\ InStep(k, "loading")
  /\ t \in work[k].todo
  /\ t \in DOMAIN ParentKind => ParentKind[t] \notin work[k].todo
  /\ work' = [work EXCEPT ![k].todo = @ \ {t},
                          ![k].report.tree = @ \cup Found(k, t)]
  /\ Goes(k, IF work[k].todo # {t} THEN "loading"
             ELSE IF ForAll(k) THEN "joining" ELSE "built")
  /\ UNCHANGED <<rmqVars, stored, writes, projected, admins, cache>>

\* Mutant of LoadOwners: only owners the requester could be.
LoadOwnersAdmins(k) ==
  /\ InStep(k, "joining")
  /\ work' = [work EXCEPT ![k].report.named =
                {u \in User : projected[u] = "admin"}]
  /\ Goes(k, "built")
  /\ UNCHANGED <<rmqVars, stored, writes, projected, admins, cache>>

\* Everybody in user_projection, by id.
LoadOwners(k) ==
  /\ InStep(k, "joining")
  /\ work' = [work EXCEPT ![k].report.named =
                {u \in User : projected[u] # Unknown}]
  /\ Goes(k, "built")
  /\ UNCHANGED <<rmqVars, stored, writes, projected, admins, cache>>

Finish(k) ==
  /\ InStep(k, "built")
  /\ cache' = [cache EXCEPT ![KeyOf(k)] = report(k)]
  /\ Goes(k, "replied")
  /\ HandlerReturns(k)
  /\ UNCHANGED <<stored, writes, projected, admins, work>>

\* REPORT_CACHE_TTL_SECONDS are over.
Expire(s) ==
  /\ cache[s] # Nothing
  /\ cache' = [cache EXCEPT ![s] = Nothing]
  /\ UNCHANGED <<rmqVars, stored, writes, projected, admins, work, step>>

\* A query, Redis or the upsert fails.
Fails(k) ==
  /\ At(k, "running")
  /\ HandlerThrows(k)
  /\ Forget(k)
  /\ UNCHANGED <<stored, writes, projected, admins, cache>>

GenerateReport(k) == \/ Allow(k) \/ Refuse(k) \/ CacheHit(k) \/ CacheMiss(k)
                     \/ (\E t \in Kind : Query(k, t))
                     \/ LoadOwners(k) \/ Finish(k)
-----------------------------------------------------------------------------
(* What the requester gets.                                                 *)

\* groupByOwner: the farms of each owner, with the projected data or the bare id.
Groups(r) ==
  {[owner |-> u, named |-> u \in r.named,
    farms |-> {f \in r.tree : KindOf[f] = "farm" /\ ParentOf[f] = u}] :
     u \in {Owner(x) : x \in r.tree}}

Below(x, tree) == {y \in tree : KindOf[y] # "farm" /\ ParentOf[y] = x}
Chain(x) == {x, FarmOf(x)} \cup
            IF KindOf[x] \in {"activity", "harvest"} THEN {ParentOf[x]} ELSE {}

\* Mutant of RowsOf: harvests only where there are no activities.
RowsOfEither(f, tree) ==
  {Chain(x) : x \in {y \in tree :
     /\ FarmOf(y) = f
     /\ Below(y, tree) = {}
     /\ KindOf[y] = "harvest" =>
          \A z \in Below(ParentOf[y], tree) : KindOf[z] # "activity"}}

\* The gateway writes a row for every activity and every harvest, for a crop
\* without either and for a farm without crops.  A row shows its farm and crop.
RowsOf(f, tree) ==
  {Chain(x) : x \in {y \in tree : FarmOf(y) = f /\ Below(y, tree) = {}}}

FarmerSheet(r) == UNION {RowsOf(f, r.tree) : f \in {FarmOf(x) : x \in r.tree}}

\* The admin sheet puts columns in front, taken from the group itself: of
\* these, a group has none.
OwnerColumn == {"firstName", "lastName", "email", "rol"}
AdminSheet(r) ==
  UNION {{[columns |-> OwnerColumn \cap DOMAIN g, row |-> row] :
            row \in UNION {RowsOf(f, r.tree) : f \in g.farms}} : g \in Groups(r)}

Sheet(k) == IF ForAll(k) THEN {line.row : line \in AdminSheet(report(k))}
                         ELSE FarmerSheet(report(k))
-----------------------------------------------------------------------------
Around(k) == \/ Settle(k) /\ Forget(k)
                          /\ UNCHANGED <<stored, writes, projected, admins, cache>>
             \/ LoseConnection(k) /\ UNCHANGED reportVars
             \/ Crash(k) /\ Forget(k)
                         /\ UNCHANGED <<stored, writes, projected, admins, cache>>

Deliveries == \/ \E m \in Msg : Publish(m)
              \/ \E k \in Slot, m \in Msg, n \in Count : Deliver(k, m, n)

Next == \/ Deliveries /\ UNCHANGED reportVars
        \/ \E x \in Node : Insert(x) \/ Delete(x)
        \/ \E s \in Scope : Expire(s)
        \/ \E k \in Slot : ProjectUser(k) \/ GenerateReport(k) \/ Fails(k) \/ Around(k)

Spec == Init /\ [][Next]_vars
-----------------------------------------------------------------------------
Replied(k) == ~IsIdle(k) /\ step[k] = "replied"

\* Whatever is written between the queries, and whether the answer is fresh or
\* was cached: a row that stood all the while the report was read is on the
\* sheet, and the sheet of a farm is not cut short by the tables it spans.
KeptIsShown ==
  \A k \in Slot : Replied(k) => report(k).kept \subseteq UNION Sheet(k)

\* "Keys are per-scope so a farmer's cache can't leak across users"
\* (report.service.ts:12-13): a farmer only sees rows he owns.
FarmersSeeOwn ==
  \A k \in Slot : Replied(k) /\ ~ForAll(k) =>
    \A row \in Sheet(k) : \A x \in row : Owner(x) = req(k).user

\* "a message put straight on the queue must not bypass it" (report.service.ts:
\* 45-46): nobody gets the admin report, cached or not, whom the projection
\* never showed as an admin.
AdminsOnly ==
  \A k \in Slot : Replied(k) /\ ForAll(k) => req(k).user \in admins

\* The owners are read after the farms: an owner who was known when the report
\* was begun is never shown as a bare id, and no farm is left without a group.
OwnersJoined ==
  \A k \in Slot : Replied(k) /\ ForAll(k) =>
    LET groups == Groups(report(k))
    IN  /\ \A g \in groups : g.owner \in report(k).known => g.named
        /\ \A x \in report(k).tree : \E g \in groups : FarmOf(x) \in g.farms

\* user_projection holds the "report ownership metadata" (user-projection
\* .entity.ts:4): the admin sheet shows it for an owner who is known.
OwnersShown ==
  \A k \in Slot : Replied(k) /\ ForAll(k) =>
    \A line \in AdminSheet(report(k)), x \in report(k).kept :
      x \in line.row /\ Owner(x) \in report(k).known => line.columns # {}
=============================================================================
