----------------------------- MODULE FarmsDomain -----------------------------
(***************************************************************************)
(* The farms service: the requests that create, update, delete and attach a *)
(* photo to farms, crops, activities and harvests, as the handlers of the   *)
(* consumer in RmqConsumer.  Every handler first loads the row it is about  *)
(* and checks that the chain User -< Farm -< Crop -< Activity / Harvest     *)
(* ends at the requester; some check more; then they write.  The checks and *)
(* the write are separate queries, so that other deliveries, crashes and    *)
(* lost connections come between them.                                      *)
(*                                                                         *)
(* The four services differ only in which checks they make, so a request    *)
(* names its kind.  A farm's parent is its owner.  The database is Postgres *)
(* with the constraints of FarmsInitialSchema; "save" of a loaded entity    *)
(* writes back what was loaded, and inserts it again if it is gone.         *)
(***************************************************************************)
EXTENDS RmqConsumer

CONSTANTS User,   \* users
          Value,  \* names of farms, and what updates set on the others
          MaxId,  \* bound: rows ever inserted in a table
          Detach  \* whether a connection may be lost under a handler

Kind == {"farm", "crop", "activity", "harvest"}
Op == {"create", "update", "delete", "upload"}
Id == 1..MaxId

\* A request to create names the parent's id, any other the row's own; "nr"
\* tells requests apart that ask for the same.
Request == [nr : Nat, kind : Kind, op : Op, user : User, id : Id, value : Value]

ASSUME FarmsAssumption ==
  /\ MaxId \in Nat \ {0}
  /\ Detach \in BOOLEAN
  /\ Msg \subseteq Request
  /\ Rpc = Msg
  /\ Guarded = {}

VARIABLES
  db,     \* the four tables
  serial, \* next id of each table
  events, \* outbox rows committed with the rows they report
  seen,   \* the entity each handler has loaded
  step,   \* where it is: "start", "loaded" (and owned), "cleared" to write
  made    \* ids each request has inserted, over all its deliveries

local == <<seen, step>>
farmsVars == <<db, serial, events, local, made>>
vars == <<rmqVars, farmsVars>>

Absent == [absent |-> TRUE]
Row == [parent : Id \cup User, value : Value, photo : BOOLEAN]
Event == [kind : Kind, id : Id, crop : Id, farm : Id, user : User]

TypeOK ==
  /\ RmqTypeOK
  /\ db \in [Kind -> [Id -> Row \cup {Absent}]]
  /\ serial \in [Kind -> 1..(MaxId + 1)]
  /\ events \in SUBSET Event
  /\ seen \in [Slot -> Row \cup {Absent}]
  /\ step \in [Slot -> {"start", "loaded", "cleared"}]
  /\ made \in [Msg -> SUBSET Id]

Init ==
  /\ RmqInit
  /\ db = [t \in Kind |-> [i \in Id |-> Absent]]
  /\ serial = [t \in Kind |-> 1]
  /\ events = {}
  /\ seen = [k \in Slot |-> Absent]
  /\ step = [k \in Slot |-> "start"]
  /\ made = [m \in Msg |-> {}]
-----------------------------------------------------------------------------
(* The tables and their constraints.                                        *)

ParentKind == [crop |-> "farm", activity |-> "crop", harvest |-> "crop"]

Exists(t, i) == db[t][i] # Absent

\* The owner at the end of the chain of an existing row.
FarmOf(t, i) == CASE t = "farm" -> i
                  [] t = "crop" -> db.crop[i].parent
                  [] OTHER      -> db.crop[db[t][i].parent].parent
OwnerOf(t, i) == db.farm[FarmOf(t, i)].parent

\* Mutant of Permitted: no unique constraint on farm names.
PermittedDuplicate(t, i, row) ==
  t # "farm" => i \in Id /\ Exists(ParentKind[t], row.parent)

\* UNIQUE (name, userId) on farms, a foreign key to the parent on the others.
Permitted(t, i, row) ==
  IF t = "farm"
  THEN \A f \in Id \ {i} : Exists("farm", f) =>
          <<db.farm[f].parent, db.farm[f].value>> # <<row.parent, row.value>>
  ELSE Exists(ParentKind[t], row.parent)

\* Mutant of Children: no foreign key from harvests to crops.
ChildrenButHarvests(t, i) ==
  {p \in {"crop", "activity"} \X Id :
     ParentKind[p[1]] = t /\ Exists(p[1], p[2]) /\ db[p[1]][p[2]].parent = i}

\* ON DELETE NO ACTION: rows that still refer to this one.
Children(t, i) ==
  {p \in (DOMAIN ParentKind) \X Id :
     ParentKind[p[1]] = t /\ Exists(p[1], p[2]) /\ db[p[1]][p[2]].parent = i}

HarvestsOf(c) == {h \in Id : Exists("harvest", h) /\ db.harvest[h].parent = c}
OwnFarmsNamed(u, n) == {f \in Id : /\ Exists("farm", f)
                                   /\ db.farm[f].parent = u
                                   /\ db.farm[f].value = n}
-----------------------------------------------------------------------------
(* What a request needs.                                                    *)

req(k) == run[k].msg
InStep(k, s) == At(k, "running") /\ step[k] = s
Is(k, t, op) == req(k).kind = t /\ req(k).op = op
NewFarm(k) == Is(k, "farm", "create")

\* The table whose row the ownership check loads.
Loads(m) == IF m.op = "create" THEN ParentKind[m.kind] ELSE m.kind
Checked(k) == Loads(req(k))

\* Mutant of Owns: the row is found, whoever owns it.
OwnsFound(k) == Exists(Checked(k), req(k).id)

\* assertFarmOwner, assertCropOwner, ...: found, and the requester's.
Owns(k) == /\ Exists(Checked(k), req(k).id)
           /\ OwnerOf(Checked(k), req(k).id) = req(k).user

\* Requests with something to await between the ownership check and the write:
\* the harvest of the crop, the name of the farm, the upload to S3.
ChecksMore(k) == \/ Is(k, "harvest", "create")
                 \/ Is(k, "farm", "update")
                 \/ req(k).op = "upload"

\* updateFarm looks for the name among the farms of every owner.
NameTaken(k) == \E f \in Id \ {req(k).id} :
                   Exists("farm", f) /\ db.farm[f].value = req(k).value

\* Mutant of ClearedBy: the check for a harvest is left out.
ClearedUnasked(k) == Is(k, "farm", "update") => ~NameTaken(k)

ClearedBy(k) ==
  CASE Is(k, "harvest", "create") -> HarvestsOf(req(k).id) = {}
    [] Is(k, "farm", "update")    -> ~NameTaken(k)
    [] OTHER                      -> TRUE

\* The row a creation inserts, and the one a save writes back.
NewRow(k) == [parent |-> IF NewFarm(k) THEN req(k).user ELSE req(k).id,
              value |-> req(k).value, photo |-> FALSE]
Saved(k) == IF req(k).op = "upload" THEN [seen[k] EXCEPT !.photo = TRUE]
                                    ELSE [seen[k] EXCEPT !.value = req(k).value]
-----------------------------------------------------------------------------
Goes(k, s) == step' = [step EXCEPT ![k] = s]
Forget(k) == /\ step' = [step EXCEPT ![k] = "start"]
             /\ seen' = [seen EXCEPT ![k] = Absent]
Return(k) == HandlerReturns(k) /\ Forget(k)
Throw(k) == HandlerThrows(k) /\ Forget(k)
Put(t, i, row) == db' = [db EXCEPT ![t][i] = row]

\* createFarm: no farm of this user has the name.
CheckNewFarm(k) ==
  /\ InStep(k, "start") /\ NewFarm(k)
  /\ OwnFarmsNamed(req(k).user, req(k).value) = {}
  /\ Goes(k, "cleared")
  /\ UNCHANGED <<rmqVars, db, serial, events, seen, made>>

\* Everything else starts by loading a row that must be the requester's.
CheckOwner(k) ==
  /\ InStep(k, "start") /\ ~NewFarm(k)
  /\ Owns(k)
  /\ seen' = [seen EXCEPT ![k] = db[Checked(k)][req(k).id]]
  /\ Goes(k, IF ChecksMore(k) THEN "loaded" ELSE "cleared")
  /\ UNCHANGED <<rmqVars, db, serial, events, made>>

CheckMore(k) ==
  /\ InStep(k, "loaded")
  /\ ClearedBy(k)
  /\ Goes(k, "cleared")
  /\ UNCHANGED <<rmqVars, db, serial, events, seen, made>>

RefuseRename(k) ==
  /\ InStep(k, "loaded") /\ Is(k, "farm", "update")
  /\ NameTaken(k)
  /\ Throw(k)
  /\ UNCHANGED <<db, serial, events, made>>

RefuseHarvest(k) ==
  /\ InStep(k, "loaded") /\ Is(k, "harvest", "create")
  /\ ~ClearedBy(k)
  /\ Throw(k)
  /\ UNCHANGED <<db, serial, events, made>>

\* 404, 403, a constraint that rejects the write (its transaction is rolled
\* back; the wasted id is never used), or a store that fails.
Fails(k) ==
  /\ At(k, "running")
  /\ Throw(k)
  /\ UNCHANGED <<db, serial, events, made>>

\* Mutants of Create: the event is not enqueued; it names the crop's farm by
\* what is the farm's owner.
CreateSilently(k) ==
  LET t == req(k).kind
      i == serial[t]
  IN  /\ InStep(k, "cleared") /\ req(k).op = "create"
      /\ i \in Id
      /\ Permitted(t, i, NewRow(k))
      /\ Put(t, i, NewRow(k))
      /\ serial' = [serial EXCEPT ![t] = i + 1]
      /\ made' = [made EXCEPT ![req(k)] = @ \cup {i}]
      /\ Return(k)
      /\ UNCHANGED events

CreateConfuses(k) ==
  LET t == req(k).kind
      i == serial[t]
      event == [kind |-> t, id |-> i, user |-> req(k).user,
                crop |-> IF t = "crop" THEN i ELSE req(k).id,
                farm |-> seen[k].parent]
  IN  /\ InStep(k, "cleared") /\ req(k).op = "create"
      /\ i \in Id
      /\ Permitted(t, i, NewRow(k))
      /\ Put(t, i, NewRow(k))
      /\ serial' = [serial EXCEPT ![t] = i + 1]
      /\ events' = IF t = "farm" THEN events ELSE events \cup {event}
      /\ made' = [made EXCEPT ![req(k)] = @ \cup {i}]
      /\ Return(k)

\* The row and its outbox event commit together; createFarm has no event.
Create(k) ==
  LET t == req(k).kind
      i == serial[t]
      event == [kind |-> t, id |-> i, user |-> req(k).user,
                crop |-> IF t = "crop" THEN i ELSE req(k).id,
                farm |-> IF t = "crop" THEN req(k).id ELSE seen[k].parent]
  IN  /\ InStep(k, "cleared") /\ req(k).op = "create"
      /\ i \in Id
      /\ Permitted(t, i, NewRow(k))
      /\ Put(t, i, NewRow(k))
      /\ serial' = [serial EXCEPT ![t] = i + 1]
      /\ events' = IF t = "farm" THEN events ELSE events \cup {event}
      /\ made' = [made EXCEPT ![req(k)] = @ \cup {i}]
      /\ Return(k)

\* updateFarm: an UPDATE by id, which finds nothing if the farm is gone.
Rename(k) ==
  LET i == req(k).id
  IN  /\ InStep(k, "cleared") /\ Is(k, "farm", "update")
      /\ IF Exists("farm", i)
         THEN LET row == [db.farm[i] EXCEPT !.value = req(k).value]
              IN  Permitted("farm", i, row) /\ Put("farm", i, row)
         ELSE UNCHANGED db
      /\ Return(k)
      /\ UNCHANGED <<serial, events, made>>

\* The other updates, and every upload: save of the loaded entity.
Save(k) ==
  /\ InStep(k, "cleared")
  /\ req(k).op \in {"update", "upload"} /\ ~Is(k, "farm", "update")
  /\ Permitted(req(k).kind, req(k).id, Saved(k))
  /\ Put(req(k).kind, req(k).id, Saved(k))
  /\ Return(k)
  /\ UNCHANGED <<serial, events, made>>

Remove(k) ==
  /\ InStep(k, "cleared") /\ req(k).op = "delete"
  /\ Children(req(k).kind, req(k).id) = {}
  /\ Put(req(k).kind, req(k).id, Absent)
  /\ Return(k)
  /\ UNCHANGED <<serial, events, made>>

Die(k) == Crash(k) /\ Forget(k) /\ UNCHANGED <<db, serial, events, made>>
-----------------------------------------------------------------------------
Handle(k) == \/ CheckNewFarm(k) \/ CheckOwner(k) \/ CheckMore(k)
             \/ RefuseRename(k) \/ RefuseHarvest(k) \/ Fails(k)
             \/ Create(k) \/ Rename(k) \/ Save(k) \/ Remove(k)

Around(k) == /\ Settle(k) \/ (Detach /\ LoseConnection(k))
             /\ UNCHANGED farmsVars

\* A client names a row it may have been told of, its own or not: any other
\* id is a 404, which Fails covers.
Known(m) == <<m.kind, m.op>> # <<"farm", "create">> => m.id < serial[Loads(m)]

Deliveries == \/ \E m \in Msg : Known(m) /\ Publish(m)
              \/ \E k \in Slot, m \in Msg, n \in Count : Deliver(k, m, n)

Next == \/ Deliveries /\ UNCHANGED farmsVars
        \/ \E k \in Slot : Handle(k) \/ Around(k) \/ Die(k)

Spec == Init /\ [][Next]_vars
-----------------------------------------------------------------------------
Stored == {p \in Kind \X Id : Exists(p[1], p[2])}

\* "Harvest (one per crop)" (README.md:70): the check that a crop has no
\* harvest yet and the insert are two queries, with no constraint behind them.
OneHarvestPerCrop == \A c \in Id : Cardinality(HarvestsOf(c)) <= 1

\* The (name, userId) constraint holds whatever createFarm's own check saw.
UniqueNames ==
  \A u \in User, n \in Value : Cardinality(OwnFarmsNamed(u, n)) <= 1

\* No row loses its parent: deletes race with creations and with saves that
\* bring a deleted row back.
ChainIntact ==
  \A p \in Stored : p[1] # "farm" => Exists(ParentKind[p[1]], db[p[1]][p[2]].parent)

\* Exactly one event is in the outbox for every crop, activity and harvest
\* ever inserted, and it names the crop, farm and owner the row hangs from.
EventsTellTheTruth ==
  \A t \in Kind \ {"farm"}, i \in Id :
    LET about == {e \in events : e.kind = t /\ e.id = i}
    IN  /\ Cardinality(about) = IF i < serial[t] THEN 1 ELSE 0
        /\ Exists(t, i) => \A e \in about :
             /\ e.crop = IF t = "crop" THEN i ELSE db[t][i].parent
             /\ e.farm = FarmOf(t, i)
             /\ e.user = OwnerOf(t, i)

\* A row is only ever changed by a request of the user it belongs to, however
\* long ago that request checked the ownership.
OwnersOnly ==
  [][\A p \in Kind \X Id : db'[p[1]][p[2]] # db[p[1]][p[2]] =>
       \E k \in Slot :
         /\ At(k, "running") /\ run'[k] # run[k]
         /\ req(k).user = IF Exists(p[1], p[2]) THEN OwnerOf(p[1], p[2])
                                                ELSE OwnerOf(p[1], p[2])']_vars

\* A request creates a second row only after a fault: the ack of the first
\* delivery is the one thing that keeps it from being handled again.
CreatedOncePerDelivery == \A m \in Msg : Cardinality(made[m]) <= 1 + faults
=============================================================================
