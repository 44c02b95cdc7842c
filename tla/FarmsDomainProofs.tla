--------------------------- MODULE FarmsDomainProofs ---------------------------
(***************************************************************************)
(* For any users, requests, replicas and faults: no row loses its parent,   *)
(* names stay unique, every event names the farm, the crop and the owner    *)
(* its row hangs from, only owners' requests change rows, and a crop has at *)
(* most one harvest for each handler that may overlap with the others.      *)
(*                                                                         *)
(* Rows come back: a save of an entity loaded before its row was deleted    *)
(* inserts it again.  What makes this harmless is that everything that      *)
(* remembers under what a row was inserted (the row, a handler that loaded  *)
(* it, the events) agrees, because ids are never used twice.                *)
(***************************************************************************)
EXTENDS FarmsDomain, RmqConsumerProofs

USE DEF broker, history, rmqVars, local, farmsVars

\* Every step of the service is a step of the consumer, or leaves it alone.
LEMMA StepOfConsumer == [Next]_vars => [RmqNext]_rmqVars
<1> SUFFICES ASSUME [Next]_vars PROVE [RmqNext]_rmqVars
  OBVIOUS
<1>1. CASE Deliveries /\ UNCHANGED farmsVars
  BY <1>1 DEF Deliveries, RmqNext, Transport
<1>2. ASSUME NEW k \in Slot, Handle(k) PROVE [RmqNext]_rmqVars
  BY <1>2 DEF Handle, CheckNewFarm, CheckOwner, CheckMore, RefuseRename,
     RefuseHarvest, Fails, Create, Rename, Save, Remove, Return, Throw, RmqNext
<1>3. ASSUME NEW k \in Slot, Around(k) \/ Die(k) PROVE [RmqNext]_rmqVars
  BY <1>3 DEF Around, Die, RmqNext
<1>4. CASE UNCHANGED vars
  BY <1>4 DEF vars
<1>5. QED BY <1>1, <1>2, <1>3, <1>4 DEF Next

\* The service implements the consumer.
THEOREM FarmsImplementConsumer == Spec => RmqSpec
<1>1. Init => RmqInit
  BY DEF Init
<1>2. QED BY <1>1, StepOfConsumer, PTL DEF Spec, RmqSpec
-----------------------------------------------------------------------------
\* The inductive invariant.

\* A handler past its ownership check, and one that loaded a row in it.
Past(k) == step[k] # "start"
Holds(k) == Past(k) /\ ~NewFarm(k)

\* What the tables, the handlers and the events say a row was inserted under.
StoredUnder(t, i, p) == Exists(t, i) /\ db[t][i].parent = p
HeldUnder(t, i, p) == \E k \in Slot : /\ Holds(k)
                                      /\ Checked(k) = t /\ req(k).id = i
                                      /\ seen[k].parent = p
Tells(e, t, i, p) == \/ t = "farm" /\ e.farm = i /\ e.user = p
                     \/ t = "crop" /\ e.crop = i /\ e.farm = p
                     \/ t \in {"activity", "harvest"} /\ e.kind = t /\ e.id = i
                        /\ e.crop = p
InsertedUnder(t, i, p) == \/ StoredUnder(t, i, p)
                          \/ HeldUnder(t, i, p)
                          \/ \E e \in events : Tells(e, t, i, p)

ParentsOf(t) == IF t = "farm" THEN User ELSE Id

\* They agree, for every row that was ever inserted.
ParentsAgree ==
  \A t \in Kind, i \in Id, p \in Id \cup User : InsertedUnder(t, i, p) =>
    /\ i < serial[t]
    /\ p \in ParentsOf(t)
    /\ \A q \in Id \cup User : InsertedUnder(t, i, q) => q = p

\* The chain a handler has checked is on record in the event about its row, and
\* for a farm in what was loaded.
Owned(k) ==
  IF Checked(k) = "farm" THEN seen[k].parent = req(k).user
  ELSE \E e \in events :
         /\ e.kind = Checked(k) /\ e.id = req(k).id /\ e.user = req(k).user
         /\ seen[k].parent = IF Checked(k) = "crop" THEN e.farm ELSE e.crop

HandlersKnow ==
  \A k \in Slot : Past(k) => /\ At(k, "running")
                             /\ ~NewFarm(k) => seen[k] \in Row /\ Owned(k)

EventsAreRows ==
  /\ \A e \in events : /\ e.kind # "farm" /\ e.id < serial[e.kind]
                       /\ e.kind = "crop" => e.crop = e.id
  /\ \A d, e \in events : d.kind = e.kind /\ d.id = e.id => d = e
  /\ \A t \in Kind \ {"farm"}, i \in Id : i < serial[t] =>
       \E e \in events : e.kind = t /\ e.id = i

NamesDiffer ==
  \A f, g \in {h \in Id : Exists("farm", h)} :
    /\ db["farm"][f].parent = db["farm"][g].parent
    /\ db["farm"][f].value = db["farm"][g].value
    => f = g

IInv == /\ TypeOK /\ HandlersKnow /\ ParentsAgree /\ EventsAreRows
        /\ ChainIntact /\ NamesDiffer
-----------------------------------------------------------------------------
LEMMA AbsentIsNotRow == Absent \notin Row
<1>1. ASSUME Absent \in Row PROVE FALSE
  <2>1. DOMAIN Absent = {"parent", "value", "photo"}
    BY <1>1 DEF Row
  <2>2. DOMAIN Absent = {"absent"}
    BY DEF Absent
  <2>3. QED BY <2>1, <2>2
<1>2. QED BY <1>1

LEMMA StoredRow ==
  ASSUME TypeOK, NEW t \in Kind, NEW i \in Id
  PROVE  /\ Exists(t, i) <=> db[t][i] \in Row
         /\ Exists(t, i) => /\ db[t][i].parent \in Id \cup User
                            /\ db[t][i].value \in Value
<1>1. db[t][i] \in Row \cup {Absent}
  BY DEF TypeOK
<1>2. QED BY <1>1, AbsentIsNotRow DEF Exists, Row

LEMMA ParentKinds ==
  /\ ParentKind["crop"] = "farm" /\ ParentKind["activity"] = "crop"
  /\ ParentKind["harvest"] = "crop"
  /\ DOMAIN ParentKind = {"crop", "activity", "harvest"}
  BY DEF ParentKind

\* The request of a busy slot.
LEMMA ReqType ==
  ASSUME TypeOK, NEW k \in Slot, ~IsIdle(k)
  PROVE  /\ req(k) \in Msg /\ req(k).kind \in Kind /\ req(k).op \in Op
         /\ req(k).user \in User /\ req(k).id \in Id /\ req(k).value \in Value
<1>1. run[k].msg \in Msg
  BY BusyRun DEF TypeOK
<1>2. run[k].msg \in Request
  BY <1>1, FarmsAssumption
<1>3. QED BY <1>1, <1>2 DEF req, Request

LEMMA CheckedType ==
  ASSUME TypeOK, NEW k \in Slot, ~IsIdle(k), ~NewFarm(k)
  PROVE  /\ Checked(k) \in Kind
         /\ req(k).op = "create" => /\ req(k).kind # "farm"
                                    /\ Checked(k) = ParentKind[req(k).kind]
         /\ req(k).op # "create" => Checked(k) = req(k).kind
  BY ReqType, ParentKinds DEF Checked, Loads, NewFarm, Is, Kind

\* What a step does to the handlers it is not about, and to those it ends.
Keeps(j) == /\ step'[j] = step[j] /\ seen'[j] = seen[j]
            /\ Past(j) => At(j, "running")' /\ run'[j].msg = run[j].msg
Ends(j) == step'[j] = "start" /\ seen'[j] = Absent

Checks(k) == CheckNewFarm(k) \/ CheckOwner(k) \/ CheckMore(k)
Writes(k) == Create(k) \/ Rename(k) \/ Save(k) \/ Remove(k)

LEMMA StepKinds ==
  ASSUME TypeOK, HandlersKnow, [Next]_vars
  PROVE  \/ /\ UNCHANGED <<db, serial, events, made>>
            /\ \A j \in Slot : Keeps(j) \/ Ends(j)
         \/ \E k \in Slot : Checks(k)
         \/ \E k \in Slot : /\ Writes(k)
                            /\ Ends(k)
                            /\ \A j \in Slot : j # k => Keeps(j)
<1> DEFINE Quiet == /\ UNCHANGED <<db, serial, events, made>>
                    /\ \A j \in Slot : Keeps(j) \/ Ends(j)
<1>1. ASSUME UNCHANGED farmsVars,
             \A j \in Slot : Past(j) =>
               ~IsIdle(j)' /\ run'[j].pc = run[j].pc /\ run'[j].msg = run[j].msg
      PROVE  Quiet
  BY <1>1 DEF HandlersKnow, Keeps, Past, At
<1>2. ASSUME NEW k \in Slot, Forget(k), \A j \in Slot : j # k => run'[j] = run[j]
      PROVE  Ends(k) /\ \A j \in Slot : j # k => Keeps(j)
  BY <1>2 DEF TypeOK, HandlersKnow, Forget, Ends, Keeps, Past, At, IsIdle
<1>3. CASE Deliveries /\ UNCHANGED farmsVars
  <2>1. \A j \in Slot : Past(j) => run'[j] = run[j] /\ ~IsIdle(j)
    <3>1. \A j \in Slot : Past(j) => ~IsIdle(j)
      BY DEF HandlersKnow, At
    <3>2. CASE UNCHANGED run
      BY <3>1, <3>2
    <3>3. CASE \E k \in Slot, m \in Msg, n \in Count : Deliver(k, m, n)
      BY <3>1, <3>3 DEF TypeOK, RmqTypeOK, Deliver
    <3>4. QED BY <1>3, <3>2, <3>3 DEF Deliveries, Publish
  <2>2. QED BY <1>1, <1>3, <2>1 DEF IsIdle
<1>4. ASSUME NEW k \in Slot, RefuseRename(k) \/ RefuseHarvest(k) \/ Fails(k) \/ Die(k)
      PROVE  Quiet
  <2>1. Forget(k) /\ \A j \in Slot : j # k => run'[j] = run[j]
    BY <1>4 DEF TypeOK, RmqTypeOK, RefuseRename, RefuseHarvest, Fails, Die, Throw,
       HandlerThrows, Crash, Goto, Free
  <2>2. UNCHANGED <<db, serial, events, made>>
    BY <1>4 DEF RefuseRename, RefuseHarvest, Fails, Die
  <2>3. QED BY <1>2, <2>1, <2>2
<1>5. ASSUME NEW k \in Slot, Settle(k), UNCHANGED farmsVars PROVE Quiet
  <2>1. ~At(k, "running")
    BY <1>5 DEF Settle, Ack, RouteToRetry, GiveUp, StaleEnds, FailedEvent, At
  <2>2. \A j \in Slot : j # k => run'[j] = run[j]
    BY <1>5 DEF TypeOK, RmqTypeOK, Settle, Ack, RouteToRetry, GiveUp, Park, Drop,
                StaleEnds, Free, Goto
  <2>3. QED BY <1>1, <1>5, <2>1, <2>2 DEF HandlersKnow, At, IsIdle
<1>6. ASSUME NEW k \in Slot, LoseConnection(k), UNCHANGED farmsVars PROVE Quiet
  <2>1. ~IsIdle(k)
    BY <1>6 DEF LoseConnection, Live
  <2>2. /\ \A j \in Slot : j # k => run'[j] = run[j]
        /\ run'[k].pc = run[k].pc /\ run'[k].msg = run[k].msg
        /\ run'[k] \in Busy
    <3>1. [run[k] EXCEPT !.live = FALSE] \in Busy
      BY <2>1, BusyRun DEF TypeOK, Busy
    <3>2. QED BY <1>6, <2>1, <3>1, BusyRun DEF TypeOK, RmqTypeOK, LoseConnection, Busy
  <2>3. run'[k] # Idle
    BY <2>2, IdleIsNotBusy
  <2>4. QED BY <1>1, <1>6, <2>2, <2>3 DEF HandlersKnow, At, IsIdle
<1>7. ASSUME NEW k \in Slot, Writes(k)
      PROVE  Ends(k) /\ \A j \in Slot : j # k => Keeps(j)
  <2>1. Forget(k) /\ HandlerReturns(k)
    BY <1>7 DEF Writes, Create, Rename, Save, Remove, Return
  <2>2. \A j \in Slot : j # k => run'[j] = run[j]
    BY <2>1 DEF TypeOK, RmqTypeOK, HandlerReturns, Goto
  <2>3. QED BY <1>2, <2>1, <2>2
<1>8. CASE UNCHANGED vars
  BY <1>1, <1>8 DEF vars, HandlersKnow, At, IsIdle
<1>9. QED
  BY <1>3, <1>4, <1>5, <1>6, <1>7, <1>8 DEF Next, Handle, Around, Checks, Writes
-----------------------------------------------------------------------------
\* Consequences of the invariant.

LEMMA EventType ==
  ASSUME TypeOK, NEW e \in events
  PROVE  /\ e.kind \in Kind /\ e.id \in Id /\ e.crop \in Id /\ e.farm \in Id
         /\ e.user \in User
  BY DEF TypeOK, Event

\* Two of the things that remember a row.
LEMMA Agree ==
  ASSUME ParentsAgree, NEW t \in Kind, NEW i \in Id, NEW p \in Id \cup User,
         NEW q \in Id \cup User, InsertedUnder(t, i, p), InsertedUnder(t, i, q)
  PROVE  p = q
  BY DEF ParentsAgree

LEMMA StoredAgrees ==
  ASSUME TypeOK, ParentsAgree, NEW t \in Kind, NEW i \in Id, Exists(t, i)
  PROVE  /\ i < serial[t] /\ db[t][i].parent \in ParentsOf(t)
         /\ \A p \in Id \cup User : InsertedUnder(t, i, p) => p = db[t][i].parent
  BY StoredRow DEF ParentsAgree, InsertedUnder, StoredUnder

LEMMA HeldAgrees ==
  ASSUME TypeOK, HandlersKnow, ParentsAgree, NEW k \in Slot, Holds(k)
  PROVE  /\ ~IsIdle(k) /\ Checked(k) \in Kind /\ req(k).id \in Id
         /\ seen[k] \in Row
         /\ req(k).id < serial[Checked(k)]
         /\ seen[k].parent \in ParentsOf(Checked(k))
         /\ InsertedUnder(Checked(k), req(k).id, seen[k].parent)
         /\ \A p \in Id \cup User :
              InsertedUnder(Checked(k), req(k).id, p) => p = seen[k].parent
<1>1. ~IsIdle(k) /\ seen[k] \in Row
  BY DEF HandlersKnow, Holds, At
<1>2. Checked(k) \in Kind /\ req(k).id \in Id /\ seen[k].parent \in Id \cup User
  BY <1>1, ReqType, CheckedType DEF Holds, Row
<1>3. InsertedUnder(Checked(k), req(k).id, seen[k].parent)
  BY DEF InsertedUnder, HeldUnder
<1>4. QED BY <1>1, <1>2, <1>3 DEF ParentsAgree

\* What an event tells, if the rows are there.
LEMMA ToldAgrees ==
  ASSUME TypeOK, ParentsAgree, EventsAreRows, NEW e \in events
  PROVE  /\ Exists("farm", e.farm) => db["farm"][e.farm].parent = e.user
         /\ Exists("crop", e.crop) => db["crop"][e.crop].parent = e.farm
         /\ Exists(e.kind, e.id) =>
              db[e.kind][e.id].parent = IF e.kind = "crop" THEN e.farm ELSE e.crop
<1>1. /\ e.kind \in Kind \ {"farm"} /\ e.id \in Id /\ e.crop \in Id /\ e.farm \in Id
      /\ e.user \in User /\ (e.kind = "crop" => e.crop = e.id)
  BY EventType DEF EventsAreRows
<1>2. /\ InsertedUnder("farm", e.farm, e.user)
      /\ InsertedUnder("crop", e.crop, e.farm)
      /\ e.kind # "crop" => InsertedUnder(e.kind, e.id, e.crop)
  BY <1>1 DEF InsertedUnder, Tells, Kind
<1>3. QED BY <1>1, <1>2, StoredAgrees DEF Kind

\* The event about a row that exists tells the truth.
LEMMA TruthTold ==
  ASSUME TypeOK, ParentsAgree, EventsAreRows, ChainIntact,
         NEW e \in events, Exists(e.kind, e.id)
  PROVE  /\ e.crop = IF e.kind = "crop" THEN e.id ELSE db[e.kind][e.id].parent
         /\ e.farm = FarmOf(e.kind, e.id)
         /\ e.user = OwnerOf(e.kind, e.id)
         /\ Exists("crop", e.crop) /\ Exists("farm", e.farm)
<1>1. /\ e.kind \in Kind \ {"farm"} /\ e.id \in Id /\ e.crop \in Id /\ e.farm \in Id
      /\ (e.kind = "crop" => e.crop = e.id)
  BY EventType DEF EventsAreRows
<1>2. Exists("crop", e.crop)
  <2>1. CASE e.kind = "crop"
    BY <1>1, <2>1
  <2>2. CASE e.kind # "crop"
    <3>1. /\ db[e.kind][e.id].parent = e.crop /\ <<e.kind, e.id>> \in Stored
          /\ ParentKind[e.kind] = "crop"
      BY <1>1, <2>2, ToldAgrees, ParentKinds DEF Stored, Kind
    <3>2. QED BY <1>1, <3>1 DEF ChainIntact
  <2>3. QED BY <2>1, <2>2
<1>3. Exists("farm", e.farm)
  <2>1. /\ db["crop"][e.crop].parent = e.farm /\ <<"crop", e.crop>> \in Stored
        /\ ParentKind["crop"] = "farm"
    BY <1>1, <1>2, ToldAgrees, ParentKinds DEF Stored, Kind
  <2>2. QED BY <2>1 DEF ChainIntact
<1>4. db.crop = db["crop"] /\ db.farm = db["farm"]
  OBVIOUS
<1>5. e.farm = FarmOf(e.kind, e.id)
  BY <1>1, <1>2, <1>4, ToldAgrees DEF FarmOf
<1>6. QED BY <1>1, <1>2, <1>3, <1>4, <1>5, ToldAgrees DEF OwnerOf

\* A row that exists has its event.
LEMMA HasEvent ==
  ASSUME TypeOK, ParentsAgree, EventsAreRows, NEW t \in Kind \ {"farm"},
         NEW i \in Id, Exists(t, i)
  PROVE  \E e \in events : e.kind = t /\ e.id = i
  BY StoredAgrees DEF EventsAreRows

\* A handler's row, if it exists, is still the requester's.
LEMMA OwnedStill ==
  ASSUME IInv, NEW k \in Slot, Holds(k), Exists(Checked(k), req(k).id)
  PROVE  OwnerOf(Checked(k), req(k).id) = req(k).user
<1>1. /\ Checked(k) \in Kind /\ req(k).id \in Id
      /\ db[Checked(k)][req(k).id].parent = seen[k].parent
      /\ Owned(k)
  <2>1. /\ Checked(k) \in Kind /\ req(k).id \in Id
        /\ db[Checked(k)][req(k).id].parent \in Id \cup User
    BY HeldAgrees, StoredRow DEF IInv
  <2>2. InsertedUnder(Checked(k), req(k).id, db[Checked(k)][req(k).id].parent)
    BY DEF InsertedUnder, StoredUnder
  <2>3. QED BY <2>1, <2>2, HeldAgrees DEF IInv, HandlersKnow, Holds
<1>2. CASE Checked(k) = "farm"
  <2>1. db.farm = db["farm"]
    OBVIOUS
  <2>2. QED BY <1>1, <1>2, <2>1 DEF OwnerOf, FarmOf, Owned
<1>3. CASE Checked(k) # "farm"
  <2>1. PICK e \in events : e.kind = Checked(k) /\ e.id = req(k).id /\ e.user = req(k).user
    BY <1>1, <1>3 DEF Owned
  <2>2. QED BY <2>1, TruthTold DEF IInv
<1>4. QED BY <1>2, <1>3
-----------------------------------------------------------------------------
\* What the writes do.

LEMMA CreateFacts ==
  ASSUME IInv, NEW k \in Slot, Create(k),
         NEW t, t = req(k).kind, NEW i, i = serial[t]
  PROVE  /\ ~IsIdle(k) /\ Past(k) /\ t \in Kind /\ i \in Id /\ ~Exists(t, i)
         /\ NewRow(k) \in Row
         /\ Permitted(t, i, NewRow(k))
         /\ db' = [db EXCEPT ![t][i] = NewRow(k)]
         /\ serial' = [serial EXCEPT ![t] = i + 1]
         /\ made' = [made EXCEPT ![req(k)] = @ \cup {i}]
         /\ t = "farm" => /\ events' = events /\ NewFarm(k)
                          /\ NewRow(k).parent = req(k).user
         /\ t # "farm" => /\ Holds(k) /\ Checked(k) = ParentKind[t]
                          /\ NewRow(k).parent = req(k).id
                          /\ Exists(ParentKind[t], req(k).id)
<1>1. /\ ~IsIdle(k) /\ Past(k) /\ req(k).op = "create" /\ t \in Kind /\ i \in Id
      /\ req(k).user \in User /\ req(k).id \in Id /\ req(k).value \in Value
  BY ReqType DEF Create, InStep, At, Past, IInv
<1>2. ~Exists(t, i)
  <2>1. serial[t] \in Nat
    BY <1>1 DEF IInv, TypeOK, Id
  <2>2. Exists(t, i) => i < serial[t]
    BY <1>1, StoredAgrees DEF IInv
  <2>3. QED BY <2>1, <2>2
<1>3. NewFarm(k) <=> t = "farm"
  BY <1>1 DEF NewFarm, Is
<1>4. NewRow(k) \in Row /\ NewRow(k).parent = IF t = "farm" THEN req(k).user ELSE req(k).id
  BY <1>1, <1>3 DEF NewRow, Row
<1>5. /\ Permitted(t, i, NewRow(k))
      /\ db' = [db EXCEPT ![t][i] = NewRow(k)]
      /\ serial' = [serial EXCEPT ![t] = i + 1]
      /\ made' = [made EXCEPT ![req(k)] = @ \cup {i}]
      /\ t = "farm" => events' = events
  BY DEF Create, Put
<1>6. t # "farm" => /\ Holds(k) /\ Checked(k) = ParentKind[t]
                    /\ Exists(ParentKind[t], req(k).id)
  BY <1>1, <1>3, <1>4, <1>5, CheckedType DEF Holds, IInv, Permitted
<1>7. QED BY <1>1, <1>2, <1>3, <1>4, <1>5, <1>6

\* The event of a creation, about a row below a farm.
LEMMA EventFacts ==
  ASSUME IInv, NEW k \in Slot, Create(k),
         NEW t, t = req(k).kind, NEW i, i = serial[t], t # "farm"
  PROVE  \E e \in Event :
           /\ events' = events \cup {e}
           /\ e.kind = t /\ e.id = i /\ e.user = req(k).user
           /\ t = "crop" => e.crop = i /\ e.farm = req(k).id
           /\ t # "crop" => e.crop = req(k).id /\ e.farm = seen[k].parent
<1>1. /\ t \in Kind /\ i \in Id /\ Holds(k) /\ Checked(k) = ParentKind[t] /\ ~IsIdle(k)
  BY CreateFacts
<1>2. req(k).user \in User /\ req(k).id \in Id
  BY <1>1, ReqType DEF IInv
<1>3. t # "crop" => seen[k].parent \in Id
  BY <1>1, HeldAgrees, ParentKinds DEF IInv, ParentsOf, Kind
<1> DEFINE e == [kind |-> t, id |-> i, user |-> req(k).user,
                 crop |-> IF t = "crop" THEN i ELSE req(k).id,
                 farm |-> IF t = "crop" THEN req(k).id ELSE seen[k].parent]
<1>4. e \in Event
  BY <1>1, <1>2, <1>3 DEF Event
<1>5. events' = events \cup {e}
  BY DEF Create
<1>6. QED BY <1>4, <1>5

\* Rename, Save and Remove, seen as what they put in place of a row.
Changed(k, row) == db' = [db EXCEPT ![req(k).kind][req(k).id] = row]

LEMMA ChangedRows ==
  ASSUME TypeOK, NEW k, NEW row, Changed(k, row), NEW t \in Kind, NEW i \in Id
  PROVE  db'[t][i] = IF t = req(k).kind /\ i = req(k).id THEN row ELSE db[t][i]
<1>1. db \in [Kind -> [Id -> Row \cup {Absent}]]
  BY DEF TypeOK
<1>2. QED BY <1>1 DEF Changed

LEMMA ChangeFacts ==
  ASSUME IInv, NEW k \in Slot, Rename(k) \/ Save(k) \/ Remove(k)
  PROVE  /\ Holds(k) /\ Checked(k) = req(k).kind /\ ~IsIdle(k)
         /\ req(k).kind \in Kind /\ req(k).id \in Id
         /\ UNCHANGED <<serial, events, made>>
         /\ \/ UNCHANGED db
            \/ Changed(k, Absent) /\ Children(req(k).kind, req(k).id) = {}
            \/ \E row \in Row : /\ Changed(k, row)
                                /\ row.parent = seen[k].parent
                                /\ Permitted(req(k).kind, req(k).id, row)
<1>1. /\ ~IsIdle(k) /\ Past(k) /\ req(k).op # "create"
      /\ UNCHANGED <<serial, events, made>>
  BY DEF Rename, Save, Remove, Is, InStep, At, Past
<1>2. /\ Holds(k) /\ Checked(k) = req(k).kind
      /\ req(k).kind \in Kind /\ req(k).id \in Id /\ req(k).value \in Value
  BY <1>1, ReqType, CheckedType DEF IInv, Holds, NewFarm, Is
<1>3. seen[k] \in Row
  BY <1>2, HeldAgrees DEF IInv
<1>4. CASE Rename(k)
  <2>1. req(k).kind = "farm" /\ db.farm = db["farm"]
    BY <1>4 DEF Rename, Is
  <2>2. CASE Exists("farm", req(k).id)
    <3>1. db["farm"][req(k).id] \in Row /\ db["farm"][req(k).id].parent = seen[k].parent
      <4>1. /\ db["farm"][req(k).id] \in Row
            /\ db["farm"][req(k).id].parent \in Id \cup User
        BY <1>2, <2>1, <2>2, StoredRow DEF IInv
      <4>2. InsertedUnder("farm", req(k).id, db["farm"][req(k).id].parent)
        BY <2>2 DEF InsertedUnder, StoredUnder
      <4>3. QED BY <1>2, <2>1, <4>1, <4>2, HeldAgrees DEF IInv
    <3> DEFINE row == [db["farm"][req(k).id] EXCEPT !.value = req(k).value]
    <3>2. row \in Row /\ row.parent = seen[k].parent
      BY <1>2, <3>1 DEF Row
    <3>3. Permitted("farm", req(k).id, row) /\ Changed(k, row)
      BY <1>4, <2>1, <2>2 DEF Rename, Put, Changed
    <3>4. QED BY <1>1, <1>2, <2>1, <3>2, <3>3
  <2>3. CASE ~Exists("farm", req(k).id)
    BY <1>1, <1>2, <1>4, <2>3 DEF Rename
  <2>4. QED BY <2>2, <2>3
<1>5. CASE Save(k)
  <2>1. Saved(k) \in Row /\ Saved(k).parent = seen[k].parent
    BY <1>2, <1>3 DEF Saved, Row
  <2>2. Permitted(req(k).kind, req(k).id, Saved(k)) /\ Changed(k, Saved(k))
    BY <1>5 DEF Save, Put, Changed
  <2>3. QED BY <1>1, <1>2, <2>1, <2>2
<1>6. CASE Remove(k)
  BY <1>1, <1>2, <1>6 DEF Remove, Put, Changed
<1>7. QED BY <1>4, <1>5, <1>6
-----------------------------------------------------------------------------
\* Types.

LEMMA LocalTypeStep ==
  ASSUME IInv, [Next]_vars
  PROVE  /\ seen' \in [Slot -> Row \cup {Absent}]
         /\ step' \in [Slot -> {"start", "loaded", "cleared"}]
<1>1. ASSUME UNCHANGED <<seen, step>> \/ \E k \in Slot : Forget(k)
      PROVE  /\ seen' \in [Slot -> Row \cup {Absent}]
             /\ step' \in [Slot -> {"start", "loaded", "cleared"}]
  BY <1>1 DEF IInv, TypeOK, Forget
<1>2. ASSUME NEW k \in Slot, CheckNewFarm(k) \/ CheckMore(k)
      PROVE  UNCHANGED seen /\ step' \in [Slot -> {"start", "loaded", "cleared"}]
  BY <1>2 DEF IInv, TypeOK, CheckNewFarm, CheckMore, Goes
<1>3. ASSUME NEW k \in Slot, CheckOwner(k)
      PROVE  /\ seen' \in [Slot -> Row \cup {Absent}]
             /\ step' \in [Slot -> {"start", "loaded", "cleared"}]
  <2>1. ~IsIdle(k) /\ ~NewFarm(k)
    BY <1>3 DEF CheckOwner, InStep, At
  <2>2. db[Checked(k)][req(k).id] \in Row \cup {Absent}
    BY <2>1, ReqType, CheckedType DEF IInv, TypeOK
  <2>3. QED BY <1>3, <2>2 DEF IInv, TypeOK, CheckOwner, Goes
<1>4. QED
  BY <1>1, <1>2, <1>3 DEF IInv, TypeOK, Next, vars, Handle, Around, Die, RefuseRename,
     RefuseHarvest, Fails, Throw, Create, Rename, Save, Remove, Return

LEMMA TypeStep ==
  ASSUME IInv, [Next]_vars
  PROVE  TypeOK'
<1>1. RmqTypeOK'
  BY StepOfConsumer, RmqTypeStep DEF IInv, TypeOK
<1>2. ASSUME NEW k \in Slot, Create(k)
      PROVE  /\ db' \in [Kind -> [Id -> Row \cup {Absent}]]
             /\ serial' \in [Kind -> 1..(MaxId + 1)]
             /\ events' \in SUBSET Event
             /\ made' \in [Msg -> SUBSET Id]
  <2>0. PICK t, i : t = req(k).kind /\ i = serial[t]
    OBVIOUS
  <2>1. /\ t \in Kind /\ i \in Id /\ NewRow(k) \in Row
        /\ db' = [db EXCEPT ![t][i] = NewRow(k)]
        /\ serial' = [serial EXCEPT ![t] = i + 1]
        /\ made' = [made EXCEPT ![req(k)] = @ \cup {i}]
        /\ t = "farm" => events' = events
    BY <1>2, <2>0, CreateFacts
  <2>2. t # "farm" => \E e \in Event : events' = events \cup {e}
    BY <1>2, <2>0, EventFacts
  <2>3. i + 1 \in 1..(MaxId + 1)
    BY <2>1, FarmsAssumption DEF Id
  <2>4. QED BY <2>1, <2>2, <2>3 DEF IInv, TypeOK
<1>3. ASSUME NEW k \in Slot, Rename(k) \/ Save(k) \/ Remove(k)
      PROVE  /\ db' \in [Kind -> [Id -> Row \cup {Absent}]]
             /\ UNCHANGED <<serial, events, made>>
  <2>1. /\ req(k).kind \in Kind /\ req(k).id \in Id
        /\ UNCHANGED <<serial, events, made>>
        /\ UNCHANGED db \/ \E row \in Row \cup {Absent} : Changed(k, row)
    BY <1>3, ChangeFacts
  <2>2. db \in [Kind -> [Id -> Row \cup {Absent}]]
    BY DEF IInv, TypeOK
  <2>3. ASSUME NEW row \in Row \cup {Absent}, Changed(k, row)
        PROVE  db' \in [Kind -> [Id -> Row \cup {Absent}]]
    BY <2>1, <2>2, <2>3 DEF Changed
  <2>4. QED BY <2>1, <2>2, <2>3
<1>4. ASSUME UNCHANGED <<db, serial, events, made>>
      PROVE  /\ db' \in [Kind -> [Id -> Row \cup {Absent}]]
             /\ serial' \in [Kind -> 1..(MaxId + 1)]
             /\ events' \in SUBSET Event
             /\ made' \in [Msg -> SUBSET Id]
  BY <1>4 DEF IInv, TypeOK
<1>5. ASSUME NEW k \in Slot, Checks(k) PROVE UNCHANGED <<db, serial, events, made>>
  BY <1>5 DEF Checks, CheckNewFarm, CheckOwner, CheckMore
<1>6. \/ UNCHANGED <<db, serial, events, made>>
      \/ \E k \in Slot : Checks(k)
      \/ \E k \in Slot : Writes(k)
  BY StepKinds DEF IInv
<1>7. /\ db' \in [Kind -> [Id -> Row \cup {Absent}]]
      /\ serial' \in [Kind -> 1..(MaxId + 1)]
      /\ events' \in SUBSET Event
      /\ made' \in [Msg -> SUBSET Id]
  BY <1>2, <1>3, <1>4, <1>5, <1>6 DEF Writes, IInv, TypeOK
<1>8. QED BY <1>1, <1>7, LocalTypeStep DEF TypeOK
-----------------------------------------------------------------------------
\* What handlers know stays known: events are only ever added.
LEMMA EventsGrow ==
  ASSUME IInv, [Next]_vars
  PROVE  events \subseteq events'
<1>1. ASSUME NEW k \in Slot, Create(k) PROVE events \subseteq events'
  BY <1>1 DEF Create
<1>2. ASSUME NEW k \in Slot, Rename(k) \/ Save(k) \/ Remove(k) PROVE UNCHANGED events
  BY <1>2, ChangeFacts
<1>3. QED
  BY <1>1, <1>2, StepKinds
  DEF IInv, Writes, Checks, CheckNewFarm, CheckOwner, CheckMore

Knows(k) == Past(k) => /\ At(k, "running")
                       /\ ~NewFarm(k) => seen[k] \in Row /\ Owned(k)

LEMMA KeptKnows ==
  ASSUME HandlersKnow, events \subseteq events', NEW j \in Slot, Keeps(j) \/ Ends(j)
  PROVE  Knows(j)'
<1>1. CASE Ends(j)
  BY <1>1 DEF Ends, Knows, Past
<1>2. CASE Keeps(j) /\ Past(j)
  <2>1. /\ req(j)' = req(j) /\ seen'[j] = seen[j] /\ At(j, "running")'
    BY <1>2 DEF Keeps, req
  <2>2. /\ NewFarm(j)' <=> NewFarm(j)
        /\ Checked(j)' = Checked(j)
    BY <2>1 DEF NewFarm, Is, Checked
  <2>3. ~NewFarm(j) => Owned(j)'
    BY <1>2, <2>1, <2>2 DEF HandlersKnow, Owned
  <2>4. QED BY <1>2, <2>1, <2>2, <2>3 DEF HandlersKnow, Knows
<1>3. CASE Keeps(j) /\ ~Past(j)
  BY <1>3 DEF Keeps, Knows, Past
<1>4. QED BY <1>1, <1>2, <1>3

\* The check itself: the chain that ends at the requester is on record.
LEMMA CheckedOwned ==
  ASSUME IInv, NEW k \in Slot, CheckOwner(k)
  PROVE  Owned(k)' /\ seen'[k] \in Row
<1>1. /\ ~IsIdle(k) /\ ~NewFarm(k) /\ Owns(k)
      /\ seen'[k] = db[Checked(k)][req(k).id]
      /\ UNCHANGED <<rmqVars, events>>
  BY DEF IInv, TypeOK, CheckOwner, InStep, At
<1>2. Checked(k) \in Kind /\ req(k).id \in Id /\ req(k).user \in User
  BY <1>1, ReqType, CheckedType DEF IInv
<1>3. /\ Exists(Checked(k), req(k).id) /\ db[Checked(k)][req(k).id] \in Row
      /\ OwnerOf(Checked(k), req(k).id) = req(k).user
  BY <1>1, <1>2, StoredRow DEF IInv, Owns
<1>4. req(k)' = req(k) /\ Checked(k)' = Checked(k)
  BY <1>1 DEF req, Checked
<1>5. CASE Checked(k) = "farm"
  <2>1. db.farm = db["farm"]
    OBVIOUS
  <2>2. QED BY <1>1, <1>3, <1>4, <1>5, <2>1 DEF Owned, OwnerOf, FarmOf
<1>6. CASE Checked(k) # "farm"
  <2>1. PICK e \in events : e.kind = Checked(k) /\ e.id = req(k).id
    BY <1>2, <1>3, <1>6, HasEvent DEF IInv
  <2>2. e.user = req(k).user
    BY <1>3, <2>1, TruthTold DEF IInv
  <2>3. seen'[k].parent = IF Checked(k) = "crop" THEN e.farm ELSE e.crop
    BY <1>1, <1>3, <2>1, ToldAgrees DEF IInv
  <2>4. QED BY <1>1, <1>3, <1>4, <1>6, <2>1, <2>2, <2>3 DEF Owned
<1>7. QED BY <1>1, <1>3, <1>5, <1>6

\* A check is about one handler.
LEMMA ChecksKeep ==
  ASSUME IInv, NEW k \in Slot, Checks(k)
  PROVE  /\ At(k, "running") /\ UNCHANGED <<rmqVars, db, serial, events, made>>
         /\ \A j \in Slot : j # k => Keeps(j)
         /\ req(k)' = req(k) /\ (NewFarm(k)' <=> NewFarm(k)) /\ Checked(k)' = Checked(k)
         /\ ~NewFarm(k) => CheckOwner(k) \/ (Holds(k) /\ seen'[k] = seen[k])
<1>1. /\ At(k, "running") /\ UNCHANGED <<rmqVars, db, serial, events, made>>
      /\ \A j \in Slot : j # k => step'[j] = step[j] /\ seen'[j] = seen[j]
  BY DEF IInv, TypeOK, Checks, CheckNewFarm, CheckOwner, CheckMore, Goes, InStep
<1>2. \A j \in Slot : j # k => Keeps(j)
  BY <1>1 DEF IInv, HandlersKnow, Keeps, At, IsIdle
<1>3. req(k)' = req(k) /\ (NewFarm(k)' <=> NewFarm(k)) /\ Checked(k)' = Checked(k)
  BY <1>1 DEF req, NewFarm, Is, Checked
<1>4. ~NewFarm(k) => CheckOwner(k) \/ (Holds(k) /\ seen'[k] = seen[k])
  BY DEF Checks, CheckNewFarm, CheckMore, Holds, Past, InStep
<1>5. QED BY <1>1, <1>2, <1>3, <1>4

LEMMA HandlersStep ==
  ASSUME IInv, [Next]_vars
  PROVE  HandlersKnow'
<1>1. events \subseteq events'
  BY EventsGrow
<1>2. ASSUME NEW k \in Slot, Checks(k) PROVE Knows(k)'
  <2>1. /\ At(k, "running")' /\ UNCHANGED events
        /\ req(k)' = req(k) /\ (NewFarm(k)' <=> NewFarm(k)) /\ Checked(k)' = Checked(k)
        /\ ~NewFarm(k) => CheckOwner(k) \/ (Holds(k) /\ seen'[k] = seen[k])
    BY <1>2, ChecksKeep DEF At, IsIdle
  <2>2. ASSUME Holds(k), seen'[k] = seen[k] PROVE seen'[k] \in Row /\ Owned(k)'
    BY <2>1, <2>2 DEF IInv, HandlersKnow, Holds, Owned
  <2>3. QED BY <2>1, <2>2, CheckedOwned DEF Knows
<1>3. \A j \in Slot : Keeps(j) \/ Ends(j) \/ \E k \in Slot : Checks(k) /\ j = k
  BY StepKinds, ChecksKeep DEF IInv
<1>4. \A j \in Slot : Knows(j)'
  BY <1>1, <1>2, <1>3, KeptKnows DEF IInv
<1>5. QED BY <1>4 DEF HandlersKnow, Knows
-----------------------------------------------------------------------------
\* Whatever remembers a row after a step remembered it before, or the step has
\* inserted the row, under an id nobody remembers.

LEMMA AgreeKept ==
  ASSUME ParentsAgree, UNCHANGED serial,
         \A t \in Kind, i \in Id, p \in Id \cup User :
            InsertedUnder(t, i, p)' => InsertedUnder(t, i, p)
  PROVE  ParentsAgree'
  BY DEF ParentsAgree

LEMMA SlotsKept ==
  ASSUME NEW t, NEW i, NEW p, NEW j \in Slot, Keeps(j) \/ Ends(j),
         Holds(j)', Checked(j)' = t, req(j)'.id = i, seen'[j].parent = p
  PROVE  HeldUnder(t, i, p)
<1>1. Past(j) /\ req(j)' = req(j) /\ seen'[j] = seen[j]
  BY DEF Keeps, Ends, Holds, Past, req
<1>2. (NewFarm(j)' <=> NewFarm(j)) /\ Checked(j)' = Checked(j)
  BY <1>1 DEF NewFarm, Is, Checked
<1>3. QED BY <1>1, <1>2 DEF Holds, HeldUnder

LEMMA CreationAgrees ==
  ASSUME IInv, NEW k \in Slot, Create(k), \A j \in Slot : Keeps(j) \/ Ends(j)
  PROVE  ParentsAgree'
<1>0. PICK t, i : t = req(k).kind /\ i = serial[t]
  OBVIOUS
<1>1. /\ t \in Kind /\ i \in Id /\ ~Exists(t, i) /\ NewRow(k) \in Row
      /\ db' = [db EXCEPT ![t][i] = NewRow(k)]
      /\ serial' = [serial EXCEPT ![t] = i + 1]
      /\ t = "farm" => /\ events' = events /\ NewRow(k).parent = req(k).user
      /\ t # "farm" => /\ Holds(k) /\ Checked(k) = ParentKind[t]
                       /\ NewRow(k).parent = req(k).id
      /\ ~IsIdle(k)
  BY <1>0, CreateFacts
<1>2. req(k).user \in User /\ req(k).id \in Id
  BY <1>1, ReqType DEF IInv
<1> DEFINE New(u, j, p) == u = t /\ j = i /\ p = NewRow(k).parent
<1>3. ASSUME NEW u \in Kind, NEW j \in Id, NEW p, StoredUnder(u, j, p)'
      PROVE  InsertedUnder(u, j, p) \/ New(u, j, p)
  BY <1>1, <1>3 DEF IInv, TypeOK, StoredUnder, InsertedUnder, Exists
<1>4. ASSUME NEW u, NEW j, NEW p, HeldUnder(u, j, p)' PROVE InsertedUnder(u, j, p)
  <2>1. PICK s \in Slot : /\ Holds(s)' /\ Checked(s)' = u /\ req(s)'.id = j
                          /\ seen'[s].parent = p
    BY <1>4 DEF HeldUnder
  <2>2. HeldUnder(u, j, p)
    BY <2>1, SlotsKept
  <2>3. QED BY <2>2 DEF InsertedUnder
<1>5. ASSUME t # "farm", NEW e, events' = events \cup {e}, NEW u, NEW j, NEW p,
             e.kind = t, e.id = i, e.user = req(k).user,
             t = "crop" => e.crop = i /\ e.farm = req(k).id,
             t # "crop" => e.crop = req(k).id /\ e.farm = seen[k].parent,
             Tells(e, u, j, p)
      PROVE  InsertedUnder(u, j, p) \/ New(u, j, p)
  <2>1. Holds(k) /\ NewRow(k).parent = req(k).id /\ Owned(k)
    BY <1>1, <1>5 DEF IInv, HandlersKnow, Holds
  <2>2. CASE t = "crop"
    <3>1. Checked(k) = "farm"
      BY <1>1, <2>2, ParentKinds
    <3>2. HeldUnder("farm", req(k).id, req(k).user)
      BY <2>1, <3>1 DEF Owned, HeldUnder
    <3>3. QED BY <1>5, <2>1, <2>2, <3>2 DEF Tells, InsertedUnder
  <2>3. CASE t # "crop"
    <3>1. Checked(k) = "crop"
      BY <1>1, <1>5, <2>3, ParentKinds DEF Kind
    <3>2. HeldUnder("crop", req(k).id, seen[k].parent)
      BY <2>1, <3>1 DEF HeldUnder
    <3>3. PICK d \in events : d.user = req(k).user /\ seen[k].parent = d.farm
      BY <2>1, <3>1 DEF Owned
    <3>4. Tells(d, "farm", seen[k].parent, req(k).user)
      BY <3>3 DEF Tells
    <3>5. QED BY <1>5, <2>1, <2>3, <3>2, <3>4 DEF Tells, InsertedUnder
  <2>4. QED BY <2>2, <2>3
<1>6. ASSUME NEW u, NEW j, NEW p, NEW e \in events', Tells(e, u, j, p)
      PROVE  InsertedUnder(u, j, p) \/ New(u, j, p)
  <2>1. CASE e \in events
    BY <1>6, <2>1 DEF InsertedUnder
  <2>2. CASE e \notin events
    <3>1. t # "farm"
      BY <1>1, <1>6, <2>2
    <3>2. PICK d \in Event :
            /\ events' = events \cup {d}
            /\ d.kind = t /\ d.id = i /\ d.user = req(k).user
            /\ t = "crop" => d.crop = i /\ d.farm = req(k).id
            /\ t # "crop" => d.crop = req(k).id /\ d.farm = seen[k].parent
      BY <1>0, <3>1, EventFacts
    <3>3. e = d
      BY <1>6, <2>2, <3>2
    <3>4. Tells(d, u, j, p)
      BY <1>6, <3>3
    <3>5. QED BY <1>5, <3>1, <3>2, <3>4
  <2>3. QED BY <2>1, <2>2
<1>7. ASSUME NEW u \in Kind, NEW j \in Id, NEW p, InsertedUnder(u, j, p)'
      PROVE  InsertedUnder(u, j, p) \/ New(u, j, p)
  <2>1. CASE StoredUnder(u, j, p)' \/ HeldUnder(u, j, p)'
    BY <1>3, <1>4, <2>1
  <2>2. CASE \E e \in events' : Tells(e, u, j, p)
    BY <1>6, <2>2
  <2>3. QED BY <1>7, <2>1, <2>2 DEF InsertedUnder, Tells
<1>8. \A q \in Id \cup User : ~InsertedUnder(t, i, q)
  <2>1. serial[t] \in Nat
    BY <1>1 DEF IInv, TypeOK, Id
  <2>2. QED BY <1>0, <1>1, <2>1 DEF IInv, ParentsAgree
<1>9. NewRow(k).parent \in ParentsOf(t)
  BY <1>1, <1>2 DEF ParentsOf
<1>10. \A u \in Kind : serial[u] \in Nat /\ serial'[u] \in Nat /\ serial'[u] >= serial[u]
  BY <1>0, <1>1 DEF IInv, TypeOK, Id
<1>11. i < serial'[t] /\ \A u \in Kind, j \in Id : j < serial[u] => j < serial'[u]
  BY <1>1, <1>10 DEF IInv, TypeOK, Id
<1> HIDE DEF New
<1>12. ASSUME NEW u \in Kind, NEW j \in Id, NEW p \in Id \cup User,
              InsertedUnder(u, j, p)'
       PROVE  /\ j < serial'[u]
              /\ p \in ParentsOf(u)
              /\ \A q \in Id \cup User : InsertedUnder(u, j, q)' => q = p
  <2>1. CASE New(u, j, p)
    BY <1>7, <1>8, <1>9, <1>11, <2>1 DEF New
  <2>2. CASE InsertedUnder(u, j, p)
    BY <1>7, <1>8, <1>11, <2>2 DEF New, IInv, ParentsAgree
  <2>3. QED BY <1>7, <1>12, <2>1, <2>2
<1>13. QED BY <1>12 DEF ParentsAgree, ParentsOf

LEMMA ParentsStep ==
  ASSUME IInv, [Next]_vars
  PROVE  ParentsAgree'
<1>1. ASSUME NEW j \in Slot, NEW t, NEW i, NEW p, Keeps(j) \/ Ends(j), Holds(j)',
             Checked(j)' = t, req(j)'.id = i, seen'[j].parent = p
      PROVE  InsertedUnder(t, i, p)
  BY <1>1, SlotsKept DEF InsertedUnder
<1>2. ASSUME UNCHANGED <<db, serial, events, made>>, \A j \in Slot : Keeps(j) \/ Ends(j)
      PROVE  ParentsAgree'
  <2>1. \A t, i, p : HeldUnder(t, i, p)' => InsertedUnder(t, i, p)
    BY <1>1, <1>2 DEF HeldUnder
  <2>2. \A t, i, p : InsertedUnder(t, i, p)' => InsertedUnder(t, i, p)
    BY <1>2, <2>1 DEF InsertedUnder, StoredUnder, Exists, Tells
  <2>3. QED BY <1>2, <2>2, AgreeKept DEF IInv
<1>3. ASSUME NEW k \in Slot, Checks(k) PROVE ParentsAgree'
  <2>1. /\ UNCHANGED <<db, serial, events, made>>
        /\ \A j \in Slot : j # k => Keeps(j)
        /\ req(k)' = req(k) /\ (NewFarm(k)' <=> NewFarm(k)) /\ Checked(k)' = Checked(k)
        /\ ~NewFarm(k) => CheckOwner(k) \/ (Holds(k) /\ seen'[k] = seen[k])
    BY <1>3, ChecksKeep
  <2>2. ASSUME NEW t, NEW i, NEW p, Holds(k)', Checked(k)' = t, req(k)'.id = i,
               seen'[k].parent = p
        PROVE  InsertedUnder(t, i, p)
    <3>1. CASE CheckOwner(k)
      <4>1. /\ Exists(Checked(k), req(k).id)
            /\ seen'[k] = db[Checked(k)][req(k).id]
        BY <3>1 DEF IInv, TypeOK, CheckOwner, Owns
      <4>2. QED BY <2>1, <2>2, <4>1 DEF InsertedUnder, StoredUnder
    <3>2. CASE Holds(k) /\ seen'[k] = seen[k]
      BY <2>1, <2>2, <3>2 DEF InsertedUnder, HeldUnder
    <3>3. QED BY <2>1, <2>2, <3>1, <3>2 DEF Holds
  <2>3. \A t, i, p : HeldUnder(t, i, p)' => InsertedUnder(t, i, p)
    BY <1>1, <2>1, <2>2 DEF HeldUnder
  <2>4. \A t, i, p : InsertedUnder(t, i, p)' => InsertedUnder(t, i, p)
    BY <2>1, <2>3 DEF InsertedUnder, StoredUnder, Exists, Tells
  <2>5. QED BY <2>1, <2>4, AgreeKept DEF IInv
<1>4. ASSUME NEW k \in Slot, Rename(k) \/ Save(k) \/ Remove(k),
             \A j \in Slot : Keeps(j) \/ Ends(j)
      PROVE  ParentsAgree'
  <2>1. /\ Holds(k) /\ Checked(k) = req(k).kind
        /\ req(k).kind \in Kind /\ req(k).id \in Id
        /\ UNCHANGED <<serial, events, made>>
        /\ \/ UNCHANGED db
           \/ Changed(k, Absent)
           \/ \E row \in Row : Changed(k, row) /\ row.parent = seen[k].parent
    BY <1>4, ChangeFacts
  <2>2. ASSUME NEW t \in Kind, NEW i \in Id, NEW p, StoredUnder(t, i, p)'
        PROVE  InsertedUnder(t, i, p)
    <3>1. CASE db'[t][i] = db[t][i]
      BY <2>2, <3>1 DEF StoredUnder, InsertedUnder, Exists
    <3>2. CASE db'[t][i] # db[t][i]
      <4>1. /\ t = req(k).kind /\ i = req(k).id
            /\ db'[t][i] = Absent \/ db'[t][i].parent = seen[k].parent
        BY <2>1, <3>2, ChangedRows DEF IInv
      <4>2. QED BY <2>1, <2>2, <4>1 DEF StoredUnder, Exists, InsertedUnder, HeldUnder
    <3>3. QED BY <3>1, <3>2
  <2>3. \A t, i, p : HeldUnder(t, i, p)' => InsertedUnder(t, i, p)
    BY <1>1, <1>4 DEF HeldUnder
  <2>4. \A t \in Kind, i \in Id, p \in Id \cup User :
          InsertedUnder(t, i, p)' => InsertedUnder(t, i, p)
    BY <2>1, <2>2, <2>3 DEF InsertedUnder, Tells
  <2>5. QED BY <2>1, <2>4, AgreeKept DEF IInv
<1>5. QED BY <1>2, <1>3, <1>4, CreationAgrees, StepKinds DEF IInv, Writes
-----------------------------------------------------------------------------
LEMMA EventsStep ==
  ASSUME IInv, [Next]_vars
  PROVE  EventsAreRows'
<1>1. ASSUME UNCHANGED <<serial, events>> PROVE EventsAreRows'
  BY <1>1 DEF IInv, EventsAreRows
<1>2. ASSUME NEW k \in Slot, Create(k) PROVE EventsAreRows'
  <2>0. PICK t, i : t = req(k).kind /\ i = serial[t]
    OBVIOUS
  <2>1. /\ t \in Kind /\ i \in Id
        /\ serial' = [serial EXCEPT ![t] = i + 1]
        /\ t = "farm" => events' = events
    BY <1>2, <2>0, CreateFacts
  <2>2. \A u \in Kind : /\ serial[u] \in Nat /\ serial'[u] \in Nat
                        /\ serial'[u] = IF u = t THEN serial[u] + 1 ELSE serial[u]
    BY <2>0, <2>1 DEF IInv, TypeOK, Id
  <2>3. CASE t = "farm"
    <3>1. \A u \in Kind \ {"farm"} : serial'[u] = serial[u]
      BY <2>2, <2>3
    <3>2. \A e \in events : e.kind \in Kind
      BY EventType DEF IInv
    <3>3. events' = events
      BY <2>1, <2>3
    <3>4. QED BY <3>1, <3>2, <3>3 DEF IInv, EventsAreRows
  <2>4. CASE t # "farm"
    <3>1. PICK d \in Event : /\ events' = events \cup {d}
                             /\ d.kind = t /\ d.id = i
                             /\ t = "crop" => d.crop = i
      BY <1>2, <2>0, <2>4, EventFacts
    <3>2. \A e \in events : /\ e.kind \in Kind /\ e.id \in Id
                            /\ e.id < serial'[e.kind]
                            /\ ~(e.kind = t /\ e.id = i)
      BY <2>0, <2>2, EventType DEF IInv, EventsAreRows, Id
    <3>3. d.id < serial'[d.kind]
      BY <2>0, <2>1, <2>2, <3>1
    <3>4. \A e \in events' : /\ e.kind # "farm" /\ e.id < serial'[e.kind]
                             /\ e.kind = "crop" => e.crop = e.id
      BY <2>4, <3>1, <3>2, <3>3 DEF IInv, EventsAreRows
    <3>5. \A c, e \in events' : c.kind = e.kind /\ c.id = e.id => c = e
      BY <3>1, <3>2 DEF IInv, EventsAreRows
    <3>6. ASSUME NEW u \in Kind \ {"farm"}, NEW j \in Id, j < serial'[u]
          PROVE  \E e \in events' : e.kind = u /\ e.id = j
      <4>1. j < serial[u] \/ (u = t /\ j = i)
        BY <2>0, <2>2, <3>6 DEF Id
      <4>2. QED BY <3>1, <4>1 DEF IInv, EventsAreRows
    <3>7. QED BY <3>4, <3>5, <3>6 DEF EventsAreRows
  <2>5. QED BY <2>3, <2>4
<1>3. ASSUME NEW k \in Slot, Rename(k) \/ Save(k) \/ Remove(k)
      PROVE  UNCHANGED <<serial, events>>
  BY <1>3, ChangeFacts
<1>4. QED BY <1>1, <1>2, <1>3, ChecksKeep, StepKinds DEF IInv, Writes

\* No row loses its parent.
LEMMA ChainStep ==
  ASSUME IInv, [Next]_vars
  PROVE  ChainIntact'
<1>0. ASSUME \A t \in Kind \ {"farm"}, i \in Id : db'[t][i] # Absent =>
                db'[ParentKind[t]][db'[t][i].parent] # Absent
      PROVE  ChainIntact'
  <2>1. ASSUME NEW x \in Stored', x[1] # "farm"
        PROVE  db'[ParentKind[x[1]]][db'[x[1]][x[2]].parent] # Absent
    <3>1. x[1] \in Kind \ {"farm"} /\ x[2] \in Id /\ db'[x[1]][x[2]] # Absent
      BY <2>1 DEF Stored, Exists
    <3>2. QED BY <1>0, <3>1
  <2>2. QED BY <2>1 DEF ChainIntact, Exists
<1>7. ASSUME NEW t \in Kind \ {"farm"}, NEW i \in Id, Exists(t, i)
      PROVE  Exists(ParentKind[t], db[t][i].parent)
  <2>1. <<t, i>> \in Stored
    BY <1>7 DEF Stored
  <2>2. QED BY <2>1 DEF IInv, ChainIntact
<1>1. ASSUME UNCHANGED db PROVE ChainIntact'
  BY <1>1 DEF IInv, ChainIntact, Stored, Exists
\* Every parent is in its table.
<1>2. \A t \in Kind \ {"farm"} : ParentKind[t] \in Kind
  BY ParentKinds DEF Kind
<1>3. \A t \in Kind \ {"farm"}, i \in Id : Exists(t, i) => db[t][i].parent \in Id
  BY StoredAgrees DEF IInv, ParentsOf
<1>4. ASSUME NEW k \in Slot, Create(k) PROVE ChainIntact'
  <2>0. PICK t, i : t = req(k).kind /\ i = serial[t]
    OBVIOUS
  <2>1. /\ t \in Kind /\ i \in Id /\ NewRow(k) \in Row
        /\ db' = [db EXCEPT ![t][i] = NewRow(k)]
        /\ t # "farm" => /\ NewRow(k).parent = req(k).id
                         /\ Exists(ParentKind[t], req(k).id)
        /\ req(k).id \in Id
    BY <1>4, <2>0, CreateFacts, ReqType DEF IInv
  <2>2. db \in [Kind -> [Id -> Row \cup {Absent}]]
    BY DEF IInv, TypeOK
  <2>3. \A u \in Kind, j \in Id :
          db'[u][j] = IF u = t /\ j = i THEN NewRow(k) ELSE db[u][j]
    BY <2>1, <2>2
  <2>4. \A u \in Kind, j \in Id : db[u][j] # Absent => db'[u][j] # Absent
    BY <2>1, <2>3, AbsentIsNotRow DEF Exists
  <2>5. ASSUME NEW u \in Kind \ {"farm"}, NEW j \in Id, db'[u][j] # Absent
        PROVE  db'[ParentKind[u]][db'[u][j].parent] # Absent
    <3>1. CASE u = t /\ j = i
      <4>1. db'[u][j].parent = req(k).id /\ Exists(ParentKind[u], req(k).id)
        BY <2>1, <2>3, <3>1
      <4>2. QED BY <1>2, <2>1, <2>4, <4>1 DEF Exists
    <3>2. CASE ~(u = t /\ j = i)
      <4>1. db'[u][j] = db[u][j] /\ Exists(u, j)
        BY <2>3, <2>5, <3>2 DEF Exists
      <4>2. Exists(ParentKind[u], db[u][j].parent) /\ db[u][j].parent \in Id
        BY <1>3, <1>7, <4>1
      <4>3. QED BY <1>2, <2>4, <4>1, <4>2 DEF Exists
    <3>3. QED BY <3>1, <3>2
  <2>6. QED BY <1>0, <2>5
<1>5. ASSUME NEW k \in Slot, Rename(k) \/ Save(k) \/ Remove(k) PROVE ChainIntact'
  <2>1. /\ req(k).kind \in Kind /\ req(k).id \in Id
        /\ \/ UNCHANGED db
           \/ Changed(k, Absent) /\ Children(req(k).kind, req(k).id) = {}
           \/ \E row \in Row : /\ Changed(k, row)
                               /\ row.parent = seen[k].parent
                               /\ Permitted(req(k).kind, req(k).id, row)
    BY <1>5, ChangeFacts
  <2>2. CASE Changed(k, Absent) /\ Children(req(k).kind, req(k).id) = {}
    <3>1. \A u \in Kind, j \in Id :
            db'[u][j] = IF u = req(k).kind /\ j = req(k).id THEN Absent ELSE db[u][j]
      BY <2>2, ChangedRows DEF IInv
    <3>2. ASSUME NEW u \in Kind \ {"farm"}, NEW j \in Id, db'[u][j] # Absent
          PROVE  db'[ParentKind[u]][db'[u][j].parent] # Absent
      <4>1. db'[u][j] = db[u][j] /\ Exists(u, j)
        BY <3>1, <3>2 DEF Exists
      <4>2. Exists(ParentKind[u], db[u][j].parent) /\ db[u][j].parent \in Id
        BY <1>3, <1>7, <4>1
      <4>3. ~(ParentKind[u] = req(k).kind /\ db[u][j].parent = req(k).id)
        <5>1. <<u, j>> \notin Children(req(k).kind, req(k).id)
          BY <2>2
        <5>2. u \in DOMAIN ParentKind
          BY ParentKinds DEF Kind
        <5>3. QED BY <4>1, <5>1, <5>2 DEF Children
      <4>4. QED BY <1>2, <3>1, <4>1, <4>2, <4>3 DEF Exists
    <3>3. QED BY <1>0, <3>2
  <2>3. CASE \E row \in Row : /\ Changed(k, row)
                              /\ row.parent = seen[k].parent
                              /\ Permitted(req(k).kind, req(k).id, row)
    <3>0. PICK row \in Row : /\ Changed(k, row)
                             /\ row.parent = seen[k].parent
                             /\ Permitted(req(k).kind, req(k).id, row)
      BY <2>3
    <3>1. \A u \in Kind, j \in Id :
            db'[u][j] = IF u = req(k).kind /\ j = req(k).id THEN row ELSE db[u][j]
      BY <3>0, ChangedRows DEF IInv
    <3>2. \A u \in Kind, j \in Id : db[u][j] # Absent => db'[u][j] # Absent
      BY <3>0, <3>1, AbsentIsNotRow DEF Exists
    <3>3. ASSUME NEW u \in Kind \ {"farm"}, NEW j \in Id, db'[u][j] # Absent
          PROVE  db'[ParentKind[u]][db'[u][j].parent] # Absent
      <4>1. CASE u = req(k).kind /\ j = req(k).id
        <5>1. db'[u][j].parent = row.parent /\ Exists(ParentKind[u], row.parent)
          BY <3>0, <3>1, <4>1 DEF Permitted
        <5>2. row.parent \in Id
          <6>1. Holds(k) /\ Checked(k) = u
            BY <1>5, <4>1, ChangeFacts
          <6>2. QED BY <3>0, <6>1, HeldAgrees DEF IInv, ParentsOf
        <5>3. QED BY <1>2, <3>2, <5>1, <5>2 DEF Exists
      <4>2. CASE ~(u = req(k).kind /\ j = req(k).id)
        <5>1. db'[u][j] = db[u][j] /\ Exists(u, j)
          BY <3>1, <3>3, <4>2 DEF Exists
        <5>2. Exists(ParentKind[u], db[u][j].parent) /\ db[u][j].parent \in Id
          BY <1>3, <1>7, <5>1
        <5>3. QED BY <1>2, <3>2, <5>1, <5>2 DEF Exists
      <4>3. QED BY <4>1, <4>2
    <3>4. QED BY <1>0, <3>3
  <2>4. QED BY <1>1, <2>1, <2>2, <2>3
<1>6. QED BY <1>1, <1>4, <1>5, ChecksKeep, StepKinds DEF IInv, Writes

\* The unique constraint, seen from the farms of the whole table.
LEMMA NamesPut ==
  ASSUME IInv, NEW t \in Kind, NEW i \in Id, NEW row \in Row \cup {Absent},
         row = Absent \/ Permitted(t, i, row),
         \A u \in Kind, j \in Id :
            db'[u][j] = IF u = t /\ j = i THEN row ELSE db[u][j]
  PROVE  NamesDiffer'
<1>0. db.farm = db["farm"] /\ "farm" \in Kind
  BY DEF Kind
<1>1. ASSUME NEW f \in Id, NEW g \in Id, Exists("farm", f)', Exists("farm", g)',
             db'["farm"][f].parent = db'["farm"][g].parent,
             db'["farm"][f].value = db'["farm"][g].value
      PROVE  f = g
  <2>1. CASE t = "farm" /\ row # Absent
    <3>1. \A h \in Id \ {i} : Exists("farm", h) =>
            <<db["farm"][h].parent, db["farm"][h].value>> # <<row.parent, row.value>>
      BY <1>0, <2>1 DEF Permitted
    <3>2. CASE f = i /\ g # i
      BY <1>0, <1>1, <2>1, <3>1, <3>2 DEF Exists
    <3>3. CASE g = i /\ f # i
      BY <1>0, <1>1, <2>1, <3>1, <3>3 DEF Exists
    <3>4. CASE f # i /\ g # i
      BY <1>0, <1>1, <3>4 DEF IInv, NamesDiffer, Exists
    <3>5. QED BY <3>2, <3>3, <3>4
  <2>2. CASE t # "farm" \/ row = Absent
    <3>1. db'["farm"][f] = db["farm"][f] /\ db'["farm"][g] = db["farm"][g]
      BY <1>0, <1>1, <2>2 DEF Exists
    <3>2. QED BY <1>1, <3>1 DEF IInv, NamesDiffer, Exists
  <2>3. QED BY <2>1, <2>2
<1>2. QED BY <1>1 DEF NamesDiffer

LEMMA NamesStep ==
  ASSUME IInv, [Next]_vars
  PROVE  NamesDiffer'
<1>1. ASSUME UNCHANGED db PROVE NamesDiffer'
  BY <1>1 DEF IInv, NamesDiffer, Exists
<1>2. ASSUME NEW k \in Slot, Create(k) PROVE NamesDiffer'
  <2>0. PICK t, i : t = req(k).kind /\ i = serial[t]
    OBVIOUS
  <2>1. /\ t \in Kind /\ i \in Id /\ NewRow(k) \in Row
        /\ Permitted(t, i, NewRow(k))
        /\ db' = [db EXCEPT ![t][i] = NewRow(k)]
    <3>1. t \in Kind /\ i \in Id /\ NewRow(k) \in Row
      BY <1>2, <2>0, CreateFacts
    <3>2. Permitted(t, i, NewRow(k)) /\ db' = [db EXCEPT ![t][i] = NewRow(k)]
      BY <1>2, <2>0 DEF Create, Put
    <3>3. QED BY <3>1, <3>2
  <2>2. \A u \in Kind, j \in Id :
          db'[u][j] = IF u = t /\ j = i THEN NewRow(k) ELSE db[u][j]
    BY <2>1 DEF IInv, TypeOK
  <2>3. QED BY <2>1, <2>2, NamesPut
<1>3. ASSUME NEW k \in Slot, Rename(k) \/ Save(k) \/ Remove(k) PROVE NamesDiffer'
  <2>1. /\ req(k).kind \in Kind /\ req(k).id \in Id
        /\ UNCHANGED db \/ \E row \in Row \cup {Absent} :
             /\ Changed(k, row)
             /\ row = Absent \/ Permitted(req(k).kind, req(k).id, row)
    BY <1>3, ChangeFacts
  <2>2. ASSUME NEW row \in Row \cup {Absent}, Changed(k, row),
               row = Absent \/ Permitted(req(k).kind, req(k).id, row)
        PROVE  NamesDiffer'
    <3>1. \A u \in Kind, j \in Id :
            db'[u][j] = IF u = req(k).kind /\ j = req(k).id THEN row ELSE db[u][j]
      BY <2>2, ChangedRows DEF IInv
    <3>2. QED BY <2>1, <2>2, <3>1, NamesPut
  <2>3. QED BY <1>1, <2>1, <2>2
<1>4. QED BY <1>1, <1>2, <1>3, ChecksKeep, StepKinds DEF IInv, Writes
-----------------------------------------------------------------------------
LEMMA InitIInv == Init => IInv
<1> SUFFICES ASSUME Init PROVE IInv
  OBVIOUS
<1>1. TypeOK
  <2>1. RmqTypeOK
    BY DEF Init, RmqInit, RmqTypeOK
  <2>2. QED BY <2>1, FarmsAssumption DEF Init, TypeOK
<1>2. \A t \in Kind, i \in Id : ~Exists(t, i)
  BY DEF Init, Exists
<1>3. \A k \in Slot : ~Past(k)
  BY DEF Init, Past
<1>4. \A t \in Kind, i \in Id : ~(i < serial[t])
  BY DEF Init, Id
<1>5. events = {}
  BY DEF Init
<1>6. HandlersKnow /\ NamesDiffer /\ EventsAreRows
  BY <1>2, <1>3, <1>4, <1>5 DEF HandlersKnow, NamesDiffer, EventsAreRows, Kind
<1>7. ParentsAgree
  BY <1>2, <1>3, <1>5 DEF ParentsAgree, InsertedUnder, StoredUnder, HeldUnder, Holds
<1>8. ChainIntact
  BY <1>2 DEF ChainIntact, Stored
<1>9. QED BY <1>1, <1>6, <1>7, <1>8 DEF IInv

THEOREM FarmsInvariant == Spec => []IInv
<1>1. IInv /\ [Next]_vars => IInv'
  BY TypeStep, HandlersStep, ParentsStep, EventsStep, ChainStep, NamesStep DEF IInv
<1>2. QED BY <1>1, InitIInv, PTL DEF Spec

\* Every variable keeps its type, in particular ids run from 1 without a gap and
\* every row has a parent of the right kind.
THEOREM FarmsTypeCorrect == Spec => []TypeOK
<1>1. IInv => TypeOK
  BY DEF IInv
<1>2. QED BY <1>1, FarmsInvariant, PTL

\* No row ever loses its parent, although a save can bring back a row whose
\* deletion came between its checks and its write.
THEOREM RowsKeepTheirParents == Spec => []ChainIntact
<1>1. IInv => ChainIntact
  BY DEF IInv
<1>2. QED BY <1>1, FarmsInvariant, PTL

LEMMA AtMostOne ==
  ASSUME NEW S, \A x, y \in S : x = y
  PROVE  Cardinality(S) = IF S = {} THEN 0 ELSE 1
<1>1. CASE S = {}
  BY <1>1, FS_EmptySet
<1>2. CASE S # {}
  <2>1. PICK x : S = {x}
    BY <1>2
  <2>2. QED BY <1>2, <2>1, FS_Singleton
<1>3. QED BY <1>1, <1>2

\* However creations, renames and saves race, an owner has at most one farm of a
\* name.
THEOREM NamesAreUnique == Spec => []UniqueNames
<1>1. ASSUME IInv, NEW u \in User, NEW n \in Value
      PROVE  Cardinality(OwnFarmsNamed(u, n)) <= 1
  <2>1. db.farm = db["farm"]
    OBVIOUS
  <2>2. \A f, g \in OwnFarmsNamed(u, n) : f = g
    BY <1>1, <2>1 DEF OwnFarmsNamed, IInv, NamesDiffer
  <2>3. QED BY <2>2, AtMostOne
<1>2. IInv => UniqueNames
  BY <1>1 DEF UniqueNames
<1>3. QED BY <1>2, FarmsInvariant, PTL

\* The outbox holds exactly one event for each crop, activity and harvest that was
\* ever inserted, and it names the crop, farm and owner the row hangs from now.
THEOREM EventsAreTrue == Spec => []EventsTellTheTruth
<1>1. ASSUME IInv, NEW t \in Kind \ {"farm"}, NEW i \in Id
      PROVE  Cardinality({e \in events : e.kind = t /\ e.id = i})
               = IF i < serial[t] THEN 1 ELSE 0
  <2> DEFINE about == {e \in events : e.kind = t /\ e.id = i}
  <2>1. \A d, e \in about : d = e
    BY <1>1 DEF IInv, EventsAreRows
  <2>2. i < serial[t] <=> about # {}
    BY <1>1 DEF IInv, EventsAreRows
  <2> HIDE DEF about
  <2>3. Cardinality(about) = IF i < serial[t] THEN 1 ELSE 0
    BY <2>1, <2>2, AtMostOne
  <2>4. QED BY <2>3 DEF about
<1>2. ASSUME IInv, NEW e \in events, Exists(e.kind, e.id)
      PROVE  /\ e.crop = IF e.kind = "crop" THEN e.id ELSE db[e.kind][e.id].parent
             /\ e.farm = FarmOf(e.kind, e.id)
             /\ e.user = OwnerOf(e.kind, e.id)
  BY <1>2, TruthTold DEF IInv
<1>3. IInv => EventsTellTheTruth
  BY <1>1, <1>2 DEF EventsTellTheTruth
<1>4. QED BY <1>3, FarmsInvariant, PTL
-----------------------------------------------------------------------------
\* What is on record about a row that exists is what holds of it; said of the
\* state after a step, it tells whose row a write has made or changed.
OwnersRecorded ==
  \A e \in events : Exists(e.kind, e.id) => e.user = OwnerOf(e.kind, e.id)

LEMMA OwnersAreRecorded == IInv => OwnersRecorded
  BY TruthTold DEF IInv, OwnersRecorded

LEMMA ChangedByOwner ==
  ASSUME IInv, OwnersRecorded', [Next]_vars, NEW t \in Kind, NEW i \in Id,
         db'[t][i] # db[t][i]
  PROVE  \E k \in Slot :
           /\ At(k, "running") /\ run'[k] # run[k]
           /\ req(k).user = IF Exists(t, i) THEN OwnerOf(t, i) ELSE OwnerOf(t, i)'
<1>1. PICK k \in Slot : Writes(k)
  BY StepKinds, ChecksKeep DEF IInv
<1>2. At(k, "running") /\ run'[k] # run[k]
  <2>1. HandlerReturns(k)
    BY <1>1 DEF Writes, Create, Rename, Save, Remove, Return
  <2>2. ~IsIdle(k) /\ run'[k].pc = "succeeded" /\ run[k].pc = "running"
    BY <2>1, BusyRun DEF IInv, TypeOK, RmqTypeOK, HandlerReturns, Goto, At, Busy
  <2>3. QED BY <2>1, <2>2 DEF HandlerReturns
<1>3. db.farm = db["farm"] /\ db'.farm = db'["farm"] /\ events \subseteq events'
  BY EventsGrow
<1>4. ASSUME ~Exists(t, i), t # "farm", db'[t][i] # Absent,
             NEW e \in events', e.kind = t, e.id = i, e.user = req(k).user
      PROVE  OwnerOf(t, i)' = req(k).user
  BY <1>4 DEF OwnersRecorded, Exists
<1>5. CASE Create(k)
  <2>0. PICK u, j : u = req(k).kind /\ j = serial[u]
    OBVIOUS
  <2>1. /\ u \in Kind /\ j \in Id /\ ~Exists(u, j)
        /\ NewRow(k) \in Row
        /\ db' = [db EXCEPT ![u][j] = NewRow(k)]
        /\ u = "farm" => NewRow(k).parent = req(k).user
    <3>1. db' = [db EXCEPT ![u][j] = NewRow(k)]
      BY <1>5, <2>0 DEF Create, Put
    <3>2. u \in Kind /\ j \in Id /\ ~Exists(u, j) /\ NewRow(k) \in Row
      BY <1>5, <2>0, CreateFacts
    <3>3. u = "farm" => NewRow(k).parent = req(k).user
      BY <1>5, <2>0, CreateFacts
    <3>4. QED BY <3>1, <3>2, <3>3
  <2>2. u = t /\ j = i /\ db'[t][i] = NewRow(k)
    BY <2>1 DEF IInv, TypeOK
  <2>3. CASE t = "farm"
    <3>1. OwnerOf(t, i)' = db'["farm"][i].parent
      BY <1>3, <2>3 DEF OwnerOf, FarmOf
    <3>2. QED BY <1>2, <2>1, <2>2, <2>3, <3>1
  <2>4. CASE t # "farm"
    <3>0. u # "farm"
      BY <2>2, <2>4
    <3>1. PICK e \in events' : e.kind = t /\ e.id = i /\ e.user = req(k).user
      <4>1. PICK e \in Event : /\ events' = events \cup {e}
                               /\ e.kind = u /\ e.id = j /\ e.user = req(k).user
        BY <1>5, <2>0, <3>0, EventFacts
      <4>2. QED BY <2>2, <4>1
    <3>2. OwnerOf(t, i)' = req(k).user
      BY <1>4, <2>1, <2>2, <2>4, <3>1, AbsentIsNotRow
    <3>3. QED BY <1>2, <2>1, <2>2, <3>2
  <2>5. QED BY <2>3, <2>4
<1>6. CASE Rename(k) \/ Save(k) \/ Remove(k)
  <2>1. /\ Holds(k) /\ Checked(k) = req(k).kind
        /\ UNCHANGED db \/ \E row \in Row \cup {Absent} :
             Changed(k, row) /\ (row = Absent \/ row.parent = seen[k].parent)
    BY <1>6, ChangeFacts
  <2>2. PICK row \in Row \cup {Absent} :
          Changed(k, row) /\ (row = Absent \/ row.parent = seen[k].parent)
    BY <2>1
  <2>3. t = req(k).kind /\ i = req(k).id /\ db'[t][i] = row
    BY <2>2, ChangedRows DEF IInv
  <2>4. CASE Exists(t, i)
    BY <1>2, <2>1, <2>3, <2>4, OwnedStill
  <2>5. CASE ~Exists(t, i)
    <3>1. row # Absent /\ Owned(k)
      BY <2>1, <2>3, <2>5 DEF Exists, IInv, HandlersKnow, Holds
    <3>2. CASE t = "farm"
      <4>1. OwnerOf(t, i)' = db'["farm"][i].parent
        BY <1>3, <3>2 DEF OwnerOf, FarmOf
      <4>2. QED BY <1>2, <2>1, <2>2, <2>3, <2>5, <3>1, <3>2, <4>1 DEF Owned
    <3>3. CASE t # "farm"
      <4>1. PICK e \in events : e.kind = t /\ e.id = i /\ e.user = req(k).user
        BY <2>1, <2>3, <3>1, <3>3 DEF Owned
      <4>2. OwnerOf(t, i)' = req(k).user
        BY <1>3, <1>4, <2>3, <2>5, <3>1, <3>3, <4>1
      <4>3. QED BY <1>2, <2>5, <4>2
    <3>4. QED BY <3>2, <3>3
  <2>6. QED BY <2>4, <2>5
<1>7. QED BY <1>1, <1>5, <1>6 DEF Writes

\* A row is only ever changed, and brought back, by a request of the user it
\* belongs to: what was checked still holds when the write comes.
THEOREM OnlyOwnersChangeRows == Spec => OwnersOnly
<1>1. ASSUME IInv, OwnersRecorded', [Next]_vars
      PROVE  \A p \in Kind \X Id : db'[p[1]][p[2]] # db[p[1]][p[2]] =>
               \E k \in Slot :
                 /\ At(k, "running") /\ run'[k] # run[k]
                 /\ req(k).user = IF Exists(p[1], p[2]) THEN OwnerOf(p[1], p[2])
                                                        ELSE OwnerOf(p[1], p[2])'
  BY <1>1, ChangedByOwner
<1>2. QED BY <1>1, FarmsInvariant, OwnersAreRecorded, PTL DEF Spec, OwnersOnly
-----------------------------------------------------------------------------
\* The rows a request has made, its copies in the queue and the handlers that may
\* still make one are paid for by its publication and the faults.

Running(q) == {k \in Slot : At(k, "running") /\ run[k].msg = q}

MadePaid(q) ==
  Cardinality(made[q]) + InMain(q) + Cardinality(Running(q)) <= published[q] + faults

AllPaid == \A q \in Msg : MadePaid(q) /\ published[q] <= 1

Counted == \A q \in Msg : /\ IsFiniteSet(made[q]) /\ IsFiniteSet(Running(q))
                           /\ Cardinality(made[q]) \in Nat /\ InMain(q) \in Nat
                           /\ Cardinality(Running(q)) \in Nat
                           /\ published[q] \in Nat /\ faults \in Nat

LEMMA AreCounted == TypeOK /\ Finite => Counted
<1> SUFFICES ASSUME TypeOK, Finite, NEW q \in Msg
             PROVE  /\ IsFiniteSet(made[q]) /\ IsFiniteSet(Running(q))
                    /\ Cardinality(made[q]) \in Nat /\ InMain(q) \in Nat
                    /\ Cardinality(Running(q)) \in Nat
                    /\ published[q] \in Nat /\ faults \in Nat
  BY DEF Counted
<1>1. made[q] \subseteq 1..MaxId
  BY DEF TypeOK, Id
<1>2. IsFiniteSet(1..MaxId)
  BY FarmsAssumption, FS_Interval
<1>3. Running(q) \subseteq BusySlots
  BY DEF Running, BusySlots, At
<1>4. IsFiniteSet(made[q]) /\ IsFiniteSet(Running(q))
  BY <1>1, <1>2, <1>3, FS_Subset DEF Finite
<1>5. QED BY <1>4, FS_CardinalityType, QueuesCount DEF TypeOK, RmqTypeOK

\* A request is published once: it is an RPC.
LEMMA PublishedOnce ==
  ASSUME TypeOK, AllPaid, [Next]_vars, NEW q \in Msg
  PROVE  published'[q] <= 1
<1>1. UNCHANGED published \/ \E m \in Msg : Publish(m)
  <2>1. [RmqNext]_rmqVars
    BY StepOfConsumer
  <2>2. QED BY <2>1, RmqNextCases
     DEF Deliver, RetryExpires, HandlerReturns, HandlerThrows, GuardRejects,
         Ack, RouteToRetry, GiveUp, Park, Drop, StaleEnds, LoseConnection, Crash
<1>2. ASSUME NEW m \in Msg, Publish(m) PROVE published'[q] <= 1
  <2>1. m \in Rpc
    BY FarmsAssumption
  <2>2. published[m] < 1 /\ published[m] \in Nat
    BY <1>2, <2>1 DEF Publish, TypeOK, RmqTypeOK
  <2>3. published'[q] = IF q = m THEN published[m] + 1 ELSE published[q]
    BY <1>2 DEF Publish, TypeOK, RmqTypeOK
  <2>4. QED BY <2>2, <2>3 DEF AllPaid
<1>3. QED BY <1>1, <1>2 DEF AllPaid

\* A step of slot k that ends its handler, or leaves it where it is.
LEMMA RunningStep ==
  ASSUME TypeOK, Counted, Counted', NEW k \in Slot, NEW q \in Msg,
         \A j \in Slot : j # k => run'[j] = run[j]
  PROVE  Cardinality(Running(q))' + Has(k, Running(q))
           = Cardinality(Running(q)) + Has(k, Running(q)')
<1>1. Running(q) \ {k} = Running(q)' \ {k}
  BY DEF Running, At, IsIdle
<1>2. IsFiniteSet(Running(q)) /\ IsFiniteSet(Running(q)')
  BY DEF Counted
<1>3. QED BY <1>1, <1>2, CountsDiffer

LEMMA PaidStep ==
  ASSUME IInv, Finite, Counted, Counted', AllPaid, [Next]_vars, NEW q \in Msg
  PROVE  MadePaid(q)'
<1>0. /\ Cardinality(made[q]) \in Nat /\ InMain(q) \in Nat
      /\ Cardinality(Running(q)) \in Nat /\ published[q] \in Nat /\ faults \in Nat
      /\ Cardinality(made[q])' \in Nat /\ InMain(q)' \in Nat
      /\ Cardinality(Running(q))' \in Nat /\ published'[q] \in Nat /\ faults' \in Nat
      /\ MadePaid(q)
  BY DEF Counted, AllPaid
<1>1. /\ UNCHANGED main => InMain(q)' = InMain(q)
      /\ UNCHANGED made => Cardinality(made[q])' = Cardinality(made[q])
      /\ UNCHANGED run => Cardinality(Running(q))' = Cardinality(Running(q))
  BY DEF InMain, Running, At, IsIdle
\* The slots of the step: k starts, ends or goes on with q.
<1>2. ASSUME NEW k \in Slot, \A j \in Slot : j # k => run'[j] = run[j],
             Cardinality(made[q])' + InMain(q)' + Has(k, Running(q)') + published[q] + faults
               <= Cardinality(made[q]) + InMain(q) + Has(k, Running(q)) + published'[q] + faults'
      PROVE  MadePaid(q)'
  <2>1. Cardinality(Running(q))' + Has(k, Running(q))
          = Cardinality(Running(q)) + Has(k, Running(q)')
    BY <1>2, RunningStep DEF IInv
  <2>2. Has(k, Running(q)) \in Nat /\ Has(k, Running(q)') \in Nat
    BY DEF Has
  <2>3. QED BY <1>0, <1>2, <2>1, <2>2 DEF MadePaid
<1>3. ASSUME NEW k \in Slot
      PROVE  /\ Has(k, Running(q)) = IF At(k, "running") /\ run[k].msg = q THEN 1 ELSE 0
             /\ Has(k, Running(q)) \in Nat /\ Has(k, Running(q)') \in Nat
  BY DEF Has, Running
<1>4. ASSUME NEW k \in Slot, ~IsIdle(k), \/ Free(k) \/ Goto(k, "succeeded")
               \/ Goto(k, "failed") \/ Goto(k, "rerouted")
      PROVE  /\ Has(k, Running(q)') = 0
             /\ \A j \in Slot : j # k => run'[j] = run[j]
  BY <1>4, BusyRun DEF IInv, TypeOK, RmqTypeOK, Free, Goto, Has, Running, At, IsIdle, Busy
<1>5. ASSUME NEW m \in Msg, Publish(m), UNCHANGED farmsVars PROVE MadePaid(q)'
  <2>1. 0 \in Count /\ main' = [main EXCEPT ![m][0] = @ + 1] /\ UNCHANGED <<run, faults>>
    BY <1>5, ConsumerAssumption DEF Publish, Count
  <2>2. InMain(q)' = InMain(q) + (IF q = m THEN 1 ELSE 0)
    BY <2>1, MainGrows DEF IInv, TypeOK
  <2>3. published'[q] = published[q] + (IF q = m THEN 1 ELSE 0)
    BY <1>5 DEF Publish, IInv, TypeOK, RmqTypeOK
  <2>4. QED BY <1>0, <1>1, <1>5, <2>1, <2>2, <2>3 DEF MadePaid
<1>6. ASSUME NEW k \in Slot, NEW m \in Msg, NEW n \in Count, Deliver(k, m, n),
             UNCHANGED farmsVars
      PROVE  MadePaid(q)'
  <2>1. InMain(q) = InMain(q)' + (IF q = m THEN 1 ELSE 0)
    BY <1>6, MainShrinks DEF Deliver, IInv, TypeOK
  <2>2. /\ IsIdle(k) /\ run'[k].msg = m /\ UNCHANGED <<published, faults>>
        /\ \A j \in Slot : j # k => run'[j] = run[j]
    BY <1>6 DEF Deliver, IInv, TypeOK, RmqTypeOK
  <2>3. /\ Has(k, Running(q)) = 0
        /\ Has(k, Running(q)') <= (IF q = m THEN 1 ELSE 0)
    BY <2>2 DEF Has, Running, At
  <2>4. QED BY <1>0, <1>1, <1>2, <1>3, <1>6, <2>1, <2>2, <2>3
<1>7. ASSUME NEW k \in Slot, ~IsIdle(k), \/ Free(k) \/ Goto(k, "succeeded")
               \/ Goto(k, "failed") \/ Goto(k, "rerouted"),
             UNCHANGED <<main, published, faults, made>>
      PROVE  MadePaid(q)'
  BY <1>0, <1>1, <1>2, <1>3, <1>4, <1>7
<1>8. ASSUME NEW k \in Slot, Create(k) PROVE MadePaid(q)'
  <2>0. PICK t, i : t = req(k).kind /\ i = serial[t]
    OBVIOUS
  <2>1. ~IsIdle(k) /\ made' = [made EXCEPT ![req(k)] = @ \cup {i}] /\ req(k) \in Msg
    BY <1>8, <2>0, CreateFacts, ReqType DEF IInv
  <2>2. At(k, "running") /\ Goto(k, "succeeded") /\ UNCHANGED <<main, published, faults>>
    BY <1>8 DEF Create, Return, HandlerReturns
  <2>3. Cardinality(made[q])' <= Cardinality(made[q]) + (IF req(k) = q THEN 1 ELSE 0)
    <3>1. CASE req(k) = q
      <4>1. made'[q] = made[q] \cup {i}
        BY <2>1, <3>1 DEF IInv, TypeOK
      <4>2. \/ Cardinality(made[q] \cup {i}) = Cardinality(made[q]) + 1
            \/ made[q] \cup {i} = made[q]
        <5>1. IsFiniteSet(made[q])
          BY DEF Counted
        <5>2. CASE i \in made[q]
          BY <5>2
        <5>3. CASE i \notin made[q]
          BY <5>1, <5>3, FS_AddElement
        <5>4. QED BY <5>2, <5>3
      <4>3. Cardinality(made[q])' = Cardinality(made[q] \cup {i})
        BY <4>1
      <4>4. CASE made[q] \cup {i} = made[q]
        BY <1>0, <3>1, <4>3, <4>4
      <4>5. CASE Cardinality(made[q] \cup {i}) = Cardinality(made[q]) + 1
        BY <1>0, <3>1, <4>3, <4>5
      <4>6. QED BY <4>2, <4>4, <4>5
    <3>2. CASE req(k) # q
      BY <1>0, <2>1, <3>2 DEF IInv, TypeOK
    <3>3. QED BY <3>1, <3>2
  <2>4. Has(k, Running(q)) = IF req(k) = q THEN 1 ELSE 0
    BY <1>3, <2>2 DEF req
  <2>5. QED BY <1>0, <1>1, <1>2, <1>3, <1>4, <2>1, <2>2, <2>3, <2>4
<1>9. ASSUME NEW k \in Slot, Handle(k) PROVE MadePaid(q)'
  <2>1. ASSUME Rename(k) \/ Save(k) \/ Remove(k) PROVE MadePaid(q)'
    <3>1. ~IsIdle(k) /\ Goto(k, "succeeded") /\ UNCHANGED <<main, published, faults, made>>
      BY <2>1 DEF Rename, Save, Remove, Return, HandlerReturns, At
    <3>2. QED BY <1>7, <3>1
  <2>2. ASSUME RefuseRename(k) \/ RefuseHarvest(k) \/ Fails(k) PROVE MadePaid(q)'
    <3>1. ~IsIdle(k) /\ Goto(k, "failed") /\ UNCHANGED <<main, published, faults, made>>
      BY <2>2 DEF RefuseRename, RefuseHarvest, Fails, Throw, HandlerThrows, At
    <3>2. QED BY <1>7, <3>1
  <2>3. ASSUME CheckNewFarm(k) \/ CheckOwner(k) \/ CheckMore(k) PROVE MadePaid(q)'
    <3>1. UNCHANGED <<rmqVars, made>>
      BY <2>3 DEF CheckNewFarm, CheckOwner, CheckMore
    <3>2. QED BY <1>0, <1>1, <3>1 DEF MadePaid
  <2>4. QED BY <1>8, <1>9, <2>1, <2>2, <2>3 DEF Handle
<1>10. ASSUME NEW k \in Slot, Settle(k), UNCHANGED farmsVars PROVE MadePaid(q)'
  <2>1. /\ ~IsIdle(k) /\ (Free(k) \/ Goto(k, "rerouted"))
        /\ UNCHANGED <<main, published, faults>>
    BY <1>10 DEF Settle, Ack, RouteToRetry, GiveUp, Park, Drop, StaleEnds, FailedEvent, At
  <2>2. QED BY <1>7, <1>10, <2>1
<1>11. ASSUME NEW k \in Slot, LoseConnection(k), UNCHANGED farmsVars PROVE MadePaid(q)'
  <2>1. ~IsIdle(k) /\ Requeued(k) /\ UNCHANGED published /\ faults' = faults + 1
    BY <1>11 DEF LoseConnection, Live
  <2>2. InMain(q)' <= InMain(q) + 1
    BY <1>0, <2>1, RequeuedGrows DEF IInv, TypeOK
  <2>3. /\ \A j \in Slot : j # k => run'[j] = run[j]
        /\ run'[k].pc = run[k].pc /\ run'[k].msg = run[k].msg
    BY <1>11, <2>1, BusyRun DEF IInv, TypeOK, RmqTypeOK, LoseConnection, Busy
  <2>4. Has(k, Running(q)') <= Has(k, Running(q))
    BY <2>1, <2>3 DEF Has, Running, At
  <2>5. QED BY <1>0, <1>1, <1>2, <1>3, <1>11, <2>1, <2>2, <2>3, <2>4
<1>12. ASSUME NEW k \in Slot, Die(k) PROVE MadePaid(q)'
  <2>1. ~IsIdle(k) /\ Free(k) /\ UNCHANGED <<published, made>> /\ faults' = faults + 1
    BY <1>12 DEF Die, Crash
  <2>2. InMain(q)' <= InMain(q) + 1
    <3>1. CASE Live(k)
      BY <1>0, <1>12, <2>1, <3>1, RequeuedGrows DEF IInv, TypeOK, Die, Crash
    <3>2. CASE ~Live(k)
      BY <1>0, <1>1, <1>12, <3>2 DEF Die, Crash
    <3>3. QED BY <3>1, <3>2
  <2>3. QED BY <1>0, <1>1, <1>2, <1>3, <1>4, <2>1, <2>2
<1>13. CASE UNCHANGED vars
  BY <1>0, <1>1, <1>13 DEF vars, MadePaid
<1>14. QED
  BY <1>5, <1>6, <1>9, <1>10, <1>11, <1>12, <1>13 DEF Next, Deliveries, Around

\* A request makes a second row only after a fault: as many rows as deliveries
\* that were not acked, and one more.
THEOREM CreatedOnce == Spec => []CreatedOncePerDelivery
<1>1. Init => AllPaid
  <2> SUFFICES ASSUME Init, NEW q \in Msg PROVE MadePaid(q) /\ published[q] <= 1
    BY DEF AllPaid
  <2>1. made[q] = {} /\ Copies(main[q]) = {} /\ Running(q) = {}
    BY DEF Init, RmqInit, Copies, Running, At, IsIdle
  <2>2. Cardinality(made[q]) = 0 /\ InMain(q) = 0 /\ Cardinality(Running(q)) = 0
    BY <2>1, FS_EmptySet DEF InMain
  <2>3. QED BY <2>2 DEF Init, RmqInit, MadePaid
<1>2. /\ IInv /\ Finite /\ Counted /\ Counted' /\ AllPaid /\ [Next]_vars
      => AllPaid'
  <2> SUFFICES ASSUME IInv, Finite, Counted, Counted', AllPaid, [Next]_vars,
                      NEW q \in Msg
               PROVE  MadePaid(q)' /\ published'[q] <= 1
    BY DEF AllPaid
  <2>1. QED BY PaidStep, PublishedOnce DEF IInv
<1>3. Counted /\ AllPaid => CreatedOncePerDelivery
  <2> SUFFICES ASSUME Counted, AllPaid, NEW q \in Msg
               PROVE  Cardinality(made[q]) <= 1 + faults
    BY DEF CreatedOncePerDelivery
  <2>1. /\ Cardinality(made[q]) \in Nat /\ InMain(q) \in Nat
        /\ Cardinality(Running(q)) \in Nat /\ published[q] \in Nat /\ faults \in Nat
    BY DEF Counted
  <2>2. MadePaid(q) /\ published[q] <= 1
    BY DEF AllPaid
  <2>3. QED BY <2>1, <2>2 DEF MadePaid
<1>4. IInv => TypeOK
  BY DEF IInv
<1>5. QED
  BY <1>1, <1>2, <1>3, <1>4, AreCounted, FarmsInvariant, FarmsImplementConsumer,
     RmqStaysFinite, PTL
  DEF Spec
-----------------------------------------------------------------------------
\* The crop's harvests.  Two handlers that look before either inserts both find
\* none, so there is no bound of one; but a handler that looks later finds what
\* they made, unless it is gone, and then only those who loaded it bring it back.
\* That leaves one for each handler that can overlap with the others.

HarvestsPerOverlap == \A c \in Id : Cardinality(HarvestsOf(c)) <= Cardinality(Slot)

\* The harvests that are stored or that a handler can put back, and the handlers
\* that have found none and will insert one.
Alive(c) == {h \in Id : StoredUnder("harvest", h, c) \/ HeldUnder("harvest", h, c)}
Makers(c) == {k \in Slot : /\ step[k] = "cleared"
                           /\ Is(k, "harvest", "create") /\ req(k).id = c}

HarvestRoom(c) == Cardinality(Alive(c)) + Cardinality(Makers(c)) <= Cardinality(Slot)

LEMMA HarvestsCounted ==
  ASSUME IsFiniteSet(Slot), NEW c
  PROVE  /\ IsFiniteSet(Alive(c)) /\ Cardinality(Alive(c)) \in Nat
         /\ IsFiniteSet(Makers(c)) /\ Cardinality(Makers(c)) \in Nat
         /\ IsFiniteSet(HarvestsOf(c)) /\ Cardinality(HarvestsOf(c)) \in Nat
         /\ Cardinality(HarvestsOf(c)) <= Cardinality(Alive(c))
         /\ Cardinality(Slot) \in Nat
<1>1. IsFiniteSet(Id)
  BY FarmsAssumption, FS_Interval DEF Id
<1>2. Alive(c) \subseteq Id /\ Makers(c) \subseteq Slot
  BY DEF Alive, Makers
<1>3. HarvestsOf(c) \subseteq Alive(c)
  <2>1. db.harvest = db["harvest"]
    OBVIOUS
  <2>2. QED BY <2>1 DEF HarvestsOf, Alive, StoredUnder
<1>4. IsFiniteSet(Alive(c)) /\ IsFiniteSet(Makers(c))
  BY <1>1, <1>2, FS_Subset
<1>5. IsFiniteSet(HarvestsOf(c)) /\ Cardinality(HarvestsOf(c)) <= Cardinality(Alive(c))
  BY <1>3, <1>4, FS_Subset
<1>6. QED BY <1>4, <1>5, FS_CardinalityType

\* The same for the next state, where the sets are part of the old ones.
LEMMA HarvestRoomKept ==
  ASSUME IsFiniteSet(Slot), NEW c, HarvestRoom(c),
         Alive(c)' \subseteq Alive(c), Makers(c)' \subseteq Makers(c)
  PROVE  HarvestRoom(c)'
<1>1. /\ Cardinality(Alive(c)') <= Cardinality(Alive(c)) /\ Cardinality(Alive(c)') \in Nat
      /\ Cardinality(Makers(c)') <= Cardinality(Makers(c)) /\ Cardinality(Makers(c)') \in Nat
  BY HarvestsCounted, FS_Subset, FS_CardinalityType
<1>2. QED BY <1>1, HarvestsCounted DEF HarvestRoom

\* Handlers that a step leaves alone or ends come no closer to an insertion.
LEMMA NoNewMaker ==
  ASSUME NEW c, NEW j \in Slot, Keeps(j) \/ Ends(j), j \in Makers(c)'
  PROVE  j \in Makers(c)
<1>1. Keeps(j) /\ Past(j)
  BY DEF Makers, Keeps, Ends, Past
<1>2. step'[j] = step[j] /\ req(j)' = req(j)
  BY <1>1 DEF Keeps, req
<1>3. QED BY <1>2 DEF Makers, Is

LEMMA NoNewHolder ==
  ASSUME \A j \in Slot : Keeps(j) \/ Ends(j), NEW h, NEW c, HeldUnder("harvest", h, c)'
  PROVE  HeldUnder("harvest", h, c)
<1>1. PICK j \in Slot : /\ Holds(j)' /\ Checked(j)' = "harvest" /\ req(j)'.id = h
                        /\ seen'[j].parent = c
  BY DEF HeldUnder
<1>2. QED BY <1>1, SlotsKept

\* A check loads what is stored.
LEMMA ChecksAddNone ==
  ASSUME IInv, NEW c \in Id, NEW k \in Slot, Checks(k)
  PROVE  Alive(c)' \subseteq Alive(c)
<1>1. /\ UNCHANGED <<db, serial, events, made>>
      /\ \A j \in Slot : j # k => Keeps(j)
      /\ req(k)' = req(k) /\ (NewFarm(k)' <=> NewFarm(k)) /\ Checked(k)' = Checked(k)
      /\ ~NewFarm(k) => CheckOwner(k) \/ (Holds(k) /\ seen'[k] = seen[k])
  BY ChecksKeep
<1>2. ASSUME NEW h, Holds(k)', Checked(k)' = "harvest", req(k)'.id = h, seen'[k].parent = c
      PROVE  StoredUnder("harvest", h, c) \/ HeldUnder("harvest", h, c)
  <2>1. CASE CheckOwner(k)
    <3>1. /\ Exists(Checked(k), req(k).id)
          /\ seen'[k] = db[Checked(k)][req(k).id]
      BY <2>1 DEF IInv, TypeOK, CheckOwner, Owns
    <3>2. QED BY <1>1, <1>2, <3>1 DEF StoredUnder
  <2>2. CASE Holds(k) /\ seen'[k] = seen[k]
    BY <1>1, <1>2, <2>2 DEF HeldUnder
  <2>3. QED BY <1>1, <1>2, <2>1, <2>2 DEF Holds
<1>3. ASSUME NEW h, HeldUnder("harvest", h, c)'
      PROVE  StoredUnder("harvest", h, c) \/ HeldUnder("harvest", h, c)
  <2>1. PICK j \in Slot : /\ Holds(j)' /\ Checked(j)' = "harvest" /\ req(j)'.id = h
                          /\ seen'[j].parent = c
    BY <1>3 DEF HeldUnder
  <2>2. QED BY <1>1, <1>2, <2>1, SlotsKept
<1>4. \A h : StoredUnder("harvest", h, c)' => StoredUnder("harvest", h, c)
  BY <1>1 DEF StoredUnder, Exists
<1>5. QED BY <1>3, <1>4 DEF Alive

\* While a crop has no harvest there is room: what is alive is in the hands of
\* handlers, who hold one row each, and none of them is to insert a harvest.
RoomIfNone == \A c \in Id : HarvestsOf(c) = {} => HarvestRoom(c)

LEMMA NoneLeavesRoom ==
  ASSUME IInv, IsFiniteSet(Slot)
  PROVE  RoomIfNone
<1> SUFFICES ASSUME NEW c \in Id, HarvestsOf(c) = {} PROVE HarvestRoom(c)
  BY DEF RoomIfNone
<1> DEFINE T == {k \in Slot : /\ Holds(k) /\ Checked(k) = "harvest"
                              /\ seen[k].parent = c}
<1>1. Alive(c) \subseteq Id /\ \A h \in Alive(c) : \E k \in T : req(k).id = h
  <2>1. db.harvest = db["harvest"]
    OBVIOUS
  <2>2. \A h \in Id : ~StoredUnder("harvest", h, c)
    BY <2>1 DEF HarvestsOf, StoredUnder
  <2>3. QED BY <2>2 DEF Alive, HeldUnder
<1>2. ASSUME NEW k \in T PROVE req(k).id \in Alive(c)
  <2>1. req(k).id \in Id
    BY <1>2, HeldAgrees DEF IInv
  <2>2. QED BY <1>2, <2>1 DEF Alive, HeldUnder
<1>3. T \cap Makers(c) = {}
  <2>1. ASSUME NEW k \in T, k \in Makers(c) PROVE FALSE
    <3>1. req(k).kind = "harvest" /\ req(k).op = "create"
      BY <2>1 DEF Makers, Is
    <3>2. Checked(k) = "crop"
      BY <3>1, ParentKinds DEF Checked, Loads
    <3>3. QED BY <2>1, <3>2
  <2>2. QED BY <2>1
<1>4. T \subseteq Slot /\ Makers(c) \subseteq Slot /\ T \cup Makers(c) \subseteq Slot
  BY DEF Makers
<1> HIDE DEF T
<1>5. Cardinality(Alive(c)) <= Cardinality(T)
  <2> DEFINE f == [k \in T |-> req(k).id]
  <2>1. f \in Surjection(T, Alive(c))
    <3>1. f \in [T -> Alive(c)]
      BY <1>2
    <3>2. \A h \in Alive(c) : \E k \in T : f[k] = h
      BY <1>1
    <3>3. QED BY <3>1, <3>2 DEF Surjection
  <2>2. IsFiniteSet(T)
    BY <1>4, FS_Subset
  <2> HIDE DEF f
  <2>3. QED BY <2>1, <2>2, FS_Surjection
<1>6. Cardinality(T) + Cardinality(Makers(c)) <= Cardinality(Slot)
  <2>1. IsFiniteSet(T) /\ IsFiniteSet(Makers(c))
    BY <1>4, FS_Subset
  <2>2. Cardinality(T \cup Makers(c)) = Cardinality(T) + Cardinality(Makers(c))
    <3>1. Cardinality(T \cap Makers(c)) = 0
      BY <1>3, FS_EmptySet
    <3>2. Cardinality(T) \in Nat /\ Cardinality(Makers(c)) \in Nat
      BY <2>1, FS_CardinalityType
    <3>3. Cardinality(T \cup Makers(c)) =
            Cardinality(T) + Cardinality(Makers(c)) - Cardinality(T \cap Makers(c))
      BY <2>1, FS_Union
    <3>4. QED BY <3>1, <3>2, <3>3
  <2>3. Cardinality(T \cup Makers(c)) <= Cardinality(Slot)
    BY <1>4, FS_Subset
  <2>4. QED BY <2>2, <2>3
<1>7. Cardinality(T) \in Nat
  BY <1>4, FS_Subset, FS_CardinalityType
<1>8. QED BY <1>5, <1>6, <1>7, HarvestsCounted DEF HarvestRoom

LEMMA RoomChecked ==
  ASSUME IInv, IsFiniteSet(Slot), RoomIfNone', NEW c \in Id, HarvestRoom(c),
         NEW k \in Slot, Checks(k)
  PROVE  HarvestRoom(c)'
<1>1. /\ UNCHANGED <<db, run>> /\ req(k)' = req(k)
      /\ \A j \in Slot : j # k => Keeps(j)
  BY ChecksKeep
<1>2. CASE CheckMore(k) /\ Is(k, "harvest", "create") /\ req(k).id = c
  <2>1. HarvestsOf(c) = {}
    <3>1. ~Is(k, "farm", "update")
      BY <1>2 DEF Is
    <3>2. ClearedBy(k) /\ req(k).id = c
      BY <1>2 DEF CheckMore
    <3>3. QED BY <1>2, <3>1, <3>2 DEF ClearedBy
  <2>2. HarvestsOf(c)' = {}
    BY <1>1, <2>1 DEF HarvestsOf, Exists
  <2>3. QED BY <2>2 DEF RoomIfNone
<1>3. CASE ~(CheckMore(k) /\ Is(k, "harvest", "create") /\ req(k).id = c)
  <2>1. k \notin Makers(c)'
    <3>1. Is(k, "harvest", "create")' <=> Is(k, "harvest", "create")
      BY <1>1 DEF Is
    <3>2. CASE CheckNewFarm(k)
      BY <3>1, <3>2 DEF CheckNewFarm, NewFarm, Is, Makers
    <3>3. CASE CheckOwner(k)
      <4>1. Is(k, "harvest", "create") => step'[k] = "loaded"
        BY <3>3 DEF CheckOwner, Goes, ChecksMore, IInv, TypeOK
      <4>2. QED BY <3>1, <4>1 DEF Makers
    <3>4. CASE CheckMore(k)
      BY <1>1, <1>3, <3>1, <3>4 DEF Makers
    <3>5. QED BY <3>2, <3>3, <3>4 DEF Checks
  <2>2. Makers(c)' \subseteq Makers(c)
    <3>1. \A j \in Makers(c)' : j \in Slot /\ j # k
      BY <2>1 DEF Makers
    <3>2. QED BY <1>1, <3>1, NoNewMaker
  <2>3. QED BY <2>2, ChecksAddNone, HarvestRoomKept
<1>4. QED BY <1>2, <1>3

\* An insertion takes a maker away for the harvest it adds.
LEMMA RoomCreated ==
  ASSUME IInv, IsFiniteSet(Slot), NEW c \in Id, HarvestRoom(c),
         NEW k \in Slot, Create(k), Ends(k), \A j \in Slot : j # k => Keeps(j)
  PROVE  HarvestRoom(c)'
<1>0. PICK t, i : t = req(k).kind /\ i = serial[t]
  OBVIOUS
<1>1. /\ t \in Kind /\ i \in Id
      /\ db' = [db EXCEPT ![t][i] = NewRow(k)]
      /\ t # "farm" => NewRow(k).parent = req(k).id
  BY <1>0, CreateFacts
<1>2. step[k] = "cleared" /\ req(k).op = "create"
  BY DEF Create, InStep
<1>3. ASSUME NEW h \in Id, StoredUnder("harvest", h, c)'
      PROVE  \/ StoredUnder("harvest", h, c)
             \/ t = "harvest" /\ h = i /\ req(k).id = c
  BY <1>1, <1>3 DEF IInv, TypeOK, StoredUnder, Exists, Kind
<1>4. \A h : HeldUnder("harvest", h, c)' => HeldUnder("harvest", h, c)
  BY NoNewHolder
<1>5. Makers(c)' \subseteq Makers(c) \ {k}
  <2>1. k \notin Makers(c)'
    BY DEF Ends, Makers
  <2>2. \A j \in Makers(c)' : j \in Slot
    BY DEF Makers
  <2>3. QED BY <2>1, <2>2, NoNewMaker
<1>6. CASE t = "harvest" /\ req(k).id = c
  <2>1. k \in Makers(c)
    BY <1>0, <1>2, <1>6 DEF Makers, Is
  <2>2. Alive(c)' \subseteq Alive(c) \cup {i}
    BY <1>3, <1>4 DEF Alive
  <2>3. /\ Cardinality(Alive(c)') \in Nat
        /\ Cardinality(Alive(c)') <= Cardinality(Alive(c)) + 1
    <3>1. /\ IsFiniteSet(Alive(c) \cup {i})
          /\ Cardinality(Alive(c) \cup {i}) <= Cardinality(Alive(c)) + 1
      <4>1. /\ IsFiniteSet(Alive(c) \cup {i})
            /\ Cardinality(Alive(c) \cup {i}) =
                 IF i \in Alive(c) THEN Cardinality(Alive(c)) ELSE Cardinality(Alive(c)) + 1
        BY HarvestsCounted, FS_AddElement
      <4>2. Cardinality(Alive(c)) \in Nat
        BY HarvestsCounted
      <4>3. QED BY <4>1, <4>2
    <3>2. /\ Cardinality(Alive(c)') <= Cardinality(Alive(c) \cup {i})
          /\ Cardinality(Alive(c)') \in Nat
          /\ Cardinality(Alive(c) \cup {i}) \in Nat
      BY <2>2, <3>1, FS_Subset, FS_CardinalityType
    <3>3. QED BY <3>1, <3>2, HarvestsCounted
  <2>4. /\ Cardinality(Makers(c)') \in Nat
        /\ Cardinality(Makers(c)') <= Cardinality(Makers(c)) - 1
    <3>1. /\ IsFiniteSet(Makers(c) \ {k})
          /\ Cardinality(Makers(c) \ {k}) = Cardinality(Makers(c)) - 1
      BY <2>1, HarvestsCounted, FS_RemoveElement
    <3>2. QED BY <1>5, <3>1, FS_Subset, FS_CardinalityType
  <2>5. QED BY <2>3, <2>4, HarvestsCounted DEF HarvestRoom
<1>7. CASE ~(t = "harvest" /\ req(k).id = c)
  <2>1. Alive(c)' \subseteq Alive(c)
    BY <1>3, <1>4, <1>7 DEF Alive
  <2>2. QED BY <1>5, <2>1, HarvestRoomKept
<1>8. QED BY <1>6, <1>7

\* A save puts back what its handler holds.
LEMMA RoomChanged ==
  ASSUME IInv, IsFiniteSet(Slot), NEW c \in Id, HarvestRoom(c),
         NEW k \in Slot, Rename(k) \/ Save(k) \/ Remove(k),
         \A j \in Slot : Keeps(j) \/ Ends(j)
  PROVE  HarvestRoom(c)'
<1>1. /\ Holds(k) /\ Checked(k) = req(k).kind
      /\ \/ UNCHANGED db
         \/ Changed(k, Absent)
         \/ \E row \in Row : Changed(k, row) /\ row.parent = seen[k].parent
  BY ChangeFacts
<1>2. ASSUME NEW h \in Id, StoredUnder("harvest", h, c)'
      PROVE  StoredUnder("harvest", h, c) \/ HeldUnder("harvest", h, c)
  <2>1. CASE db'["harvest"][h] = db["harvest"][h]
    BY <1>2, <2>1 DEF StoredUnder, Exists
  <2>2. CASE db'["harvest"][h] # db["harvest"][h]
    <3>1. /\ "harvest" = req(k).kind /\ h = req(k).id
          /\ db'["harvest"][h] = Absent \/ db'["harvest"][h].parent = seen[k].parent
      <4>1. "harvest" \in Kind
        BY DEF Kind
      <4>2. QED BY <1>1, <2>2, <4>1, ChangedRows DEF IInv
    <3>2. QED BY <1>1, <1>2, <3>1 DEF StoredUnder, Exists, HeldUnder
  <2>3. QED BY <2>1, <2>2
<1>3. \A h : HeldUnder("harvest", h, c)' => HeldUnder("harvest", h, c)
  BY NoNewHolder
<1>4. Alive(c)' \subseteq Alive(c)
  BY <1>2, <1>3 DEF Alive
<1>5. Makers(c)' \subseteq Makers(c)
  <2>1. \A j \in Makers(c)' : j \in Slot
    BY DEF Makers
  <2>2. QED BY <2>1, NoNewMaker
<1>6. QED BY <1>4, <1>5, HarvestRoomKept

LEMMA HarvestRoomStep ==
  ASSUME IInv, IsFiniteSet(Slot), RoomIfNone', NEW c \in Id, HarvestRoom(c), [Next]_vars
  PROVE  HarvestRoom(c)'
<1>1. CASE UNCHANGED db /\ \A j \in Slot : Keeps(j) \/ Ends(j)
  <2>1. \A h : StoredUnder("harvest", h, c)' => StoredUnder("harvest", h, c)
    BY <1>1 DEF StoredUnder, Exists
  <2>2. \A h : HeldUnder("harvest", h, c)' => HeldUnder("harvest", h, c)
    BY <1>1, NoNewHolder
  <2>3. Alive(c)' \subseteq Alive(c)
    BY <2>1, <2>2 DEF Alive
  <2>4. Makers(c)' \subseteq Makers(c)
    <3>1. \A j \in Makers(c)' : j \in Slot
      BY DEF Makers
    <3>2. QED BY <1>1, <3>1, NoNewMaker
  <2>5. QED BY <2>3, <2>4, HarvestRoomKept
<1>2. ASSUME NEW k \in Slot, Writes(k), Ends(k), \A j \in Slot : j # k => Keeps(j)
      PROVE  HarvestRoom(c)'
  BY <1>2, RoomCreated, RoomChanged DEF Writes
<1>3. QED BY <1>1, <1>2, RoomChecked, StepKinds DEF IInv

\* With any number of replicas and any faults, a crop has at most one harvest for
\* each handler that can be at work at the same time.
THEOREM HarvestsAreBounded == ASSUME IsFiniteSet(Slot) PROVE Spec => []HarvestsPerOverlap
<1> DEFINE Room == \A c \in Id : HarvestRoom(c)
<1>1. Init => Room
  <2> SUFFICES ASSUME Init, NEW c \in Id PROVE HarvestRoom(c)
    OBVIOUS
  <2>1. HarvestsOf(c) = {}
    BY DEF Init, HarvestsOf, Exists, Kind
  <2>2. QED BY <2>1, InitIInv, NoneLeavesRoom DEF RoomIfNone
<1>2. IInv /\ RoomIfNone' /\ Room /\ [Next]_vars => Room'
  BY HarvestRoomStep
<1>3. Room => HarvestsPerOverlap
  <2> SUFFICES ASSUME Room, NEW c \in Id
               PROVE  Cardinality(HarvestsOf(c)) <= Cardinality(Slot)
    BY DEF HarvestsPerOverlap
  <2>1. Cardinality(Alive(c)) + Cardinality(Makers(c)) <= Cardinality(Slot)
    BY DEF HarvestRoom
  <2>2. QED BY <2>1, HarvestsCounted
<1>4. IInv => RoomIfNone
  BY NoneLeavesRoom
<1> HIDE DEF Room
<1>5. QED BY <1>1, <1>2, <1>3, <1>4, FarmsInvariant, PTL DEF Spec
=============================================================================
