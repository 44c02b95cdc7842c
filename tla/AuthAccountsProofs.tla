--------------------------- MODULE AuthAccountsProofs ---------------------------
(***************************************************************************)
(* For any users, requests and faults: the accounts type, and while one      *)
(* delivery is handled at a time (one replica with prefetch 1, and a          *)
(* connection that outlives its handlers) a refresh token is rotated once, a  *)
(* mailed token is used once, the last one mailed works and the last event    *)
(* about a user is current, whatever the seed does in between.  With more     *)
(* replicas a refresh token is rotated once for each handler that overlaps.   *)
(***************************************************************************)
EXTENDS AuthAccounts, RmqConsumerProofs

USE DEF broker, history, rmqVars, store, local, accountVars

\* Every step of the service is a step of the consumer, or leaves it alone.
LEMMA StepOfConsumer == [Next]_vars => [RmqNext]_rmqVars
<1> SUFFICES ASSUME [Next]_vars PROVE [RmqNext]_rmqVars
  OBVIOUS
<1>1. CASE Deliveries /\ UNCHANGED accountVars
  BY <1>1 DEF Deliveries, RmqNext, Transport
<1>2. ASSUME NEW k \in Slot, Handle(k) PROVE [RmqNext]_rmqVars
  BY <1>2 DEF Handle, CheckFree, Register, CheckPassword, Login, CheckToken, Revoke,
     Rotate, NobodyToMail, FindMail, MailReset, CheckReset, LoadForReset, SaveReset,
     LoadForUpdate, SaveUpdate, LoadForUpload, SavePhoto, Fails, Proceed, Find, Mint,
     Return, Throw, RmqNext
<1>3. ASSUME NEW k \in Slot, Around(k) \/ Die(k) PROVE [RmqNext]_rmqVars
  BY <1>3 DEF Around, Die, RmqNext
<1>4. CASE Seed
  BY <1>4 DEF Seed, SeedReads, SeedCreates, SeedReconciles
<1>5. CASE UNCHANGED vars
  BY <1>5 DEF vars
<1>6. QED BY <1>1, <1>2, <1>3, <1>4, <1>5 DEF Next

\* The service implements the consumer.
THEOREM AccountsImplementConsumer == Spec => RmqSpec
<1>1. Init => RmqInit
  BY DEF Init
<1>2. QED BY <1>1, StepOfConsumer, PTL DEF Spec, RmqSpec
-----------------------------------------------------------------------------
\* Types, and what the handlers and the seed remember.

Loads == {"forgot", "reset", "update", "upload"}
Past(k) == step[k] # "start"
Holds(k) == Past(k) /\ req(k).op \in Loads

HandlersKnow ==
  \A k \in Slot : /\ Past(k) => At(k, "running")
                  /\ Holds(k) => /\ who[k] \in User /\ Registered(who[k])
                                 /\ seen[k] \in Account

SeedKnows == seed.at = "reconcile" => seed.user \in User /\ Registered(seed.user)

Base == TypeOK /\ HandlersKnow /\ SeedKnows

LEMMA AbsentIsNotAccount == Absent \notin Account
<1>1. ASSUME Absent \in Account PROVE FALSE
  <2>1. DOMAIN Absent = {"email", "secret", "profile", "rol", "reset"}
    BY <1>1 DEF Account
  <2>2. DOMAIN Absent = {"absent"}
    BY DEF Absent
  <2>3. QED BY <2>1, <2>2
<1>2. QED BY <1>1

LEMMA AccountOf ==
  ASSUME TypeOK, NEW u \in User
  PROVE  Registered(u) <=> users[u] \in Account
  BY AbsentIsNotAccount DEF TypeOK, Registered

\* The request of a busy slot.
LEMMA ReqType ==
  ASSUME TypeOK, NEW k \in Slot, ~IsIdle(k)
  PROVE  /\ req(k) \in Msg /\ req(k).op \in Op /\ req(k).user \in User
         /\ req(k).email \in Email /\ req(k).secret \in Secret
         /\ req(k).profile \in Profile /\ req(k).token \in Number
<1>1. run[k].msg \in Msg
  BY BusyRun DEF TypeOK
<1>2. run[k].msg \in Request
  BY <1>1, AccountsAssumption
<1>3. QED BY <1>1, <1>2 DEF req, Request

\* What a step does to the slots.  It keeps what a handler knows, ends it, lets
\* it go on without a loaded entity, or has it load row u.
Keeps(j) == /\ step'[j] = step[j] /\ seen'[j] = seen[j] /\ who'[j] = who[j]
            /\ Past(j) => At(j, "running")' /\ run'[j].msg = run[j].msg
Ends(j) == step'[j] = "start"
GoesOn(j) == /\ At(j, "running")' /\ run'[j].msg = run[j].msg
             /\ At(j, "running") /\ req(j).op \notin Loads
Finds(j, u) == /\ u \in User /\ Registered(u)
               /\ At(j, "running")' /\ run'[j].msg = run[j].msg
               /\ At(j, "running")
               /\ seen'[j] = users[u] /\ who'[j] = u
               /\ req(j).op = "reset" =>
                    users[u].reset = req(j).token \/ (Holds(j) /\ u = who[j])

Checks(k) == CheckFree(k) \/ CheckPassword(k) \/ CheckToken(k) \/ Revoke(k)
Reads(k) == \/ FindMail(k) \/ CheckReset(k) \/ LoadForReset(k)
            \/ LoadForUpdate(k) \/ LoadForUpload(k)
Writes(k) == \/ Register(k) \/ Login(k) \/ Rotate(k)
             \/ MailReset(k) \/ SaveReset(k) \/ SaveUpdate(k) \/ SavePhoto(k)
Drops(k) == NobodyToMail(k) \/ Fails(k) \/ Die(k)
Waits == \/ Deliveries /\ UNCHANGED accountVars
         \/ \E k \in Slot : Around(k)
         \/ UNCHANGED vars

LEMMA StepKinds ==
  ASSUME [Next]_vars
  PROVE  \/ \E k \in Slot : Checks(k)
         \/ \E k \in Slot : Reads(k)
         \/ \E k \in Slot : Writes(k)
         \/ \E k \in Slot : Drops(k)
         \/ Waits
         \/ Seed
  BY DEF Next, Handle, Checks, Reads, Writes, Drops, Waits

LEMMA WaitsLeave == Waits => UNCHANGED accountVars
  BY DEF Waits, Around, vars

LEMMA WaitsKeep ==
  ASSUME TypeOK, HandlersKnow, Waits \/ Seed
  PROVE  \A j \in Slot : Keeps(j)
<1>1. CASE Seed
  BY <1>1 DEF Seed, SeedReads, SeedCreates, SeedReconciles, HandlersKnow, Keeps, At, IsIdle
<1>2. CASE UNCHANGED vars
  BY <1>2 DEF vars, HandlersKnow, Keeps, At, IsIdle
<1>3. ASSUME UNCHANGED accountVars, NEW j \in Slot,
             Transport \/ \E k \in Slot : Settle(k) \/ LoseConnection(k)
      PROVE  Keeps(j)
  BY <1>3, RunningGoesOn DEF TypeOK, HandlersKnow, Keeps, Past
<1>4. Deliveries => Transport
  BY DEF Deliveries, Transport
<1>5. QED BY <1>1, <1>2, <1>3, <1>4 DEF Waits, Around

LEMMA Ending ==
  ASSUME TypeOK, HandlersKnow, NEW k \in Slot, Writes(k) \/ Drops(k)
  PROVE  /\ Ends(k) /\ ~At(k, "running")'
         /\ \A j \in Slot : j # k => Keeps(j) /\ run'[j] = run[j]
<1>1. Forget(k)
  BY DEF Writes, Drops, Register, Login, Rotate, MailReset, SaveReset, SaveUpdate,
         SavePhoto, NobodyToMail, Fails, Die, Mint, Return, Throw
<1>2. HandlerReturns(k) \/ HandlerThrows(k) \/ Crash(k)
  BY DEF Writes, Drops, Register, Login, Rotate, MailReset, SaveReset, SaveUpdate,
         SavePhoto, NobodyToMail, Fails, Die, Mint, Return, Throw
<1>3. /\ \A j \in Slot : j # k => run'[j] = run[j]
      /\ ~At(k, "running")'
  BY <1>2, ExecutionEnds DEF TypeOK
<1>4. QED BY <1>1, <1>3 DEF Forget, TypeOK, HandlersKnow, Keeps, Ends, At, IsIdle

\* The row a read finds.
LEMMA Reading ==
  ASSUME Base, NEW k \in Slot, Reads(k)
  PROVE  /\ \E u \in User : Finds(k, u)
         /\ step'[k] \in {"checked", "loaded"} /\ req(k).op \in Loads
         /\ \A j \in Slot : j # k => Keeps(j)
         /\ UNCHANGED <<rmqVars, store, seed>>
<1>1. At(k, "running") /\ req(k).op \in Loads /\ ~IsIdle(k)
  BY DEF Reads, FindMail, CheckReset, LoadForReset, LoadForUpdate, LoadForUpload,
         Awaits, Loads, At
<1>2. PICK u \in User, s \in {"checked", "loaded"} :
        /\ Find(k, u, s)
        /\ req(k).op = "reset" =>
             users[u].reset = req(k).token \/ (Holds(k) /\ u = who[k])
  <2>1. req(k).user \in User
    BY <1>1, ReqType DEF Base
  <2>2. ASSUME LoadForReset(k) PROVE Holds(k) /\ who[k] \in User
    BY <2>2 DEF Base, HandlersKnow, LoadForReset, Awaits, Holds, Past, Loads
  <2>3. QED
    BY <2>1, <2>2 DEF Reads, FindMail, CheckReset, LoadForReset, LoadForUpdate,
       LoadForUpload, Awaits, UsersWith
<1>3. Finds(k, u)
  BY <1>1, <1>2 DEF Find, Finds, Base, TypeOK, At, IsIdle
<1>4. \A j \in Slot : j # k => Keeps(j)
  BY <1>2 DEF Find, Goes, Keeps, Base, TypeOK, HandlersKnow, At, IsIdle
<1>5. QED BY <1>1, <1>2, <1>3, <1>4 DEF Find, Goes, Base, TypeOK

LEMMA Checking ==
  ASSUME Base, NEW k \in Slot, Checks(k)
  PROVE  /\ GoesOn(k) /\ step'[k] \in {"checked", "revoked"}
         /\ \A j \in Slot : j # k => Keeps(j)
         /\ UNCHANGED <<rmqVars, users, events, parent, spent, seen, who, seed>>
  BY DEF Checks, CheckFree, CheckPassword, CheckToken, Revoke, Proceed, Goes, Awaits,
         Loads, GoesOn, Keeps, At, IsIdle, Base, TypeOK, HandlersKnow

\* All that a step can do to a handler.
LEMMA SlotStep ==
  ASSUME Base, [Next]_vars, NEW j \in Slot
  PROVE  \/ Keeps(j) \/ Ends(j) \/ GoesOn(j)
         \/ UNCHANGED store /\ \E u \in User : Finds(j, u)
  BY StepKinds, WaitsKeep, Ending, Reading, Checking DEF Base

\* Users are never deleted.
LEMMA UsersStep ==
  ASSUME Base, [Next]_vars
  PROVE  /\ users' \in [User -> Account \cup {Absent}]
         /\ \A u \in User : Registered(u) => Registered(u)'
<1>1. ASSUME NEW u \in User, NEW a \in Account, users' = [users EXCEPT ![u] = a]
      PROVE  /\ users' \in [User -> Account \cup {Absent}]
             /\ \A v \in User : Registered(v) => Registered(v)'
  BY <1>1, AbsentIsNotAccount DEF Base, TypeOK, Registered
<1>2. UNCHANGED users => /\ users' \in [User -> Account \cup {Absent}]
                         /\ \A v \in User : Registered(v) => Registered(v)'
  BY DEF Base, TypeOK, Registered
<1>3. ASSUME NEW k \in Slot, Writes(k)
      PROVE  UNCHANGED users \/ \E u \in User, a \in Account : users' = [users EXCEPT ![u] = a]
  <2>0. ~IsIdle(k) /\ (req(k).op \in Loads => who[k] \in User /\ users[who[k]] \in Account
                                           /\ seen[k] \in Account)
    BY <1>3, AccountOf DEF Writes, Register, Login, Rotate, MailReset, SaveReset,
       SaveUpdate, SavePhoto, Awaits, At, Base, HandlersKnow, Holds, Past
  <2>1. CASE Register(k)
    <3>1. [email |-> req(k).email, secret |-> req(k).secret,
           profile |-> req(k).profile, rol |-> "none", reset |-> 0] \in Account
      BY <2>0, ReqType, AccountsAssumption DEF Account, Base
    <3>2. QED BY <2>1, <3>1 DEF Register, Insert, Write
  <2>2. CASE MailReset(k)
    <3>1. PICK t \in Number : Write(who[k], [users[who[k]] EXCEPT !.reset = t])
      BY <2>2 DEF MailReset
    <3>2. [users[who[k]] EXCEPT !.reset = t] \in Account
      BY <2>0, <2>2, AccountsAssumption DEF MailReset, Awaits, Loads, Account, Number
    <3>3. QED BY <2>0, <2>2, <3>1, <3>2 DEF MailReset, Awaits, Loads, Write
  <2>3. CASE SaveReset(k)
    <3>1. [seen[k] EXCEPT !.secret = req(k).secret, !.reset = 0] \in Account
      <4>1. /\ seen[k] \in Account /\ req(k).secret \in Secret
            /\ 0 \in 0..MaxToken
        BY <2>0, <2>3, ReqType, AccountsAssumption DEF SaveReset, Awaits, Loads, Base
      <4>2. QED BY <4>1 DEF Account
    <3>2. QED BY <2>0, <2>3, <3>1 DEF SaveReset, Awaits, Loads, Write
  <2>4. CASE SaveUpdate(k)
    <3>1. SavedAs(k, Updated(k)) \in Account
      BY <2>0, <2>4, ReqType
         DEF SaveUpdate, SavedAs, Updated, Awaits, Loads, Account, Base
    <3>2. QED BY <2>0, <2>4, <3>1 DEF SaveUpdate, Awaits, Loads, Write
  <2>5. CASE SavePhoto(k)
    <3>1. SavedAs(k, seen[k]) \in Account
      BY <2>0, <2>5 DEF SavePhoto, SavedAs, Awaits, Loads, Account, Base
    <3>2. QED BY <2>0, <2>5, <3>1 DEF SavePhoto, Awaits, Loads, Write
  <2>6. CASE Login(k) \/ Rotate(k)
    BY <2>6 DEF Login, Rotate, Mint
  <2>7. QED BY <1>3, <2>1, <2>2, <2>3, <2>4, <2>5, <2>6 DEF Writes
<1>4. ASSUME Seed
      PROVE  UNCHANGED users \/ \E u \in User, a \in Account : users' = [users EXCEPT ![u] = a]
  <2>1. CASE SeedReads
    BY <2>1 DEF SeedReads
  <2>2. CASE SeedCreates
    <3>1. \A e \in Admins : [email |-> e, secret |-> AdminSecret, profile |-> AdminProfile,
                            rol |-> "admin", reset |-> 0] \in Account
      BY AccountsAssumption DEF Account
    <3>2. QED BY <2>2, <3>1 DEF SeedCreates, Insert, Write
  <2>3. CASE SeedReconciles
    <3>1. seed.user \in User /\ users[seed.user] \in Account
      BY <2>3, AccountOf DEF SeedReconciles, Base, SeedKnows
    <3>2. \A e \in Admins : [users[seed.user] EXCEPT !.email = e, !.rol = "admin",
                            !.secret = AdminSecret] \in Account
      BY <3>1, AccountsAssumption DEF Account
    <3>3. QED BY <2>3, <3>1, <3>2 DEF SeedReconciles
  <2>4. QED BY <1>4, <2>1, <2>2, <2>3 DEF Seed
<1>5. (\E k \in Slot : Checks(k) \/ Reads(k) \/ Drops(k)) \/ Waits => UNCHANGED users
  BY WaitsLeave, Checking, Reading DEF Drops, NobodyToMail, Fails, Die
<1>6. QED BY <1>1, <1>2, <1>3, <1>4, <1>5, StepKinds

LEMMA KnowStep ==
  ASSUME Base, [Next]_vars
  PROVE  HandlersKnow' /\ SeedKnows'
<1>1. ASSUME NEW j \in Slot
      PROVE  /\ Past(j)' => At(j, "running")'
             /\ Holds(j)' => who'[j] \in User /\ Registered(who[j])' /\ seen'[j] \in Account
  <2>1. CASE Keeps(j)
    BY <2>1, UsersStep DEF Keeps, Past, Holds, req, Base, HandlersKnow
  <2>2. CASE Ends(j)
    BY <2>2 DEF Ends, Past, Holds
  <2>3. CASE GoesOn(j)
    BY <2>3 DEF GoesOn, Past, Holds, req
  <2>4. ASSUME NEW u \in User, Finds(j, u), UNCHANGED store
        PROVE  /\ Past(j)' => At(j, "running")'
               /\ Holds(j)' => who'[j] \in User /\ Registered(who[j])' /\ seen'[j] \in Account
    BY <2>4, AccountOf DEF Finds, Registered, Base
  <2>5. QED BY <2>1, <2>2, <2>3, <2>4, SlotStep
<1>2. SeedKnows'
  <2>1. CASE UNCHANGED seed
    BY <2>1, UsersStep DEF SeedKnows, Base
  <2>2. CASE SeedReads
    <3>1. seed'.at = "reconcile" => seed'.user \in User /\ Registered(seed'.user)
      BY <2>2 DEF SeedReads, SeedGoes, UsersWith
    <3>2. QED BY <2>2, <3>1, UsersStep DEF SeedKnows
  <2>3. CASE seed'.at # "reconcile"
    BY <2>3 DEF SeedKnows
  <2>4. UNCHANGED seed \/ SeedReads \/ seed'.at # "reconcile"
    <3>1. ASSUME NEW k \in Slot, Writes(k) PROVE UNCHANGED seed
      BY <3>1 DEF Writes, Register, Login, Rotate, MailReset, SaveReset, SaveUpdate,
         SavePhoto, Mint
    <3>2. ASSUME NEW k \in Slot, Drops(k) PROVE UNCHANGED seed \/ seed'.at = "due"
      BY <3>2 DEF Drops, NobodyToMail, Fails, Die, SeedGoes
    <3>3. Waits => UNCHANGED seed
      BY WaitsLeave
    <3>4. Seed => SeedReads \/ seed'.at = "done"
      <4>1. SeedCreates \/ SeedReconciles => SeedGoes("done", 0)
        BY DEF SeedCreates, SeedReconciles
      <4>2. SeedGoes("done", 0) => seed'.at = "done"
        BY DEF SeedGoes
      <4>3. QED BY <4>1, <4>2 DEF Seed
    <3>5. QED BY <3>1, <3>2, <3>3, <3>4, StepKinds, Checking, Reading
  <2>5. QED BY <2>1, <2>2, <2>3, <2>4
<1>3. QED BY <1>1, <1>2 DEF HandlersKnow

\* What a write appends to the outbox.
LEMMA EventsStep ==
  ASSUME Base, [Next]_vars
  PROVE  UNCHANGED events \/ \E e \in Event : events' = Append(events, e)
<1>1. ASSUME NEW u \in User, NEW a \in Account, NEW kind \in {"created", "updated"},
             Announce(kind, u, a)
      PROVE  \E e \in Event : events' = Append(events, e)
  <2>1. [kind |-> kind, user |-> u, email |-> a.email, profile |-> a.profile,
         rol |-> a.rol] \in Event
    BY DEF Event, Account
  <2>2. QED BY <1>1, <2>1 DEF Announce
<1>2. ASSUME NEW k \in Slot, Writes(k)
      PROVE  UNCHANGED events \/ \E e \in Event : events' = Append(events, e)
  <2>0. ~IsIdle(k) /\ (req(k).op \in Loads => who[k] \in User /\ seen[k] \in Account)
    BY <1>2 DEF Writes, Register, Login, Rotate, MailReset, SaveReset,
       SaveUpdate, SavePhoto, Awaits, At, Base, HandlersKnow, Holds, Past
  <2>1. CASE Register(k)
    <3>1. [email |-> req(k).email, secret |-> req(k).secret,
           profile |-> req(k).profile, rol |-> "none", reset |-> 0] \in Account
      BY <2>0, ReqType, AccountsAssumption DEF Account, Base
    <3>2. QED BY <1>1, <2>1, <3>1 DEF Register, Insert
  <2>2. CASE MailReset(k)
    <3>1. PICK t \in Number : Mail(k, t)
      BY <2>2 DEF MailReset
    <3>2. [kind |-> "reset", user |-> who[k], email |-> seen[k].email, token |-> t] \in Event
      BY <2>0, <2>2 DEF MailReset, Awaits, Loads, Account, Event
    <3>3. QED BY <3>1, <3>2 DEF Mail
  <2>3. CASE SaveUpdate(k)
    <3>1. Updated(k) \in Account /\ who[k] \in User
      BY <2>0, <2>3, ReqType DEF SaveUpdate, Updated, Awaits, Loads, Account, Base
    <3>2. QED BY <1>1, <2>3, <3>1 DEF SaveUpdate
  <2>4. CASE Login(k) \/ Rotate(k) \/ SaveReset(k) \/ SavePhoto(k)
    BY <2>4 DEF Login, Rotate, Mint, SaveReset, SavePhoto
  <2>5. QED BY <1>2, <2>1, <2>2, <2>3, <2>4 DEF Writes
<1>3. Seed => UNCHANGED events
  BY DEF Seed, SeedReads, SeedCreates, SeedReconciles
<1>4. (\E k \in Slot : Checks(k) \/ Reads(k) \/ Drops(k)) \/ Waits => UNCHANGED events
  BY WaitsLeave, Checking, Reading DEF Drops, NobodyToMail, Fails, Die
<1>5. QED BY <1>2, <1>3, <1>4, StepKinds

\* What a step does to the refresh tokens.
LEMMA TokensStep ==
  ASSUME Base, [Next]_vars
  PROVE  \/ UNCHANGED <<allow, parent>>
         \/ \E k \in Slot : CheckToken(k)
         \/ \E k \in Slot : Revoke(k)
         \/ \E k \in Slot : Login(k) \/ Rotate(k)
<1>1. ASSUME NEW k \in Slot, Checks(k)
      PROVE  UNCHANGED <<allow, parent>> \/ CheckToken(k) \/ Revoke(k)
  BY <1>1 DEF Checks, CheckFree, CheckPassword, Proceed
<1>2. ASSUME NEW k \in Slot, Writes(k)
      PROVE  UNCHANGED <<allow, parent>> \/ Login(k) \/ Rotate(k)
  BY <1>2 DEF Writes, Register, MailReset, SaveReset, SaveUpdate, SavePhoto
<1>3. ASSUME NEW k \in Slot, Drops(k) PROVE UNCHANGED <<allow, parent>>
  BY <1>3 DEF Drops, NobodyToMail, Fails, Die
<1>4. Seed => UNCHANGED <<allow, parent>>
  BY DEF Seed, SeedReads, SeedCreates, SeedReconciles
<1>5. Waits => UNCHANGED <<allow, parent>>
  BY WaitsLeave
<1>6. ASSUME NEW k \in Slot, Reads(k) PROVE UNCHANGED <<allow, parent>>
  BY <1>6, Reading
<1>7. QED BY <1>1, <1>2, <1>3, <1>4, <1>5, <1>6, StepKinds

LEMMA SpentStep ==
  ASSUME Base, [Next]_vars
  PROVE  UNCHANGED spent \/ \E k \in Slot : SaveReset(k)
<1>1. ASSUME NEW k \in Slot, Writes(k) PROVE UNCHANGED spent \/ SaveReset(k)
  BY <1>1 DEF Writes, Register, Login, Rotate, Mint, MailReset, SaveUpdate, SavePhoto
<1>2. ASSUME NEW k \in Slot, Checks(k) PROVE UNCHANGED spent
  BY <1>2 DEF Checks, CheckFree, CheckPassword, CheckToken, Revoke, Proceed
<1>3. ASSUME NEW k \in Slot, Drops(k) PROVE UNCHANGED spent
  BY <1>3 DEF Drops, NobodyToMail, Fails, Die
<1>4. Seed => UNCHANGED spent
  BY DEF Seed, SeedReads, SeedCreates, SeedReconciles
<1>5. Waits => UNCHANGED spent
  BY WaitsLeave
<1>6. ASSUME NEW k \in Slot, Reads(k) PROVE UNCHANGED spent
  BY <1>6, Reading
<1>7. QED BY <1>1, <1>2, <1>3, <1>4, <1>5, <1>6, StepKinds

\* The token a handler that mints one was given, and the one it mints.
LEMMA Minting ==
  ASSUME Base, NEW k \in Slot, Login(k) \/ Rotate(k)
  PROVE  \E t \in 0..MaxToken :
           /\ t = 0 \/ (Rotate(k) /\ t = req(k).token)
           /\ Len(parent) + 1 \in Number
           /\ parent' = Append(parent, t)
           /\ allow' = allow \cup {Len(parent) + 1}
<1>1. Len(parent) \in Nat /\ MaxToken \in Nat
  BY AccountsAssumption DEF Base, TypeOK
<1>2. CASE Login(k)
  BY <1>1, <1>2 DEF Login, Mint, Number
<1>3. CASE Rotate(k)
  <2>1. ~IsIdle(k)
    BY <1>3 DEF Rotate, Awaits, At
  <2>2. req(k).token \in 0..MaxToken
    BY <1>1, <2>1, ReqType DEF Base, Number
  <2>3. QED BY <1>1, <1>3, <2>2 DEF Rotate, Mint, Number
<1>4. QED BY <1>2, <1>3

LEMMA SlotTypeStep ==
  ASSUME Base, [Next]_vars
  PROVE  /\ seen' \in [Slot -> Account \cup {Absent}]
         /\ who' \in [Slot -> User \cup {0}]
         /\ step' \in [Slot -> {"start", "checked", "loaded", "revoked"}]
<1>1. ASSUME NEW k \in Slot, Checks(k)
      PROVE  UNCHANGED <<seen, who>> /\ \E s \in {"checked", "revoked"} : Goes(k, s)
  BY <1>1 DEF Checks, CheckFree, CheckPassword, CheckToken, Revoke, Proceed
<1>2. ASSUME NEW k \in Slot, Reads(k)
      PROVE  \E u \in User, s \in {"checked", "loaded"} : Find(k, u, s)
  <2>1. ~IsIdle(k) /\ (LoadForReset(k) => who[k] \in User)
    BY <1>2 DEF Reads, FindMail, CheckReset, LoadForReset, LoadForUpdate,
       LoadForUpload, Awaits, At, Base, HandlersKnow, Holds, Past, Loads
  <2>2. QED BY <1>2, <2>1, ReqType DEF Reads, FindMail, CheckReset, LoadForReset,
       LoadForUpdate, LoadForUpload, UsersWith, Base
<1>3. ASSUME NEW k \in Slot, Writes(k) \/ Drops(k) PROVE Forget(k)
  BY <1>3 DEF Writes, Drops, Register, Login, Rotate, MailReset, SaveReset, SaveUpdate,
         SavePhoto, NobodyToMail, Fails, Die, Mint, Return, Throw
<1>4. Waits \/ Seed => UNCHANGED local
  BY WaitsLeave DEF Seed, SeedReads, SeedCreates, SeedReconciles
<1>5. CASE \E k \in Slot : Checks(k)
  BY <1>1, <1>5 DEF Goes, Base, TypeOK
<1>6. CASE \E k \in Slot : Reads(k)
  <2>1. PICK k \in Slot, u \in User, s \in {"checked", "loaded"} : Find(k, u, s)
    BY <1>2, <1>6
  <2>2. users[u] \in Account \cup {Absent}
    BY DEF Base, TypeOK
  <2>3. /\ seen' = [seen EXCEPT ![k] = users[u]]
        /\ who' = [who EXCEPT ![k] = u]
        /\ step' = [step EXCEPT ![k] = s]
    BY <2>1 DEF Find, Goes
  <2>4. QED BY <2>2, <2>3 DEF Base, TypeOK
<1>7. CASE \E k \in Slot : Writes(k) \/ Drops(k)
  BY <1>3, <1>7 DEF Forget, Base, TypeOK
<1>8. CASE UNCHANGED local
  BY <1>8 DEF Base, TypeOK
<1>9. QED BY <1>4, <1>5, <1>6, <1>7, <1>8, StepKinds

LEMMA SeedTypeStep ==
  ASSUME Base, [Next]_vars
  PROVE  seed' \in [at : {"due", "create", "reconcile", "done"}, user : User \cup {0}]
<1>1. ASSUME NEW s \in {"due", "create", "reconcile", "done"}, NEW u \in User \cup {0},
             SeedGoes(s, u)
      PROVE  seed' \in [at : {"due", "create", "reconcile", "done"}, user : User \cup {0}]
  BY <1>1 DEF SeedGoes
<1>2. UNCHANGED seed \/ \E s \in {"due", "create", "reconcile", "done"},
                           u \in User \cup {0} : SeedGoes(s, u)
  <2>1. ASSUME NEW k \in Slot, Writes(k) PROVE UNCHANGED seed
    BY <2>1 DEF Writes, Register, Login, Rotate, MailReset, SaveReset, SaveUpdate,
       SavePhoto, Mint
  <2>2. ASSUME NEW k \in Slot, Drops(k) PROVE UNCHANGED seed \/ SeedGoes("due", 0)
    BY <2>2 DEF Drops, NobodyToMail, Fails, Die
  <2>3. Waits => UNCHANGED seed
    BY WaitsLeave
  <2>4. SeedReads => \E s \in {"create", "reconcile", "done"}, u \in User \cup {0} :
                       SeedGoes(s, u)
    BY DEF SeedReads, UsersWith
  <2>5. SeedCreates \/ SeedReconciles => SeedGoes("done", 0)
    BY DEF SeedCreates, SeedReconciles
  <2>6. QED BY <2>1, <2>2, <2>3, <2>4, <2>5, StepKinds, Checking, Reading DEF Seed
<1>3. CASE UNCHANGED seed
  BY <1>3 DEF Base, TypeOK
<1>4. QED BY <1>1, <1>2, <1>3

LEMMA AppendFacts ==
  ASSUME NEW S, NEW s \in Seq(S), NEW e \in S
  PROVE  /\ Append(s, e) \in Seq(S) /\ Len(Append(s, e)) = Len(s) + 1
         /\ Len(s) \in Nat
         /\ Append(s, e)[Len(s) + 1] = e
         /\ \A i \in 1..Len(s) : Append(s, e)[i] = s[i]
  OBVIOUS

LEMMA BaseStep ==
  ASSUME Base, [Next]_vars
  PROVE  Base'
<1>1. RmqTypeOK'
  BY StepOfConsumer, RmqTypeStep DEF Base, TypeOK
<1>2. events' \in Seq(Event)
  <2>1. events \in Seq(Event)
    BY DEF Base, TypeOK
  <2>2. QED BY <2>1, EventsStep, AppendFacts
<1>3. allow' \in SUBSET Number /\ parent' \in Seq(0..MaxToken)
  <2>1. CASE UNCHANGED <<allow, parent>>
    BY <2>1 DEF Base, TypeOK
  <2>2. ASSUME NEW k \in Slot, CheckToken(k) PROVE UNCHANGED <<allow, parent>>
    BY <2>2 DEF CheckToken, Proceed
  <2>3. ASSUME NEW k \in Slot, Revoke(k)
        PROVE  allow' \in SUBSET Number /\ UNCHANGED parent
    BY <2>3 DEF Revoke, Base, TypeOK
  <2>4. ASSUME NEW k \in Slot, Login(k) \/ Rotate(k)
        PROVE  allow' \in SUBSET Number /\ parent' \in Seq(0..MaxToken)
    <3>1. parent \in Seq(0..MaxToken) /\ allow \in SUBSET Number
      BY DEF Base, TypeOK
    <3>2. PICK t \in 0..MaxToken : /\ Len(parent) + 1 \in Number
                                   /\ parent' = Append(parent, t)
                                   /\ allow' = allow \cup {Len(parent) + 1}
      BY <2>4, Minting
    <3>3. QED BY <3>1, <3>2, AppendFacts
  <2>5. QED BY <2>1, <2>2, <2>3, <2>4, TokensStep DEF Base, TypeOK
<1>4. spent' \in [Number -> Nat]
  <2>1. ASSUME NEW k \in Slot, SaveReset(k) PROVE spent' \in [Number -> Nat]
    <3>1. req(k).token \in Number
      BY <2>1, ReqType DEF SaveReset, Awaits, At, Base
    <3>2. QED BY <2>1, <3>1 DEF SaveReset, Base, TypeOK
  <2>2. QED BY <2>1, SpentStep DEF Base, TypeOK
<1>5. TypeOK'
  BY <1>1, <1>2, <1>3, <1>4, UsersStep, SlotTypeStep, SeedTypeStep DEF TypeOK
<1>6. QED BY <1>5, KnowStep DEF Base

LEMMA BaseInit == Init => Base
  BY AccountsAssumption DEF Init, RmqInit, RmqTypeOK, Base, TypeOK, HandlersKnow, SeedKnows,
     Past, Holds, Count, Number

LEMMA BaseInvariant == Spec => []Base
  BY BaseInit, BaseStep, PTL DEF Spec

\* The accounts, their events, the tokens and what every handler remembers keep
\* their types, with any number of replicas and any faults.
THEOREM AccountsTypeCorrect == Spec => []TypeOK
  BY BaseInvariant, PTL DEF Base
-----------------------------------------------------------------------------
\* One delivery at a time: one replica with prefetch 1, whose connection outlives
\* its handlers.
OneReplica == Consumers <= 1 /\ ~Detach

OneAtATime == /\ \A k \in Slot : ~IsIdle(k) => run[k].live
              /\ \A j, k \in Slot : ~IsIdle(j) /\ ~IsIdle(k) => j = k

LEMMA OneStep ==
  ASSUME OneReplica, RmqTypeOK, OneAtATime, [Next]_vars
  PROVE  OneAtATime'
<1>1. ASSUME \A j \in Slot : ~IsIdle(j)' => ~IsIdle(j) /\ run'[j].live = run[j].live
      PROVE  OneAtATime'
  BY <1>1 DEF OneAtATime
<1>2. ASSUME NEW k \in Slot, ~IsIdle(k),
             \/ Free(k)
             \/ \E pc \in {"running", "succeeded", "failed", "rerouted", "rejected"} : Goto(k, pc)
      PROVE  OneAtATime'
  <2>1. /\ \A j \in Slot : j # k => run'[j] = run[j]
        /\ run'[k] = Idle \/ run'[k].live = run[k].live
    BY <1>2, BusyRun DEF RmqTypeOK, Free, Goto, Busy
  <2>2. QED BY <1>1, <1>2, <2>1 DEF IsIdle
<1>3. ASSUME NEW k \in Slot, NEW m \in Msg, NEW n \in Count, Deliver(k, m, n)
      PROVE  OneAtATime'
  <2>1. \A j \in Slot : IsIdle(j)
    <3>1. ASSUME NEW j \in Slot, ~IsIdle(j) PROVE FALSE
      <4>1. {i \in Slot : Live(i)} = {j}
        BY <3>1 DEF OneAtATime, Live
      <4>2. Cardinality({i \in Slot : Live(i)}) = 1
        BY <4>1, FS_Singleton
      <4>3. Cardinality({i \in Slot : Live(i)}) < Consumers
        BY <1>3 DEF Deliver
      <4>4. QED BY <4>2, <4>3, ConsumerAssumption DEF OneReplica
    <3>2. QED BY <3>1
  <2>2. /\ \A j \in Slot : j # k => run'[j] = Idle
        /\ run'[k].live
    BY <1>3, <2>1 DEF Deliver, RmqTypeOK, IsIdle
  <2>3. QED BY <2>2 DEF OneAtATime, IsIdle
<1>4. UNCHANGED run => OneAtATime'
  BY DEF OneAtATime, IsIdle
<1>5. CASE Waits
  <2>1. ASSUME NEW k \in Slot, Around(k) PROVE Settle(k)
    BY <2>1 DEF Around, OneReplica
  <2>2. ASSUME NEW k \in Slot, Settle(k) PROVE OneAtATime'
    <3>1. /\ ~IsIdle(k)
          /\ Free(k) \/ Goto(k, "rerouted")
      BY <2>2 DEF Settle, Ack, RouteToRetry, GiveUp, Park, Drop, StaleEnds, FailedEvent, At
    <3>2. QED BY <1>2, <3>1
  <2>3. CASE Deliveries
    BY <1>3, <1>4, <2>3 DEF Deliveries, Publish
  <2>4. UNCHANGED vars => UNCHANGED run
    BY DEF vars
  <2>5. QED BY <1>4, <1>5, <2>1, <2>2, <2>3, <2>4 DEF Waits
<1>6. ASSUME NEW k \in Slot, Handle(k) PROVE OneAtATime'
  <2>1. UNCHANGED run \/ HandlerReturns(k) \/ HandlerThrows(k)
    BY <1>6 DEF Handle, CheckFree, Register, CheckPassword, Login, CheckToken, Revoke,
       Rotate, NobodyToMail, FindMail, MailReset, CheckReset, LoadForReset, SaveReset,
       LoadForUpdate, SaveUpdate, LoadForUpload, SavePhoto, Fails, Proceed, Find, Mint,
       Return, Throw
  <2>2. QED BY <1>2, <1>4, <2>1 DEF HandlerReturns, HandlerThrows, At
<1>7. ASSUME NEW k \in Slot, Die(k) PROVE OneAtATime'
  BY <1>2, <1>7 DEF Die, Crash
<1>8. ASSUME NEW k \in Slot, Around(k) PROVE Waits
  BY <1>8 DEF Waits
<1>9. Seed => UNCHANGED run
  BY DEF Seed, SeedReads, SeedCreates, SeedReconciles
<1>10. CASE UNCHANGED vars
  BY <1>4, <1>10 DEF vars
<1>11. Deliveries /\ UNCHANGED accountVars => Waits
  BY DEF Waits
<1>12. QED
  BY <1>4, <1>5, <1>6, <1>7, <1>8, <1>9, <1>10, <1>11 DEF Next

\* So nobody is in a handler when one ends.
LEMMA NobodyLeft ==
  ASSUME Base, OneAtATime, NEW k \in Slot, Writes(k) \/ Drops(k)
  PROVE  \A j \in Slot : ~Past(j)'
<1>1. ~IsIdle(k)
  BY DEF Writes, Drops, Register, Login, Rotate, MailReset, SaveReset, SaveUpdate,
         SavePhoto, NobodyToMail, Fails, Die, Crash, Awaits, At
<1>2. \A j \in Slot : j # k => ~Past(j)
  BY <1>1 DEF OneAtATime, Base, HandlersKnow, At
<1>3. QED BY <1>2, Ending DEF Base, Ends, Keeps, Past
-----------------------------------------------------------------------------
\* Refresh tokens.  A token leaves the allowlist before its successor is minted
\* and never comes back: it is allowed, in exchange, or has its successor.

Rotated(t) == \E i \in 1..Len(parent) : parent[i] = t

TokensKnown ==
  /\ \A i \in 1..Len(parent) : parent[i] < i
  /\ allow \subseteq 1..Len(parent)
  /\ \A t \in allow : ~Rotated(t)

InExchange ==
  \A k \in Slot :
    /\ Awaits(k, "refresh", "checked") => req(k).token \in allow
    /\ Awaits(k, "refresh", "revoked") => /\ req(k).token \notin allow
                                          /\ ~Rotated(req(k).token)
                                          /\ req(k).token \in 1..Len(parent)

Tokens == TokensKnown /\ InExchange /\ RotatedOnce

LEMMA InExchangeStep ==
  ASSUME Base, OneAtATime, Tokens, [Next]_vars
  PROVE  InExchange'
<1>1. ASSUME NEW j \in Slot, Keeps(j), UNCHANGED <<allow, parent>>
      PROVE  /\ Awaits(j, "refresh", "checked")' => req(j)'.token \in allow'
             /\ Awaits(j, "refresh", "revoked")' => /\ req(j)'.token \notin allow'
                                                    /\ ~Rotated(req(j).token)'
                                                    /\ req(j)'.token \in 1..Len(parent')
  BY <1>1 DEF Keeps, Past, Awaits, Rotated, req, Tokens, InExchange, Base, HandlersKnow
<1>2. CASE \E k \in Slot : Writes(k) \/ Drops(k)
  BY <1>2, NobodyLeft DEF Past, Awaits, InExchange
<1>3. CASE Waits \/ Seed
  <2>1. UNCHANGED <<allow, parent>>
    BY <1>3, WaitsLeave DEF Seed, SeedReads, SeedCreates, SeedReconciles
  <2>2. QED BY <1>1, <1>3, <2>1, WaitsKeep DEF Base, InExchange
<1>4. ASSUME NEW k \in Slot, Reads(k) PROVE InExchange'
  <2>1. req(k).op # "refresh" /\ UNCHANGED <<run, allow, parent>>
    BY <1>4, Reading DEF Loads
  <2>2. ~Awaits(k, "refresh", "checked")' /\ ~Awaits(k, "refresh", "revoked")'
    BY <2>1 DEF Awaits, req
  <2>3. QED BY <1>1, <1>4, <2>1, <2>2, Reading DEF InExchange
<1>5. ASSUME NEW k \in Slot, CheckFree(k) \/ CheckPassword(k) PROVE InExchange'
  <2>1. req(k).op # "refresh" /\ UNCHANGED <<run, allow, parent>>
    BY <1>5 DEF CheckFree, CheckPassword, Awaits, Proceed
  <2>2. ~Awaits(k, "refresh", "checked")' /\ ~Awaits(k, "refresh", "revoked")'
    BY <2>1 DEF Awaits, req
  <2>3. QED BY <1>1, <1>5, <2>1, <2>2, Checking DEF Checks, InExchange
<1>6. ASSUME NEW k \in Slot, CheckToken(k) PROVE InExchange'
  <2>1. req(k).token \in allow /\ UNCHANGED <<run, allow, parent>> /\ step'[k] = "checked"
    BY <1>6 DEF CheckToken, Proceed, Goes, Base, TypeOK
  <2>2. QED BY <1>1, <1>6, <2>1, Checking DEF Checks, Awaits, req, InExchange
<1>7. ASSUME NEW k \in Slot, Revoke(k) PROVE InExchange'
  <2>1. /\ req(k).token \in allow /\ ~IsIdle(k) /\ UNCHANGED <<run, parent>>
        /\ allow' = allow \ {req(k).token} /\ step'[k] = "revoked"
    BY <1>7 DEF Revoke, Goes, Awaits, At, Base, TypeOK, Tokens, InExchange
  <2>2. ~Rotated(req(k).token)' /\ req(k).token \in 1..Len(parent')
    <3>1. ~Rotated(req(k).token) /\ req(k).token \in 1..Len(parent)
      BY <2>1 DEF Tokens, TokensKnown
    <3>2. req(k)' = req(k)
      BY <2>1 DEF req
    <3>3. QED BY <2>1, <3>1, <3>2 DEF Rotated
  <2>3. \A j \in Slot : j # k => ~Past(j)'
    BY <1>7, <2>1, Checking DEF Checks, Keeps, Past, OneAtATime, Base, HandlersKnow, At
  <2>4. QED BY <2>1, <2>2, <2>3 DEF Awaits, Past, req, InExchange
<1>8. QED BY <1>2, <1>3, <1>4, <1>5, <1>6, <1>7, StepKinds DEF Checks

LEMMA TokensKnownStep ==
  ASSUME Base, Tokens, [Next]_vars
  PROVE  TokensKnown' /\ RotatedOnce'
<1>0. parent \in Seq(0..MaxToken) /\ allow \in SUBSET Number
  BY DEF Base, TypeOK
<1>1. CASE UNCHANGED <<allow, parent>>
  BY <1>1 DEF Tokens, TokensKnown, RotatedOnce, Rotated
<1>2. ASSUME NEW k \in Slot, Revoke(k) PROVE TokensKnown' /\ RotatedOnce'
  BY <1>2 DEF Revoke, Tokens, TokensKnown, RotatedOnce, Rotated
<1>3. ASSUME NEW k \in Slot, Login(k) \/ Rotate(k) PROVE TokensKnown' /\ RotatedOnce'
  <2>1. PICK t \in 0..MaxToken :
          /\ t = 0 \/ (Rotate(k) /\ t = req(k).token)
          /\ parent' = Append(parent, t)
          /\ allow' = allow \cup {Len(parent) + 1}
    BY <1>3, Minting
  <2>2. t = 0 \/ (t \notin allow /\ ~Rotated(t) /\ t \in 1..Len(parent))
    BY <2>1 DEF Rotate, Tokens, InExchange
  <2>3. /\ Len(parent) \in Nat /\ Len(parent') = Len(parent) + 1
        /\ parent'[Len(parent) + 1] = t
        /\ \A i \in 1..Len(parent) : parent'[i] = parent[i]
    BY <1>0, <2>1, AppendFacts
  <2>4. \A i \in 1..Len(parent') : i \in 1..Len(parent) \/ i = Len(parent) + 1
    BY <2>3
  <2>5. \A i \in 1..Len(parent') : parent'[i] < i
    BY <2>2, <2>3, <2>4 DEF Tokens, TokensKnown
  <2>6. allow' \subseteq 1..Len(parent')
    <3>1. allow \subseteq 1..Len(parent)
      BY DEF Tokens, TokensKnown
    <3>2. 1..Len(parent) \subseteq 1..(Len(parent) + 1) /\ Len(parent) + 1 \in 1..(Len(parent) + 1)
      BY <2>3
    <3>3. QED BY <2>1, <2>3, <3>1, <3>2
  <2>7. \A a \in allow', i \in 1..Len(parent') : parent'[i] # a
    <3>1. ASSUME NEW a \in allow, NEW i \in 1..Len(parent') PROVE parent'[i] # a
      <4>1. a \in 1..Len(parent) /\ ~Rotated(a)
        BY DEF Tokens, TokensKnown
      <4>2. i \in 1..Len(parent) => parent'[i] # a
        BY <2>3, <4>1 DEF Rotated
      <4>3. i = Len(parent) + 1 => parent'[i] # a
        BY <2>2, <2>3, <4>1
      <4>4. QED BY <2>4, <4>2, <4>3
    <3>2. ASSUME NEW i \in 1..Len(parent') PROVE parent'[i] # Len(parent) + 1
      BY <2>2, <2>3, <2>4 DEF Tokens, TokensKnown
    <3>3. QED BY <2>1, <3>1, <3>2
  <2>8. RotatedOnce'
    <3>1. ASSUME NEW i \in 1..Len(parent'), NEW j \in 1..Len(parent'),
                 parent'[i] = parent'[j], i # j
          PROVE  parent'[i] = 0
      <4>1. CASE i \in 1..Len(parent) /\ j \in 1..Len(parent)
        BY <2>3, <3>1, <4>1 DEF Tokens, RotatedOnce
      <4>2. CASE i = Len(parent) + 1 /\ j \in 1..Len(parent)
        BY <2>2, <2>3, <3>1, <4>2 DEF Rotated
      <4>3. CASE j = Len(parent) + 1 /\ i \in 1..Len(parent)
        BY <2>2, <2>3, <3>1, <4>3 DEF Rotated
      <4>4. QED BY <2>4, <3>1, <4>1, <4>2, <4>3
    <3>2. QED BY <3>1 DEF RotatedOnce
  <2>9. QED BY <2>5, <2>6, <2>7, <2>8 DEF TokensKnown, Rotated
<1>4. ASSUME NEW k \in Slot, CheckToken(k) PROVE UNCHANGED <<allow, parent>>
  BY <1>4 DEF CheckToken, Proceed
<1>5. QED BY <1>1, <1>2, <1>3, <1>4, TokensStep

Serial == Base /\ OneAtATime

LEMMA SerialInvariant == OneReplica => (Spec => []Serial)
<1> SUFFICES ASSUME OneReplica PROVE Spec => []Serial
  OBVIOUS
<1>1. Init => Serial
  BY BaseInit DEF Init, RmqInit, Serial, OneAtATime, IsIdle
<1>2. Serial /\ [Next]_vars => Serial'
  BY BaseStep, OneStep DEF Serial, Base, TypeOK
<1>3. QED BY <1>1, <1>2, PTL DEF Spec

\* With one replica, at most one token is ever minted in exchange for a refresh
\* token, however often it is presented, delivered again or retried.
THEOREM TokensAreRotatedOnce == OneReplica => (Spec => []RotatedOnce)
<1> SUFFICES ASSUME OneReplica PROVE Spec => []RotatedOnce
  OBVIOUS
<1>1. Init => Tokens
  BY DEF Init, Tokens, TokensKnown, InExchange, RotatedOnce, Rotated, Awaits
<1>2. Serial /\ Tokens /\ [Next]_vars => Tokens'
  BY InExchangeStep, TokensKnownStep DEF Tokens, Serial
<1>3. Tokens => RotatedOnce
  BY DEF Tokens
<1>4. QED BY <1>1, <1>2, <1>3, SerialInvariant, PTL DEF Spec
-----------------------------------------------------------------------------
\* Several replicas, or connections that handlers outlive.  A token may then be
\* checked by several handlers before one of them revokes it, but by none later:
\* it is rotated at most once for each handler that can overlap with the others.

Children(p) == {i \in 1..Len(parent) : parent[i] = p}
RotatedPerOverlap == \A p \in Number : Cardinality(Children(p)) <= Cardinality(Slot)

\* The handlers that have checked token p and will mint its successor.
Rotators(p) == {k \in Slot : Past(k) /\ req(k).op = "refresh" /\ req(k).token = p}

\* What is inductive: an unused token has no successor and nobody has revoked it,
\* a used one has room for those who still hold it.
Unused(p) == Children(p) = {} /\ \A k \in Rotators(p) : step[k] = "checked"
TokenRoom(p) ==
  /\ p > Len(parent) => Children(p) = {} /\ Rotators(p) = {}
  /\ p \in allow => Unused(p)
  /\ Cardinality(Children(p)) + Cardinality(Rotators(p)) <= Cardinality(Slot)

Overlaps == allow \subseteq 1..Len(parent) /\ \A p \in Number : TokenRoom(p)

LEMMA RotatorsFinite ==
  ASSUME Base, IsFiniteSet(Slot), NEW p
  PROVE  /\ IsFiniteSet(Rotators(p)) /\ Cardinality(Rotators(p)) \in Nat
         /\ Cardinality(Rotators(p)) <= Cardinality(Slot)
         /\ IsFiniteSet(Children(p)) /\ Cardinality(Children(p)) \in Nat
<1>1. Rotators(p) \subseteq Slot
  BY DEF Rotators
<1>2. Len(parent) \in Nat
  BY DEF Base, TypeOK
<1>3. IsFiniteSet(1..Len(parent))
  BY <1>2, FS_Interval
<1>4. Children(p) \subseteq 1..Len(parent)
  BY DEF Children
<1>5. QED BY <1>1, <1>3, <1>4, FS_Subset, FS_CardinalityType

\* Only a check of the token adds a handler to its rotators.
LEMMA NotJoined ==
  ASSUME NEW p, NEW j \in Slot, Keeps(j) \/ Ends(j) \/ req(j)'.op # "refresh",
         j \in Rotators(p)'
  PROVE  j \in Rotators(p) /\ step'[j] = step[j]
  BY DEF Keeps, Ends, Rotators, Past, req

LEMMA RoomKept ==
  ASSUME Base, IsFiniteSet(Slot), NEW p, TokenRoom(p), UNCHANGED parent,
         Rotators(p)' \subseteq Rotators(p),
         p \in allow' => p \in allow /\ \A j \in Rotators(p)' : step'[j] = step[j]
  PROVE  TokenRoom(p)'
<1>1. Children(p)' = Children(p)
  BY DEF Children
<1>2. Cardinality(Rotators(p)') <= Cardinality(Rotators(p)) /\ Cardinality(Rotators(p)') \in Nat
  BY RotatorsFinite, FS_Subset, FS_CardinalityType
<1>3. Cardinality(Children(p)) + Cardinality(Rotators(p)') <= Cardinality(Slot)
  <2>1. Cardinality(Slot) \in Nat /\ Cardinality(Children(p)) \in Nat
        /\ Cardinality(Rotators(p)) \in Nat
    BY RotatorsFinite, FS_CardinalityType
  <2>2. Cardinality(Children(p)) + Cardinality(Rotators(p)) <= Cardinality(Slot)
    BY DEF TokenRoom
  <2>3. QED BY <1>2, <2>1, <2>2
<1>4. p > Len(parent) => Children(p) = {} /\ Rotators(p)' = {}
  BY DEF TokenRoom
<1>5. p \in allow' => Unused(p)'
  BY <1>1 DEF TokenRoom, Unused
<1>6. QED BY <1>1, <1>3, <1>4, <1>5 DEF TokenRoom

\* A check and a revocation, by handler k.
LEMMA RoomChecked ==
  ASSUME Base, IsFiniteSet(Slot), Overlaps, NEW p \in Number, NEW k \in Slot,
         CheckToken(k)
  PROVE  TokenRoom(p)'
<1>1. /\ req(k).token \in allow /\ step'[k] = "checked" /\ UNCHANGED <<run, parent, allow>>
      /\ \A j \in Slot : j # k => Keeps(j)
  BY Checking DEF Checks, CheckToken, Proceed, Goes, Base, TypeOK
<1>2. TokenRoom(p)
  BY DEF Overlaps
<1>3. CASE p = req(k).token
  <2>1. Unused(p) /\ ~(p > Len(parent))
    <3>1. p \in 1..Len(parent) /\ Len(parent) \in Nat
      BY <1>1, <1>3 DEF Overlaps, Base, TypeOK
    <3>2. QED BY <1>1, <1>2, <1>3, <3>1 DEF TokenRoom
  <2>2. Children(p)' = {}
    BY <1>1, <2>1 DEF Children, Unused
  <2>3. \A j \in Rotators(p)' : step'[j] = "checked"
    BY <1>1, <2>1, NotJoined DEF Unused, Rotators
  <2>4. Cardinality(Children(p)') = 0
    BY <2>2, FS_EmptySet
  <2>5. Cardinality(Rotators(p)') <= Cardinality(Slot) /\ Cardinality(Rotators(p)') \in Nat
    <3>1. Rotators(p)' \subseteq Slot
      BY DEF Rotators
    <3>2. QED BY <3>1, FS_Subset, FS_CardinalityType
  <2>6. QED BY <1>1, <2>1, <2>2, <2>3, <2>4, <2>5 DEF TokenRoom, Unused
<1>4. CASE p # req(k).token
  <2>1. k \notin Rotators(p)'
    BY <1>1, <1>4 DEF Rotators, req
  <2>2. \A j \in Rotators(p)' : j \in Rotators(p) /\ step'[j] = step[j]
    BY <1>1, <2>1, NotJoined DEF Rotators
  <2>3. QED BY <1>1, <1>2, <2>2, RoomKept
<1>5. QED BY <1>3, <1>4

LEMMA RoomRevoked ==
  ASSUME Base, IsFiniteSet(Slot), Overlaps, NEW p \in Number, NEW k \in Slot, Revoke(k)
  PROVE  TokenRoom(p)'
<1>1. /\ allow' = allow \ {req(k).token} /\ UNCHANGED <<run, parent>>
      /\ Past(k) /\ req(k).op = "refresh"
      /\ \A j \in Slot : j # k => Keeps(j)
  BY Checking DEF Checks, Revoke, Awaits, Past
<1>2. \A j \in Rotators(p)' : j # k => j \in Rotators(p) /\ step'[j] = step[j]
  BY <1>1, NotJoined DEF Rotators
<1>3. k \in Rotators(p)' => k \in Rotators(p) /\ p = req(k).token
  BY <1>1 DEF Rotators, req
<1>4. QED BY <1>1, <1>2, <1>3, RoomKept DEF Overlaps

\* A handler that mints leaves the rotators of the token it was given.
LEMMA RoomMinted ==
  ASSUME Base, IsFiniteSet(Slot), Overlaps, NEW p \in Number, NEW k \in Slot,
         Login(k) \/ Rotate(k)
  PROVE  TokenRoom(p)' /\ allow' \subseteq 1..Len(parent')
<1>0. parent \in Seq(0..MaxToken) /\ allow \subseteq 1..Len(parent) /\ TokenRoom(p)
  BY DEF Base, TypeOK, Overlaps
<1>1. PICK t \in 0..MaxToken :
        /\ t = 0 \/ (Rotate(k) /\ t = req(k).token)
        /\ parent' = Append(parent, t)
        /\ allow' = allow \cup {Len(parent) + 1}
  BY Minting
<1>2. PICK n \in Nat : n = Len(parent)
  BY <1>0
<1>3. /\ Len(parent') = n + 1 /\ parent'[n + 1] = t
      /\ \A i \in 1..n : parent'[i] = parent[i]
  BY <1>0, <1>1, <1>2, AppendFacts
<1>4. allow' \subseteq 1..Len(parent')
  <2>1. 1..n \subseteq 1..(n + 1) /\ n + 1 \in 1..(n + 1)
    BY <1>2
  <2>2. allow' = allow \cup {n + 1} /\ allow \subseteq 1..n
    BY <1>0, <1>1, <1>2
  <2>3. QED BY <1>3, <2>1, <2>2
<1>5. Rotators(p)' \subseteq Rotators(p) \ {k}
      /\ \A j \in Rotators(p)' : step'[j] = step[j]
  <2>1. Ends(k) /\ \A j \in Slot : j # k => Keeps(j)
    BY Ending DEF Writes, Base
  <2>2. \A j \in Rotators(p)' : j \in Slot /\ j # k
    BY <2>1 DEF Rotators, Ends, Past
  <2>3. QED BY <2>1, <2>2, NotJoined
<1>6. \A i : i \in Children(p)' <=> i \in Children(p) \/ (t = p /\ i = n + 1)
  <2>1. 1..(n + 1) = (1..n) \cup {n + 1} /\ n + 1 \notin 1..n
    BY <1>2
  <2>2. QED BY <1>2, <1>3, <2>1 DEF Children
<1>7. CASE t = p
  <2>1. k \in Rotators(p) /\ step[k] = "revoked"
    <3>1. Rotate(k) /\ p = req(k).token
      BY <1>1, <1>7, AccountsAssumption DEF Number
    <3>2. QED BY <3>1 DEF Rotate, Awaits, Past, Rotators
  <2>2. p \notin allow /\ ~(p > n)
    BY <1>0, <1>2, <2>1 DEF TokenRoom, Unused
  <2>3. p \notin allow' /\ ~(p > n + 1)
    BY <1>1, <1>2, <2>2 DEF Number
  <2>4. Children(p)' = Children(p) \cup {n + 1} /\ n + 1 \notin Children(p)
    BY <1>2, <1>6, <1>7 DEF Children
  <2>5. Cardinality(Children(p)') = Cardinality(Children(p)) + 1
    BY <2>4, RotatorsFinite, FS_AddElement
  <2>6. Cardinality(Rotators(p)') + 1 <= Cardinality(Rotators(p))
        /\ Cardinality(Rotators(p)') \in Nat
    <3>1. IsFiniteSet(Rotators(p) \ {k})
          /\ Cardinality(Rotators(p) \ {k}) = Cardinality(Rotators(p)) - 1
      BY <2>1, RotatorsFinite, FS_RemoveElement
    <3>2. /\ Cardinality(Rotators(p)') <= Cardinality(Rotators(p) \ {k})
          /\ Cardinality(Rotators(p)') \in Nat
      BY <1>5, <3>1, FS_Subset, FS_CardinalityType
    <3>3. QED BY <3>1, <3>2, RotatorsFinite
  <2>7. Cardinality(Children(p)') + Cardinality(Rotators(p)') <= Cardinality(Slot)
    <3>1. Cardinality(Slot) \in Nat /\ Cardinality(Children(p)) \in Nat
          /\ Cardinality(Rotators(p)) \in Nat
      BY RotatorsFinite, FS_CardinalityType
    <3>2. Cardinality(Children(p)) + Cardinality(Rotators(p)) <= Cardinality(Slot)
      BY <1>0 DEF TokenRoom
    <3>3. QED BY <2>5, <2>6, <3>1, <3>2
  <2>8. QED BY <1>3, <1>4, <2>3, <2>7 DEF TokenRoom
<1>8. CASE t # p
  <2>1. Children(p)' = Children(p)
    BY <1>6, <1>8
  <2>2. Cardinality(Rotators(p)') <= Cardinality(Rotators(p)) /\ Cardinality(Rotators(p)') \in Nat
    BY <1>5, RotatorsFinite, FS_Subset, FS_CardinalityType
  <2>3. Cardinality(Children(p)) + Cardinality(Rotators(p)') <= Cardinality(Slot)
    <3>1. Cardinality(Slot) \in Nat /\ Cardinality(Children(p)) \in Nat
          /\ Cardinality(Rotators(p)) \in Nat
      BY RotatorsFinite, FS_CardinalityType
    <3>2. Cardinality(Children(p)) + Cardinality(Rotators(p)) <= Cardinality(Slot)
      BY <1>0 DEF TokenRoom
    <3>3. QED BY <2>2, <3>1, <3>2
  <2>4. p > n => Children(p) = {} /\ Rotators(p)' = {}
    BY <1>0, <1>2, <1>5 DEF TokenRoom
  <2>5. p \in allow' => Children(p) = {} /\ \A j \in Rotators(p)' : step'[j] = "checked"
    <3>1. p \in allow' => p \in allow \/ p > n
      BY <1>1, <1>2
    <3>2. p \in allow => Unused(p)
      BY <1>0 DEF TokenRoom
    <3>3. QED BY <1>5, <2>4, <3>1, <3>2 DEF Unused
  <2>6. p > n + 1 => p > n
    BY DEF Number
  <2>7. QED BY <1>3, <1>4, <2>1, <2>3, <2>4, <2>5, <2>6 DEF TokenRoom, Unused
<1>9. QED BY <1>7, <1>8

LEMMA OverlapsStep ==
  ASSUME Base, IsFiniteSet(Slot), Overlaps, [Next]_vars
  PROVE  Overlaps'
<1>1. ASSUME UNCHANGED <<allow, parent>>,
             \A j \in Slot : Keeps(j) \/ Ends(j) \/ req(j)'.op # "refresh"
      PROVE  Overlaps'
  <2>1. \A p \in Number : Rotators(p)' \subseteq Rotators(p)
          /\ \A j \in Rotators(p)' : step'[j] = step[j]
    <3>1. \A p \in Number : \A j \in Rotators(p)' : j \in Slot
      BY DEF Rotators
    <3>2. QED BY <1>1, <3>1, NotJoined
  <2>2. \A p \in Number : TokenRoom(p)'
    BY <1>1, <2>1, RoomKept DEF Overlaps
  <2>3. QED BY <1>1, <2>2 DEF Overlaps
<1>2. CASE Waits \/ Seed
  <2>1. UNCHANGED <<allow, parent>>
    BY <1>2, WaitsLeave DEF Seed, SeedReads, SeedCreates, SeedReconciles
  <2>2. QED BY <1>1, <1>2, <2>1, WaitsKeep DEF Base
<1>3. ASSUME NEW k \in Slot, Reads(k) PROVE Overlaps'
  <2>1. req(k)'.op # "refresh" /\ UNCHANGED <<allow, parent>>
    BY <1>3, Reading DEF Loads, req
  <2>2. QED BY <1>1, <1>3, <2>1, Reading
<1>4. ASSUME NEW k \in Slot, CheckFree(k) \/ CheckPassword(k) PROVE Overlaps'
  <2>1. req(k)'.op # "refresh" /\ UNCHANGED <<allow, parent>>
    BY <1>4 DEF CheckFree, CheckPassword, Awaits, Proceed, req
  <2>2. QED BY <1>1, <1>4, <2>1, Checking DEF Checks
<1>5. ASSUME NEW k \in Slot, CheckToken(k) PROVE Overlaps'
  <2>1. UNCHANGED <<allow, parent>>
    BY <1>5 DEF CheckToken, Proceed
  <2>2. QED BY <1>5, <2>1, RoomChecked DEF Overlaps
<1>6. ASSUME NEW k \in Slot, Revoke(k) PROVE Overlaps'
  <2>1. allow' \subseteq allow /\ UNCHANGED parent
    BY <1>6 DEF Revoke
  <2>2. QED BY <1>6, <2>1, RoomRevoked DEF Overlaps
<1>7. ASSUME NEW k \in Slot, Login(k) \/ Rotate(k) PROVE Overlaps'
  <2>1. \A p \in Number : TokenRoom(p)' /\ allow' \subseteq 1..Len(parent')
    BY <1>7, RoomMinted
  <2>2. 1 \in Number
    BY AccountsAssumption DEF Number
  <2>3. QED BY <2>1, <2>2 DEF Overlaps
<1>8. ASSUME NEW k \in Slot, Writes(k) \/ Drops(k), ~(Login(k) \/ Rotate(k))
      PROVE  Overlaps'
  <2>1. UNCHANGED <<allow, parent>>
    BY <1>8 DEF Writes, Drops, Register, MailReset, SaveReset, SaveUpdate, SavePhoto,
       NobodyToMail, Fails, Die
  <2>2. QED BY <1>1, <1>8, <2>1, Ending DEF Base
<1>9. QED BY <1>2, <1>3, <1>4, <1>5, <1>6, <1>7, <1>8, StepKinds DEF Checks

LEMMA OverlapsInit == ASSUME IsFiniteSet(Slot), Init PROVE Overlaps
<1>1. parent = <<>> /\ allow = {} /\ \A k \in Slot : step[k] = "start"
  BY DEF Init
<1>2. ASSUME NEW p \in Number PROVE TokenRoom(p)
  <2>1. Children(p) = {} /\ Rotators(p) = {}
    BY <1>1 DEF Children, Rotators, Past
  <2>2. QED BY <1>1, <2>1, FS_EmptySet, FS_CardinalityType DEF TokenRoom, Unused
<1>3. QED BY <1>1, <1>2 DEF Overlaps

\* With any number of replicas and any faults, a refresh token is exchanged at
\* most once for each handler that can be at work at the same time: what was
\* checked before the revocation may still mint, nothing that checks later can.
THEOREM TokensAreRotatedPerOverlap ==
  ASSUME IsFiniteSet(Slot) PROVE Spec => []RotatedPerOverlap
<1>1. Init => Base /\ Overlaps
  BY BaseInit, OverlapsInit
<1>2. Base /\ Overlaps /\ [Next]_vars => Base' /\ Overlaps'
  BY BaseStep, OverlapsStep
<1>3. Base /\ Overlaps => RotatedPerOverlap
  <2>1. SUFFICES ASSUME Base, Overlaps, NEW p \in Number
                 PROVE  Cardinality(Children(p)) <= Cardinality(Slot)
    BY DEF RotatedPerOverlap
  <2>2. Cardinality(Children(p)) \in Nat /\ Cardinality(Rotators(p)) \in Nat
    BY <2>1, RotatorsFinite
  <2>3. Cardinality(Slot) \in Nat
    BY FS_CardinalityType
  <2>4. Cardinality(Children(p)) + Cardinality(Rotators(p)) <= Cardinality(Slot)
    BY <2>1 DEF Overlaps, TokenRoom
  <2>5. QED BY <2>2, <2>3, <2>4
<1>4. QED BY <1>1, <1>2, <1>3, PTL DEF Spec
-----------------------------------------------------------------------------
\* The users table and the outbox, while one delivery is handled at a time.  Only
\* the seed comes between the reads and the writes of a handler, and it leaves
\* the profile and the mailed token of every row alone.

MailCount == Cardinality(Mails)
Stored(u) == IF Registered(u) THEN users[u].reset ELSE 0

NumberedInOrder == \E n \in Nat : {u \in User : Registered(u)} = 1..n

EventsAreOfUsers == \A i \in 1..Len(events) : Registered(events[i].user)

HeldIsCurrent ==
  \A k \in Slot : Holds(k) =>
    /\ seen[k].reset = users[who[k]].reset
    /\ seen[k].profile = users[who[k]].profile
    /\ req(k).op = "reset" => seen[k].reset = req(k).token

ResetsAreFresh ==
  /\ \A u \in User : /\ Stored(u) <= MailCount
                     /\ Stored(u) # 0 => spent[Stored(u)] = 0
                     /\ \A v \in User : Stored(u) = Stored(v) /\ Stored(u) # 0 => u = v
  /\ \A n \in Number : spent[n] > 0 => n <= MailCount

\* The last event about u, if there is one, gives the profile p, and the email e
\* if that is not the administrator's.
Says(u, e, p) ==
  \A i \in Announcements(u) :
    (\A j \in Announcements(u) : j <= i) =>
      /\ events[i].profile = p
      /\ e \in {events[i].email} \cup Admins

Announced ==
  /\ \A u \in User : Registered(u) => Says(u, users[u].email, users[u].profile)
  /\ \A k \in Slot : Holds(k) => Says(who[k], seen[k].email, seen[k].profile)

Current == /\ NumberedInOrder /\ EventsAreOfUsers /\ HeldIsCurrent
           /\ ResetsAreFresh /\ Announced

LEMMA MailsFinite ==
  ASSUME TypeOK
  PROVE  IsFiniteSet(Mails) /\ MailCount \in Nat /\ Mails \subseteq 1..Len(events)
<1>1. Len(events) \in Nat /\ Mails \subseteq 1..Len(events)
  BY DEF TypeOK, Mails
<1>2. IsFiniteSet(Mails)
  <2>1. IsFiniteSet(1..Len(events))
    BY <1>1, FS_Interval
  <2>2. QED BY <1>1, <2>1, FS_Subset
<1>3. QED BY <1>1, <1>2, FS_CardinalityType DEF MailCount

LEMMA EventFacts ==
  ASSUME TypeOK, NEW i \in 1..Len(events)
  PROVE  /\ events[i] \in Event /\ events[i].user \in User
         /\ events[i].kind = "reset" => events[i].token \in Number
<1>1. events[i] \in Event
  BY DEF TypeOK
<1>2. QED BY <1>1 DEF Event

\* The outbox grows by one event.
LEMMA AppendedEvent ==
  ASSUME TypeOK, NEW e \in Event, events' = Append(events, e)
  PROVE  /\ Len(events) \in Nat /\ Len(events') = Len(events) + 1
         /\ events'[Len(events) + 1] = e
         /\ \A i \in 1..Len(events) : events'[i] = events[i]
         /\ \A i : i \in 1..Len(events') <=> i \in 1..Len(events) \/ i = Len(events) + 1
         /\ Mails' = Mails \cup (IF e.kind = "reset" THEN {Len(events) + 1} ELSE {})
         /\ MailCount' = MailCount + (IF e.kind = "reset" THEN 1 ELSE 0)
<1>1. /\ Len(events) \in Nat /\ Len(events') = Len(events) + 1
      /\ events'[Len(events) + 1] = e
      /\ \A i \in 1..Len(events) : events'[i] = events[i]
  BY AppendFacts DEF TypeOK
<1>2. \A i : i \in 1..Len(events') <=> i \in 1..Len(events) \/ i = Len(events) + 1
  BY <1>1
<1>3. Mails' = Mails \cup (IF e.kind = "reset" THEN {Len(events) + 1} ELSE {})
  BY <1>1, <1>2 DEF Mails
<1>4. Len(events) + 1 \notin Mails
  BY <1>1, MailsFinite
<1>5. MailCount' = Cardinality(Mails')
  BY DEF MailCount
<1>6. Cardinality(Mails \cup {Len(events) + 1}) = MailCount + 1
  BY <1>4, MailsFinite, FS_AddElement DEF MailCount
<1>7. e.kind # "reset" => MailCount' = MailCount
  BY <1>3, <1>5 DEF MailCount
<1>8. e.kind = "reset" => MailCount' = MailCount + 1
  BY <1>3, <1>5, <1>6
<1>9. QED BY <1>1, <1>2, <1>3, <1>7, <1>8, MailsFinite

\* Ids are given in order, so an insert is of a new user.
LEMMA Inserting ==
  ASSUME TypeOK, NumberedInOrder, NextId \in User
  PROVE  /\ ~Registered(NextId)
         /\ {u \in User : Registered(u)} \cup {NextId} = 1..NextId
<1>1. PICK n \in Nat : {u \in User : Registered(u)} = 1..n
  BY DEF NumberedInOrder
<1>2. Cardinality(1..n) = n
  BY FS_Interval
<1>3. NextId = n + 1
  BY <1>1, <1>2 DEF NextId
<1>4. NextId \notin {u \in User : Registered(u)}
  BY <1>1, <1>3
<1>5. 1..n \cup {n + 1} = 1..(n + 1)
  OBVIOUS
<1>6. QED BY <1>1, <1>3, <1>4, <1>5

\* What a step does to the table, the outbox and the record of used tokens.
Row(u, a) == users' = [users EXCEPT ![u] = a]
Quiet == UNCHANGED <<users, events, spent>>
Inserts(a) == /\ NextId \in User /\ Row(NextId, a) /\ a.reset = 0 /\ UNCHANGED spent
              /\ \/ UNCHANGED events
                 \/ \E e \in Event : /\ events' = Append(events, e)
                                     /\ e.kind = "created" /\ e.user = NextId
                                     /\ e.email = a.email /\ e.profile = a.profile
Restores(u, a) == /\ Registered(u) /\ Row(u, a) /\ UNCHANGED <<events, spent>>
                  /\ a.reset = users[u].reset /\ a.profile = users[u].profile
                  /\ a.email \in Admins
Mailing(k, a) == /\ Row(who[k], a) /\ a.reset = MailCount + 1 /\ UNCHANGED spent
                 /\ a.profile = users[who[k]].profile /\ a.email = users[who[k]].email
                 /\ \E e \in Event : /\ events' = Append(events, e)
                                     /\ e.kind = "reset" /\ e.user = who[k]
                                     /\ e.token = MailCount + 1
Resetting(k, a) == /\ Row(who[k], a) /\ a.reset = 0 /\ UNCHANGED events
                   /\ a.profile = seen[k].profile /\ a.email = seen[k].email
                   /\ req(k).op = "reset" /\ req(k).token \in Number
                   /\ spent' = [spent EXCEPT ![req(k).token] = @ + 1]
Updating(k, a) == /\ Row(who[k], a) /\ a.reset = seen[k].reset /\ UNCHANGED spent
                  /\ \E e \in Event : /\ events' = Append(events, e)
                                      /\ e.kind = "updated" /\ e.user = who[k]
                                      /\ e.email = a.email /\ e.profile = a.profile
Saving(k, a) == /\ Row(who[k], a) /\ a.reset = seen[k].reset /\ UNCHANGED <<events, spent>>
                /\ a.profile = seen[k].profile /\ a.email = seen[k].email
Alters(k, a) == /\ Holds(k)
                /\ Mailing(k, a) \/ Resetting(k, a) \/ Updating(k, a) \/ Saving(k, a)

LEMMA AltersKinds ==
  ASSUME Base, NEW k \in Slot, MailReset(k) \/ SaveReset(k) \/ SaveUpdate(k) \/ SavePhoto(k)
  PROVE  \E a \in Account : Alters(k, a)
<1>1. /\ Holds(k) /\ ~IsIdle(k) /\ who[k] \in User /\ users[who[k]] \in Account
      /\ seen[k] \in Account
  <2>1. Holds(k) /\ ~IsIdle(k)
    BY DEF MailReset, SaveReset, SaveUpdate, SavePhoto, Awaits, At, Holds, Past, Loads
  <2>2. QED BY <2>1, AccountOf DEF Base, HandlersKnow
<1>2. /\ req(k).email \in Email /\ req(k).secret \in Secret /\ req(k).profile \in Profile
      /\ req(k).token \in Number
  BY <1>1, ReqType DEF Base
<1>3. MaxToken \in Nat /\ 0 \in 0..MaxToken /\ Number \subseteq 0..MaxToken
  BY AccountsAssumption DEF Number
<1>4. CASE MailReset(k)
  <2>1. PICK t \in Number : /\ t = MailCount + 1
                            /\ Write(who[k], [users[who[k]] EXCEPT !.reset = t])
                            /\ Mail(k, t) /\ UNCHANGED spent
    BY <1>4 DEF MailReset, MailCount
  <2>2. PICK a \in Account : /\ a = [users[who[k]] EXCEPT !.reset = t]
                             /\ a.reset = t /\ a.profile = users[who[k]].profile
                             /\ a.email = users[who[k]].email
    <3>1. PICK c : c = [users[who[k]] EXCEPT !.reset = t]
      OBVIOUS
    <3>2. c \in Account /\ c.reset = t /\ c.profile = users[who[k]].profile /\ c.email = users[who[k]].email
      BY <3>1, <1>1, <1>3 DEF Account
    <3>3. QED BY <3>1, <3>2
  <2>3. [kind |-> "reset", user |-> who[k], email |-> seen[k].email, token |-> t] \in Event
    BY <1>1 DEF Account, Event
  <2>4. Mailing(k, a)
    BY <2>1, <2>2, <2>3 DEF Mailing, Write, Row, Mail
  <2>5. QED BY <1>1, <2>4 DEF Alters
<1>5. CASE SaveReset(k)
  <2>1. PICK a \in Account : /\ a = [seen[k] EXCEPT !.secret = req(k).secret, !.reset = 0]
                             /\ a.reset = 0 /\ a.profile = seen[k].profile
                             /\ a.email = seen[k].email
    <3>1. PICK c : c = [seen[k] EXCEPT !.secret = req(k).secret, !.reset = 0]
      OBVIOUS
    <3>2. c \in Account /\ c.reset = 0 /\ c.profile = seen[k].profile /\ c.email = seen[k].email
      BY <3>1, <1>1, <1>2, <1>3 DEF Account
    <3>3. QED BY <3>1, <3>2
  <2>2. Resetting(k, a)
    BY <1>2, <1>5, <2>1 DEF SaveReset, Resetting, Write, Row, Awaits
  <2>3. QED BY <1>1, <2>2 DEF Alters
<1>6. CASE SaveUpdate(k)
  <2>1. PICK b \in Account : /\ b = Updated(k)
                             /\ b.reset = seen[k].reset
    <3>1. PICK c : c = Updated(k)
      OBVIOUS
    <3>2. c \in Account /\ c.reset = seen[k].reset
      BY <3>1, <1>1, <1>2 DEF Updated, Account
    <3>3. QED BY <3>1, <3>2
  <2>2. PICK a \in Account : /\ a = SavedAs(k, b)
                             /\ a.reset = b.reset
                             /\ a.email = b.email /\ a.profile = b.profile
    <3>1. PICK c : c = SavedAs(k, b)
      OBVIOUS
    <3>2. c \in Account /\ c.reset = b.reset /\ c.email = b.email /\ c.profile = b.profile
      BY <3>1, <1>1 DEF SavedAs, Account
    <3>3. QED BY <3>1, <3>2
  <2>3. [kind |-> "updated", user |-> who[k], email |-> b.email, profile |-> b.profile,
         rol |-> b.rol] \in Event
    BY <1>1 DEF Account, Event
  <2>4. Updating(k, a)
    BY <1>6, <2>1, <2>2, <2>3 DEF SaveUpdate, Updating, Announce, Write, Row
  <2>5. QED BY <1>1, <2>4 DEF Alters
<1>7. CASE SavePhoto(k)
  <2>1. PICK a \in Account : /\ a = SavedAs(k, seen[k])
                             /\ a.reset = seen[k].reset
                             /\ a.email = seen[k].email /\ a.profile = seen[k].profile
    <3>1. PICK c : c = SavedAs(k, seen[k])
      OBVIOUS
    <3>2. c \in Account /\ c.reset = seen[k].reset /\ c.email = seen[k].email /\ c.profile = seen[k].profile
      BY <3>1, <1>1 DEF SavedAs, Account
    <3>3. QED BY <3>1, <3>2
  <2>2. Saving(k, a)
    BY <1>7, <2>1 DEF SavePhoto, Saving, Write, Row
  <2>3. QED BY <1>1, <2>2 DEF Alters
<1>8. QED BY <1>4, <1>5, <1>6, <1>7

LEMMA StoreKinds ==
  ASSUME Base, [Next]_vars
  PROVE  \/ Quiet
         \/ \E a \in Account : Inserts(a)
         \/ \E u \in User, a \in Account : Restores(u, a)
         \/ \E k \in Slot, a \in Account : Writes(k) /\ Alters(k, a)
<1>1. ASSUME NEW k \in Slot, Register(k) PROVE \E a \in Account : Inserts(a)
  <2>1. req(k).email \in Email /\ req(k).secret \in Secret /\ req(k).profile \in Profile
        /\ 0 \in 0..MaxToken
    BY <1>1, ReqType, AccountsAssumption DEF Register, Awaits, At, Base
  <2>2. PICK a \in Account :
          /\ a = [email |-> req(k).email, secret |-> req(k).secret,
                  profile |-> req(k).profile, rol |-> "none", reset |-> 0]
          /\ a.reset = 0
    <3>1. PICK c : c = [email |-> req(k).email, secret |-> req(k).secret, profile |-> req(k).profile, rol |-> "none", reset |-> 0]
      OBVIOUS
    <3>2. c \in Account /\ c.reset = 0
      BY <3>1, <2>1 DEF Account
    <3>3. QED BY <3>1, <3>2
  <2>3. NextId \in User /\ Row(NextId, a) /\ UNCHANGED spent /\ Announce("created", NextId, a)
    BY <1>1, <2>2 DEF Register, Insert, Write, Row
  <2>4. [kind |-> "created", user |-> NextId, email |-> a.email, profile |-> a.profile,
         rol |-> a.rol] \in Event
    BY <2>3 DEF Account, Event
  <2>5. QED BY <2>2, <2>3, <2>4 DEF Inserts, Announce
<1>2. ASSUME SeedCreates PROVE Quiet \/ \E a \in Account : Inserts(a)
  <2>1. ASSUME NEW e \in Admins,
               Insert([email |-> e, secret |-> AdminSecret, profile |-> AdminProfile,
                       rol |-> "admin", reset |-> 0])
        PROVE  \E a \in Account : Inserts(a)
    <3>1. PICK a \in Account :
            /\ a = [email |-> e, secret |-> AdminSecret, profile |-> AdminProfile,
                    rol |-> "admin", reset |-> 0]
            /\ a.reset = 0
      <4>1. PICK c : c = [email |-> e, secret |-> AdminSecret, profile |-> AdminProfile, rol |-> "admin", reset |-> 0]
        OBVIOUS
      <4>2. c \in Account /\ c.reset = 0
        BY <4>1, AccountsAssumption DEF Account
      <4>3. QED BY <4>1, <4>2
    <3>2. QED BY <1>2, <2>1, <3>1 DEF SeedCreates, Insert, Write, Row, Inserts
  <2>2. QED BY <1>2, <2>1 DEF SeedCreates, Quiet
<1>3. ASSUME SeedReconciles
      PROVE  Quiet \/ \E u \in User, a \in Account : Restores(u, a)
  <2>1. seed.user \in User /\ Registered(seed.user) /\ users[seed.user] \in Account
    BY <1>3, AccountOf DEF SeedReconciles, Base, SeedKnows
  <2>2. ASSUME NEW e \in Admins,
               users' = [users EXCEPT ![seed.user] =
                 [@ EXCEPT !.email = e, !.rol = "admin", !.secret = AdminSecret]]
        PROVE  \E u \in User, a \in Account : Restores(u, a)
    <3>1. PICK a \in Account :
            /\ a = [users[seed.user] EXCEPT !.email = e, !.rol = "admin", !.secret = AdminSecret]
            /\ a.reset = users[seed.user].reset /\ a.profile = users[seed.user].profile
            /\ a.email = e
      <4>1. PICK c : c = [users[seed.user] EXCEPT !.email = e, !.rol = "admin", !.secret = AdminSecret]
        OBVIOUS
      <4>2. c \in Account /\ c.reset = users[seed.user].reset /\ c.profile = users[seed.user].profile /\ c.email = e
        BY <4>1, <2>1, AccountsAssumption DEF Account
      <4>3. QED BY <4>1, <4>2
    <3>2. QED BY <1>3, <2>1, <2>2, <3>1 DEF SeedReconciles, Row, Restores
  <2>3. QED BY <1>3, <2>2 DEF SeedReconciles, Quiet
<1>4. ASSUME NEW k \in Slot, Writes(k)
      PROVE  \/ Quiet
             \/ \E a \in Account : Inserts(a)
             \/ \E a \in Account : Alters(k, a)
  <2>1. Login(k) \/ Rotate(k) => Quiet
    BY DEF Login, Rotate, Mint, Quiet
  <2>2. QED BY <1>1, <1>4, <2>1, AltersKinds DEF Writes
<1>5. ASSUME NEW k \in Slot, Checks(k) \/ Reads(k) \/ Drops(k) PROVE Quiet
  BY <1>5, Reading DEF Checks, CheckFree, CheckPassword, CheckToken, Revoke, Proceed,
     Drops, NobodyToMail, Fails, Die, Quiet
<1>6. Waits \/ SeedReads => Quiet
  BY WaitsLeave DEF SeedReads, Quiet
<1>7. QED BY <1>2, <1>3, <1>4, <1>5, <1>6, StepKinds DEF Seed

\* Rows other than the one written.
LEMMA RowFacts ==
  ASSUME TypeOK, NEW u \in User, NEW a \in Account, Row(u, a)
  PROVE  /\ users'[u] = a /\ Registered(u)' /\ Stored(u)' = a.reset
         /\ \A v \in User : v # u => /\ users'[v] = users[v]
                                    /\ Registered(v)' = Registered(v)
                                    /\ Stored(v)' = Stored(v)
<1>1. users'[u] = a /\ \A v \in User : v # u => users'[v] = users[v]
  BY DEF TypeOK, Row
<1>2. Registered(u)'
  BY <1>1, AbsentIsNotAccount DEF Registered
<1>3. QED BY <1>1, <1>2 DEF Registered, Stored

LEMMA HolderFacts ==
  ASSUME Base, NEW k \in Slot, Holds(k)
  PROVE  /\ who[k] \in User /\ Registered(who[k]) /\ seen[k] \in Account
         /\ users[who[k]] \in Account /\ Stored(who[k]) = users[who[k]].reset
  BY AccountOf DEF Base, HandlersKnow, Stored

LEMMA OrderStep ==
  ASSUME Base, NumberedInOrder, [Next]_vars
  PROVE  NumberedInOrder'
<1> DEFINE R == {u \in User : Registered(u)}
<1>1. ASSUME NEW u \in User, NEW a \in Account, Row(u, a), Registered(u)
      PROVE  NumberedInOrder'
  <2>1. R' = R
    BY <1>1, RowFacts DEF Base
  <2>2. QED BY <2>1 DEF NumberedInOrder
<1>2. ASSUME NEW a \in Account, Inserts(a) PROVE NumberedInOrder'
  <2>1. NextId \in User /\ NextId \in Nat /\ Row(NextId, a)
    BY <1>2, AccountsAssumption DEF Inserts, User
  <2>2. R' = R \cup {NextId}
    BY <2>1, RowFacts DEF Base
  <2>3. R' = 1..NextId
    BY <2>1, <2>2, Inserting DEF Base
  <2>4. QED BY <2>1, <2>3 DEF NumberedInOrder
<1>3. CASE Quiet
  <2>1. R' = R
    BY <1>3 DEF Quiet, Registered
  <2>2. QED BY <2>1 DEF NumberedInOrder
<1>4. ASSUME NEW k \in Slot, NEW a \in Account, Alters(k, a)
      PROVE  /\ who[k] \in User /\ Registered(who[k]) /\ Row(who[k], a)
  BY <1>4, HolderFacts DEF Alters, Mailing, Resetting, Updating, Saving
<1>5. QED BY <1>1, <1>2, <1>3, <1>4, StoreKinds DEF Restores

LEMMA OfUsersStep ==
  ASSUME Base, EventsAreOfUsers, [Next]_vars
  PROVE  EventsAreOfUsers'
<1>0. \A i \in 1..Len(events) : users'[events[i].user] # Absent
  BY UsersStep, EventFacts DEF Base, EventsAreOfUsers, Registered
<1>1. ASSUME NEW e \in Event, events' = Append(events, e), users'[e.user] # Absent
      PROVE  EventsAreOfUsers'
  <2>1. ASSUME NEW i \in 1..Len(events') PROVE users'[events'[i].user] # Absent
    <3>1. CASE i \in 1..Len(events)
      <4>1. events'[i] = events[i]
        BY <1>1, <3>1, AppendedEvent DEF Base
      <4>2. QED BY <1>0, <3>1, <4>1
    <3>2. CASE i = Len(events) + 1
      <4>1. events'[i] = e
        BY <1>1, <3>2, AppendedEvent DEF Base
      <4>2. QED BY <1>1, <4>1
    <3>3. QED BY <1>1, <3>1, <3>2, AppendedEvent DEF Base
  <2>2. QED BY <2>1 DEF EventsAreOfUsers, Registered
<1>2. CASE UNCHANGED events
  BY <1>0, <1>2 DEF EventsAreOfUsers, Registered
<1>3. ASSUME NEW a \in Account, Inserts(a) PROVE EventsAreOfUsers'
  <2>1. NextId \in User /\ Row(NextId, a)
    BY <1>3 DEF Inserts
  <2>2. users'[NextId] # Absent
    BY <2>1, RowFacts, AbsentIsNotAccount DEF Base
  <2>3. QED BY <1>1, <1>2, <1>3, <2>2 DEF Inserts
<1>4. ASSUME NEW k \in Slot, NEW a \in Account, Alters(k, a) PROVE EventsAreOfUsers'
  <2>1. who[k] \in User /\ Registered(who[k])
    BY <1>4, HolderFacts DEF Alters
  <2>2. users'[who[k]] # Absent
    BY <2>1, UsersStep DEF Registered
  <2>3. QED BY <1>1, <1>2, <1>4, <2>2 DEF Alters, Mailing, Resetting, Updating, Saving
<1>5. QED BY <1>2, <1>3, <1>4, StoreKinds DEF Quiet, Restores

\* What is loaded stays current: between handlers only the seed writes.
HolderIsCurrent(k) ==
  Holds(k) => /\ seen[k].reset = users[who[k]].reset
              /\ seen[k].profile = users[who[k]].profile
              /\ req(k).op = "reset" => seen[k].reset = req(k).token

LEMMA HeldStep ==
  ASSUME Base, OneAtATime, NumberedInOrder, HeldIsCurrent, [Next]_vars
  PROVE  HeldIsCurrent'
<1> DEFINE RowsStay == \A u \in User : Registered(u) =>
                         /\ users'[u].reset = users[u].reset
                         /\ users'[u].profile = users[u].profile
<1>1. CASE \E k \in Slot : Writes(k)
  BY <1>1, NobodyLeft DEF HeldIsCurrent, Holds, Past
<1>2. CASE RowsStay
  <2>1. ASSUME NEW j \in Slot PROVE HolderIsCurrent(j)'
    <3>1. CASE Keeps(j)
      <4>1. CASE Holds(j)
        <5>1. /\ users'[who[j]].reset = users[who[j]].reset
              /\ users'[who[j]].profile = users[who[j]].profile
          BY <1>2, <4>1, HolderFacts
        <5>2. /\ seen[j].reset = users[who[j]].reset
              /\ seen[j].profile = users[who[j]].profile
              /\ req(j).op = "reset" => seen[j].reset = req(j).token
          BY <4>1 DEF HeldIsCurrent
        <5>3. req(j)' = req(j) /\ seen'[j] = seen[j] /\ who'[j] = who[j]
          BY <3>1, <4>1 DEF Keeps, Holds, req
        <5>4. QED BY <5>1, <5>2, <5>3 DEF HolderIsCurrent
      <4>2. CASE ~Holds(j)
        BY <3>1, <4>2 DEF Keeps, Holds, Past, req, HolderIsCurrent
      <4>3. QED BY <4>1, <4>2
    <3>2. ASSUME NEW u \in User, UNCHANGED store, Finds(j, u)
          PROVE  HolderIsCurrent(j)'
      <4>1. /\ seen'[j] = users'[who'[j]] /\ seen'[j] = users[u] /\ req(j)' = req(j)
            /\ req(j).op = "reset" =>
                 users[u].reset = req(j).token \/ (Holds(j) /\ u = who[j])
        BY <3>2 DEF Finds, req
      <4>2. Holds(j) /\ req(j).op = "reset" => users[who[j]].reset = req(j).token
        BY DEF HeldIsCurrent
      <4>3. QED BY <4>1, <4>2 DEF HolderIsCurrent
    <3>3. Ends(j) \/ GoesOn(j) => HolderIsCurrent(j)'
      BY DEF Ends, GoesOn, Holds, Past, req, HolderIsCurrent
    <3>4. QED BY <3>1, <3>2, <3>3, SlotStep
  <2>2. QED BY <2>1 DEF HeldIsCurrent, HolderIsCurrent
<1>3. ASSUME NEW a \in Account, Inserts(a) PROVE RowsStay
  <2>1. NextId \in User /\ Row(NextId, a) /\ ~Registered(NextId)
    BY <1>3, Inserting DEF Inserts, Base
  <2>2. QED BY <2>1, RowFacts DEF Base
<1>4. ASSUME NEW u \in User, NEW a \in Account, Restores(u, a) PROVE RowsStay
  BY <1>4, RowFacts DEF Restores, Base
<1>5. Quiet => RowsStay
  BY DEF Quiet
<1>6. QED BY <1>1, <1>2, <1>3, <1>4, <1>5, StoreKinds
-----------------------------------------------------------------------------
\* Mailed tokens.  Each is stored in one row at most, and no more once it is used.

OthersStay(u) == \A v \in User : v # u => Stored(v)' = Stored(v)
NoMail == UNCHANGED events \/ \E e \in Event : events' = Append(events, e) /\ e.kind # "reset"
TokensStay == /\ \A u \in User : Stored(u)' = Stored(u)
              /\ UNCHANGED spent /\ NoMail
MailsToken(u) == /\ Stored(u)' = MailCount + 1 /\ OthersStay(u) /\ UNCHANGED spent
                 /\ \E e \in Event : /\ events' = Append(events, e)
                                     /\ e.kind = "reset" /\ e.user = u
                                     /\ e.token = MailCount + 1
UsesToken(u, t) == /\ Stored(u) = t /\ Stored(u)' = 0 /\ OthersStay(u)
                   /\ UNCHANGED events /\ spent' = [spent EXCEPT ![t] = @ + 1]

LEMMA TokenKinds ==
  ASSUME Base, NumberedInOrder, HeldIsCurrent, [Next]_vars
  PROVE  \/ TokensStay
         \/ \E u \in User : MailsToken(u)
         \/ \E u \in User, t \in Number : UsesToken(u, t)
<1>1. Quiet => TokensStay
  BY DEF Quiet, TokensStay, NoMail, Stored, Registered
<1>2. ASSUME NEW a \in Account, Inserts(a) PROVE TokensStay
  <2>1. NextId \in User /\ Row(NextId, a) /\ Stored(NextId) = 0 /\ a.reset = 0
    BY <1>2, Inserting DEF Inserts, Stored, Base
  <2>2. \A u \in User : Stored(u)' = Stored(u)
    BY <2>1, RowFacts DEF Base
  <2>3. UNCHANGED spent /\ NoMail
    BY <1>2 DEF Inserts, NoMail
  <2>4. QED BY <2>2, <2>3 DEF TokensStay
<1>3. ASSUME NEW u \in User, NEW a \in Account, Restores(u, a) PROVE TokensStay
  <2>1. Row(u, a) /\ a.reset = Stored(u)
    BY <1>3 DEF Restores, Stored
  <2>2. \A v \in User : Stored(v)' = Stored(v)
    BY <2>1, RowFacts DEF Base
  <2>3. QED BY <1>3, <2>2 DEF Restores, TokensStay, NoMail
<1>4. ASSUME NEW k \in Slot, NEW a \in Account, Alters(k, a)
      PROVE  \/ TokensStay
             \/ \E u \in User : MailsToken(u)
             \/ \E u \in User, t \in Number : UsesToken(u, t)
  <2>0. PICK u : u = who[k]
    OBVIOUS
  <2>1. /\ u \in User /\ Row(u, a) /\ seen[k].reset = Stored(u)
        /\ req(k).op = "reset" => Stored(u) = req(k).token
    <3>1. Row(who[k], a)
      BY <1>4 DEF Alters, Mailing, Resetting, Updating, Saving
    <3>2. QED BY <1>4, <2>0, <3>1, HolderFacts DEF Alters, HeldIsCurrent
  <2>2. Stored(u)' = a.reset /\ OthersStay(u)
    BY <2>1, RowFacts DEF OthersStay, Base
  <2>3. CASE Mailing(k, a)
    BY <2>0, <2>1, <2>2, <2>3 DEF Mailing, MailsToken
  <2>4. CASE Resetting(k, a)
    <3>1. UsesToken(u, req(k).token) /\ req(k).token \in Number
      BY <2>1, <2>2, <2>4 DEF Resetting, UsesToken
    <3>2. QED BY <2>1, <3>1
  <2>5. CASE Updating(k, a) \/ Saving(k, a)
    <3>1. a.reset = seen[k].reset /\ UNCHANGED spent /\ NoMail
      BY <2>5 DEF Updating, Saving, NoMail
    <3>2. \A v \in User : Stored(v)' = Stored(v)
      BY <2>1, <2>2, <3>1 DEF OthersStay
    <3>3. QED BY <3>1, <3>2 DEF TokensStay
  <2>6. QED BY <1>4, <2>3, <2>4, <2>5 DEF Alters
<1>5. QED BY <1>1, <1>2, <1>3, <1>4, StoreKinds

LEMMA StoredType ==
  ASSUME TypeOK, NEW u \in User
  PROVE  Stored(u) \in 0..MaxToken
<1>1. 0 \in 0..MaxToken
  BY AccountsAssumption
<1>2. users[u] \in Account => users[u].reset \in 0..MaxToken
  BY DEF Account
<1>3. QED BY <1>1, <1>2, AccountOf DEF Stored

LEMMA NoMailFacts ==
  ASSUME TypeOK, NoMail
  PROVE  /\ MailCount' = MailCount /\ Mails' = Mails
         /\ \A i \in Mails : events'[i] = events[i]
<1>1. CASE UNCHANGED events
  BY <1>1 DEF MailCount, Mails
<1>2. ASSUME NEW e \in Event, events' = Append(events, e), e.kind # "reset"
      PROVE  /\ MailCount' = MailCount /\ Mails' = Mails
             /\ \A i \in Mails : events'[i] = events[i]
  BY <1>2, AppendedEvent, MailsFinite
<1>3. QED BY <1>1, <1>2 DEF NoMail

LEMMA FreshStep ==
  ASSUME Base, NumberedInOrder, HeldIsCurrent, ResetsAreFresh, ResetOnce, [Next]_vars
  PROVE  ResetsAreFresh' /\ ResetOnce'
<1>0. /\ MailCount \in Nat /\ spent \in [Number -> Nat] /\ MaxToken \in Nat
      /\ \A u \in User : Stored(u) \in Nat /\ (Stored(u) # 0 => Stored(u) \in Number)
  BY MailsFinite, StoredType, AccountsAssumption DEF Base, TypeOK, Number
<1>1. CASE TokensStay
  <2>1. MailCount' = MailCount /\ \A u \in User : Stored(u)' = Stored(u) /\ spent' = spent
    BY <1>1, NoMailFacts DEF TokensStay, Base
  <2>2. QED BY <1>1, <2>1 DEF TokensStay, ResetsAreFresh, ResetOnce
<1>2. ASSUME NEW w \in User, MailsToken(w) PROVE ResetsAreFresh' /\ ResetOnce'
  <2>1. MailCount' = MailCount + 1
    BY <1>2, AppendedEvent, <1>0 DEF MailsToken, Base
  <2>2. /\ UNCHANGED spent /\ Stored(w)' = MailCount + 1
        /\ \A v \in User : v # w => Stored(v)' = Stored(v)
    BY <1>2 DEF MailsToken, OthersStay
  <2>3. \A v \in User : Stored(v) <= MailCount
    BY DEF ResetsAreFresh
  <2>4. \A n \in Number : spent[n] > 0 => n <= MailCount
    BY DEF ResetsAreFresh
  <2>5. ASSUME NEW u \in User
        PROVE  /\ Stored(u)' <= MailCount'
               /\ Stored(u)' # 0 => spent'[Stored(u)'] = 0
               /\ \A v \in User : Stored(u)' = Stored(v)' /\ Stored(u)' # 0 => u = v
    <3>1. CASE u = w
      <4>1. spent[MailCount + 1] = 0
        <5>1. MailCount + 1 \in Number
          <6>1. PICK e \in Event : e.kind = "reset" /\ e.token = MailCount + 1
            BY <1>2 DEF MailsToken
          <6>2. QED BY <6>1 DEF Event
        <5>2. spent[MailCount + 1] \in Nat
          BY <1>0, <5>1
        <5>3. QED BY <1>0, <2>4, <5>1, <5>2
      <4>2. QED BY <1>0, <2>1, <2>2, <2>3, <3>1, <4>1
    <3>2. CASE u # w
      BY <1>0, <2>1, <2>2, <2>3, <3>2 DEF ResetsAreFresh
    <3>3. QED BY <3>1, <3>2
  <2>6. \A n \in Number : spent'[n] > 0 => n <= MailCount'
    BY <1>0, <2>1, <2>2, <2>4 DEF Number
  <2>7. QED BY <2>2, <2>5, <2>6 DEF ResetsAreFresh, ResetOnce
<1>3. ASSUME NEW w \in User, NEW t \in Number, UsesToken(w, t)
      PROVE  ResetsAreFresh' /\ ResetOnce'
  <2>1. MailCount' = MailCount
    BY <1>3 DEF UsesToken, MailCount, Mails
  <2>2. /\ Stored(w) = t /\ Stored(w)' = 0 /\ t # 0
        /\ \A v \in User : v # w => Stored(v)' = Stored(v)
    BY <1>3 DEF UsesToken, OthersStay, Number
  <2>3. /\ spent[t] = 0 /\ spent'[t] = 1 /\ t <= MailCount
        /\ \A n \in Number : n # t => spent'[n] = spent[n]
    BY <1>0, <1>3, <2>2 DEF UsesToken, ResetsAreFresh
  <2>4. \A v \in User : v # w => Stored(v) # t
    BY <2>2 DEF ResetsAreFresh
  <2>5. ASSUME NEW u \in User
        PROVE  /\ Stored(u)' <= MailCount'
               /\ Stored(u)' # 0 => spent'[Stored(u)'] = 0
               /\ \A v \in User : Stored(u)' = Stored(v)' /\ Stored(u)' # 0 => u = v
    BY <1>0, <2>1, <2>2, <2>3, <2>4 DEF ResetsAreFresh
  <2>6. \A n \in Number : spent'[n] > 0 => n <= MailCount'
    BY <2>1, <2>3 DEF ResetsAreFresh
  <2>7. \A n \in Number : spent'[n] <= 1
    BY <2>3 DEF ResetOnce
  <2>8. QED BY <2>5, <2>6, <2>7 DEF ResetsAreFresh, ResetOnce
<1>4. QED BY <1>1, <1>2, <1>3, TokenKinds

\* The last mail of its user carries the stored token, or that is used.
Works(i) == \/ Stored(events[i].user) = events[i].token
            \/ spent[events[i].token] > 0
LastOne(i) == \A j \in Mails : events[j].user = events[i].user => j <= i
LastWorks == \A i \in Mails : LastOne(i) => Works(i)

LEMMA LastWorksStep ==
  ASSUME Base, NumberedInOrder, HeldIsCurrent, LastWorks, [Next]_vars
  PROVE  LastWorks'
<1>0. \A i \in Mails : /\ i \in 1..Len(events) /\ events[i].user \in User
                        /\ events[i].token \in Number
  BY EventFacts DEF Base, Mails
<1>1. CASE TokensStay
  <2>1. /\ Mails' = Mails /\ (\A i \in Mails : events'[i] = events[i]) /\ spent' = spent
        /\ \A u \in User : Stored(u)' = Stored(u)
    BY <1>1, NoMailFacts DEF TokensStay, Base
  <2>2. ASSUME NEW i \in Mails, LastOne(i)' PROVE Works(i)'
    <3>1. LastOne(i)
      BY <2>1, <2>2 DEF LastOne
    <3>2. Works(i)
      BY <3>1 DEF LastWorks
    <3>3. PICK u \in User : u = events[i].user /\ u = events'[i].user
      BY <1>0, <2>1, <2>2
    <3>4. Stored(events[i].user)' = Stored(u)'
      BY <3>3 DEF Stored, Registered
    <3>5. QED BY <2>1, <2>2, <3>2, <3>3, <3>4 DEF Works
  <2>3. QED BY <2>1, <2>2 DEF LastWorks
<1>2. ASSUME NEW w \in User, MailsToken(w) PROVE LastWorks'
  <2>1. PICK e \in Event : /\ events' = Append(events, e)
                           /\ e.kind = "reset" /\ e.user = w /\ e.token = MailCount + 1
    BY <1>2 DEF MailsToken
  <2>2. /\ Len(events) \in Nat /\ Mails' = Mails \cup {Len(events) + 1}
        /\ events'[Len(events) + 1] = e
        /\ \A i \in Mails : events'[i] = events[i]
    BY <1>0, <2>1, AppendedEvent DEF Base
  <2>3. /\ Stored(w)' = MailCount + 1 /\ spent' = spent
        /\ \A u \in User : u # w => Stored(u)' = Stored(u)
    BY <1>2 DEF MailsToken, OthersStay
  <2>4. ASSUME NEW n, n = Len(events) + 1 PROVE Works(n)'
    <3>1. events'[n].user = w /\ events'[n].token = MailCount + 1
      BY <2>1, <2>2, <2>4
    <3>2. Stored(events[n].user)' = Stored(w)'
      BY <3>1 DEF Stored, Registered
    <3>3. QED BY <2>3, <3>1, <3>2 DEF Works
  <2>5. ASSUME NEW i \in Mails, LastOne(i)' PROVE Works(i)'
    <3>1. PICK u \in User : u = events[i].user /\ u = events'[i].user
      BY <1>0, <2>2, <2>5
    <3>2. u # w
      <4>1. i < Len(events) + 1 /\ Len(events) + 1 \in Mails' /\ i \in Nat
        BY <1>0, <2>2
      <4>2. events'[Len(events) + 1].user = w
        BY <2>1, <2>2
      <4>3. \A j \in Mails' : events'[j].user = u => j <= i
        BY <2>5, <3>1 DEF LastOne
      <4>4. u = w => Len(events) + 1 <= i
        BY <4>1, <4>2, <4>3
      <4>5. QED BY <2>2, <4>1, <4>4
    <3>3. LastOne(i)
      BY <2>2, <2>5 DEF LastOne
    <3>4. Works(i)
      BY <3>3 DEF LastWorks
    <3>5. Stored(events[i].user)' = Stored(u)'
      BY <3>1 DEF Stored, Registered
    <3>6. QED BY <2>2, <2>3, <2>5, <3>1, <3>2, <3>4, <3>5 DEF Works
  <2>6. \A i \in Mails' : LastOne(i)' => Works(i)'
    BY <2>2, <2>4, <2>5
  <2>7. QED BY <2>6 DEF LastWorks
<1>3. ASSUME NEW w \in User, NEW t \in Number, UsesToken(w, t) PROVE LastWorks'
  <2>1. /\ Mails' = Mails /\ events' = events
        /\ Stored(w) = t /\ spent \in [Number -> Nat]
        /\ \A u \in User : u # w => Stored(u)' = Stored(u)
        /\ spent'[t] = spent[t] + 1
        /\ \A n \in Number : n # t => spent'[n] = spent[n]
    BY <1>3 DEF UsesToken, OthersStay, Mails, Base, TypeOK
  <2>2. ASSUME NEW i \in Mails, LastOne(i)' PROVE Works(i)'
    <3>1. PICK u \in User : u = events[i].user
      BY <1>0
    <3>2. Works(i)
      BY <2>1, <2>2 DEF LastOne, LastWorks
    <3>3. Stored(events[i].user)' = Stored(u)'
      BY <2>1, <3>1 DEF Stored, Registered
    <3>4. PICK n \in Number : n = events[i].token /\ n = events'[i].token
      BY <1>0, <2>1
    <3>5. Stored(u) = n \/ spent[n] > 0
      BY <3>1, <3>2, <3>4 DEF Works
    <3>6. spent[n] \in Nat /\ spent[t] \in Nat
      BY <2>1
    <3>7. Stored(u)' = n \/ spent'[n] > 0
      BY <2>1, <3>5, <3>6
    <3>8. QED BY <3>3, <3>4, <3>7 DEF Works
  <2>3. QED BY <2>1, <2>2 DEF LastWorks
<1>4. QED BY <1>1, <1>2, <1>3, TokenKinds
-----------------------------------------------------------------------------
\* The last event about a user.  A handler writes back what it loaded or announces
\* what it writes, so only the administrator's email changes without an event.

LEMMA SaysKept ==
  ASSUME TypeOK, NEW u \in User, NEW e, NEW p, Says(u, e, p),
         \/ UNCHANGED events
         \/ \E d \in Event : /\ events' = Append(events, d)
                             /\ d.kind = "reset" \/ d.user # u
  PROVE  Says(u, e, p)'
<1>1. CASE UNCHANGED events
  BY <1>1 DEF Says, Announcements
<1>2. ASSUME NEW d \in Event, events' = Append(events, d), d.kind = "reset" \/ d.user # u
      PROVE  Says(u, e, p)'
  <2>1. Announcements(u)' = Announcements(u)
    BY <1>2, AppendedEvent DEF Announcements
  <2>2. \A i \in Announcements(u) : events'[i] = events[i]
    BY <1>2, AppendedEvent DEF Announcements
  <2>3. QED BY <2>1, <2>2 DEF Says
<1>3. QED BY <1>1, <1>2

LEMMA SaysNow ==
  ASSUME TypeOK, NEW u \in User, NEW d \in Event, events' = Append(events, d),
         d.kind # "reset", d.user = u
  PROVE  Says(u, d.email, d.profile)'
<1>1. /\ Len(events) \in Nat
      /\ Announcements(u)' = Announcements(u) \cup {Len(events) + 1}
      /\ Announcements(u) \subseteq 1..Len(events)
      /\ events'[Len(events) + 1] = d
  BY AppendedEvent DEF Announcements
<1>2. \A i \in Announcements(u)' : (\A j \in Announcements(u)' : j <= i) => i = Len(events) + 1
  BY <1>1
<1>3. QED BY <1>1, <1>2 DEF Says

LEMMA SaysAnything ==
  ASSUME EventsAreOfUsers, NEW u \in User, ~Registered(u), NEW e, NEW p
  PROVE  Says(u, e, p)
  BY DEF EventsAreOfUsers, Says, Announcements

\* The administrator's email is never wrong.
LEMMA SaysAdmin ==
  ASSUME NEW u \in User, NEW e, NEW p, NEW a \in Admins, Says(u, e, p)
  PROVE  Says(u, a, p)
  BY DEF Says

\* The rows, whatever a step writes; and the handlers, as long as no step of
\* another announces.
RowSaid(u) == Registered(u) => Says(u, users[u].email, users[u].profile)
HolderSaid(k) == Holds(k) => Says(who[k], seen[k].email, seen[k].profile)

LEMMA RowsSaidStep ==
  ASSUME Base, NumberedInOrder, EventsAreOfUsers, HeldIsCurrent, Announced, [Next]_vars,
         NEW u \in User
  PROVE  RowSaid(u)'
<1>0. RowSaid(u)
  BY DEF Announced, RowSaid
<1>1. ASSUME users'[u] = users[u],
             \/ UNCHANGED events
             \/ \E d \in Event : /\ events' = Append(events, d)
                                 /\ d.kind = "reset" \/ d.user # u
      PROVE  RowSaid(u)'
  <2>1. ASSUME Registered(u) PROVE Says(u, users[u].email, users[u].profile)'
    <3>1. PICK e, p : e = users[u].email /\ p = users[u].profile
      OBVIOUS
    <3>2. Says(u, e, p)'
      BY <1>0, <1>1, <2>1, <3>1, SaysKept DEF RowSaid, Base
    <3>3. e = users'[u].email /\ p = users'[u].profile
      BY <1>1, <3>1
    <3>4. QED BY <3>2, <3>3 DEF Says
  <2>2. QED BY <1>1, <2>1 DEF RowSaid, Registered
<1>2. ASSUME NEW a \in Account, Row(u, a), Says(u, a.email, a.profile)'
      PROVE  RowSaid(u)'
  <2>1. users'[u] = a
    BY <1>2, RowFacts DEF Base
  <2>2. QED BY <1>2, <2>1 DEF RowSaid, Says
<1>3. ASSUME NEW a \in Account, Row(u, a), NEW d \in Event, events' = Append(events, d),
             d.kind # "reset", d.user = u, d.email = a.email, d.profile = a.profile
      PROVE  RowSaid(u)'
  <2>1. Says(u, d.email, d.profile)'
    BY <1>3, SaysNow DEF Base
  <2>2. QED BY <1>2, <1>3, <2>1
<1>4. ASSUME NEW a \in Account, Row(u, a), Says(u, a.email, a.profile),
             \/ UNCHANGED events
             \/ \E d \in Event : events' = Append(events, d) /\ d.kind = "reset"
      PROVE  RowSaid(u)'
  <2>1. PICK e, p : e = a.email /\ p = a.profile
    OBVIOUS
  <2>2. Says(u, e, p)'
    BY <1>4, <2>1, SaysKept DEF Base
  <2>3. QED BY <1>2, <1>4, <2>1, <2>2
<1>5. CASE Quiet
  BY <1>1, <1>5 DEF Quiet
<1>6. ASSUME NEW a \in Account, Inserts(a) PROVE RowSaid(u)'
  <2>1. NextId \in User /\ Row(NextId, a) /\ ~Registered(NextId)
    BY <1>6, Inserting DEF Inserts, Base
  <2>2. CASE u # NextId
    <3>1. users'[u] = users[u]
      BY <2>1, <2>2, RowFacts DEF Base
    <3>2. QED BY <1>1, <1>6, <2>2, <3>1 DEF Inserts
  <2>3. CASE u = NextId /\ UNCHANGED events
    BY <1>4, <2>1, <2>3, SaysAnything
  <2>4. CASE u = NextId /\ ~UNCHANGED events
    BY <1>3, <1>6, <2>1, <2>4 DEF Inserts
  <2>5. QED BY <2>2, <2>3, <2>4
<1>7. ASSUME NEW w \in User, NEW a \in Account, Restores(w, a) PROVE RowSaid(u)'
  <2>1. CASE u # w
    BY <1>1, <1>7, <2>1, RowFacts DEF Restores, Base
  <2>2. CASE u = w
    <3>1. Says(u, a.email, a.profile)
      BY <1>0, <1>7, <2>2, SaysAdmin DEF Restores, RowSaid
    <3>2. QED BY <1>4, <1>7, <2>2, <3>1 DEF Restores
  <2>3. QED BY <2>1, <2>2
<1>8. ASSUME NEW k \in Slot, NEW a \in Account, Alters(k, a) PROVE RowSaid(u)'
  <2>1. who[k] \in User /\ Row(who[k], a) /\ Holds(k)
    BY <1>8, HolderFacts DEF Alters, Mailing, Resetting, Updating, Saving
  <2>2. CASE u # who[k]
    <3>1. users'[u] = users[u]
      BY <2>1, <2>2, RowFacts DEF Base
    <3>2. QED
      BY <1>1, <1>8, <2>2, <3>1 DEF Alters, Mailing, Resetting, Updating, Saving
  <2>3. CASE u = who[k] /\ Updating(k, a)
    BY <1>3, <2>1, <2>3 DEF Updating
  <2>4. CASE u = who[k] /\ Mailing(k, a)
    <3>1. Says(u, a.email, a.profile)
      BY <1>0, <2>1, <2>4, HolderFacts DEF Mailing, RowSaid
    <3>2. QED BY <1>4, <2>1, <2>4, <3>1 DEF Mailing
  <2>5. CASE u = who[k] /\ (Resetting(k, a) \/ Saving(k, a))
    <3>1. Says(u, a.email, a.profile)
      BY <2>1, <2>5 DEF Resetting, Saving, Announced
    <3>2. QED BY <1>4, <2>1, <2>5, <3>1 DEF Resetting, Saving
  <2>6. QED BY <1>8, <2>2, <2>3, <2>4, <2>5 DEF Alters
<1>9. QED BY <1>5, <1>6, <1>7, <1>8, StoreKinds

LEMMA HoldersSaidStep ==
  ASSUME Base, OneAtATime, NumberedInOrder, EventsAreOfUsers, Announced, [Next]_vars,
         NEW j \in Slot
  PROVE  HolderSaid(j)'
<1>1. CASE \E k \in Slot : Writes(k)
  BY <1>1, NobodyLeft DEF HolderSaid, Holds, Past
<1>2. CASE ~\E k \in Slot : Writes(k)
  <2>1. CASE Keeps(j) /\ Holds(j)
    <3>1. PICK u, e, p : u \in User /\ u = who[j] /\ e = seen[j].email /\ p = seen[j].profile
      BY <2>1, HolderFacts
    <3>2. Says(u, e, p) /\ Registered(u)
      BY <2>1, <3>1, HolderFacts DEF Announced
    <3>3. \/ UNCHANGED events
          \/ \E d \in Event : events' = Append(events, d) /\ d.user # u
      <4>1. ASSUME NEW a \in Account, Inserts(a)
            PROVE  UNCHANGED events \/ \E d \in Event : events' = Append(events, d) /\ d.user # u
        BY <3>2, <4>1, Inserting DEF Inserts, Base
      <4>2. QED BY <1>2, <4>1, StoreKinds DEF Quiet, Restores
    <3>4. Says(u, e, p)'
      BY <3>1, <3>2, <3>3, SaysKept DEF Base
    <3>5. u = who'[j] /\ e = seen'[j].email /\ p = seen'[j].profile
      BY <2>1, <3>1 DEF Keeps
    <3>6. QED BY <3>4, <3>5 DEF HolderSaid, Says
  <2>2. CASE Keeps(j) /\ ~Holds(j)
    BY <2>2 DEF Keeps, Holds, Past, req, HolderSaid
  <2>3. ASSUME NEW u \in User, UNCHANGED store, Finds(j, u) PROVE HolderSaid(j)'
    <3>1. Says(u, users[u].email, users[u].profile)
      BY <2>3 DEF Finds, Announced
    <3>2. u = who'[j] /\ users[u] = seen'[j]
      BY <2>3 DEF Finds
    <3>3. events' = events
      BY <2>3
    <3>4. QED BY <3>1, <3>2, <3>3 DEF HolderSaid, Says, Announcements
  <2>4. Ends(j) \/ GoesOn(j) => HolderSaid(j)'
    BY DEF Ends, GoesOn, Holds, Past, req, HolderSaid
  <2>5. QED BY <2>1, <2>2, <2>3, <2>4, SlotStep
<1>3. QED BY <1>1, <1>2

LEMMA CurrentStep ==
  ASSUME Base, OneAtATime, Current, ResetOnce, LastWorks, [Next]_vars
  PROVE  Current' /\ ResetOnce' /\ LastWorks'
<1>1. NumberedInOrder' /\ EventsAreOfUsers' /\ HeldIsCurrent'
  BY OrderStep, OfUsersStep, HeldStep DEF Current
<1>2. ResetsAreFresh' /\ ResetOnce' /\ LastWorks'
  BY FreshStep, LastWorksStep DEF Current
<1>3. Announced'
  <2>1. (\A u \in User : RowSaid(u)') /\ (\A j \in Slot : HolderSaid(j)')
    BY RowsSaidStep, HoldersSaidStep DEF Current
  <2>2. QED BY <2>1 DEF Announced, RowSaid, HolderSaid
<1>4. QED BY <1>1, <1>2, <1>3 DEF Current

LEMMA CurrentInit == Init => Current /\ ResetOnce /\ LastWorks
<1> SUFFICES ASSUME Init PROVE Current /\ ResetOnce /\ LastWorks
  OBVIOUS
<1>1. /\ \A u \in User : ~Registered(u) /\ Stored(u) = 0
      /\ \A n \in Number : spent[n] = 0
      /\ \A k \in Slot : ~Holds(k)
      /\ events = <<>> /\ Mails = {}
  BY DEF Init, Registered, Stored, Holds, Past, Mails
<1>2. MailCount = 0
  BY <1>1, FS_EmptySet DEF MailCount
<1>3. NumberedInOrder
  <2>1. {u \in User : Registered(u)} = 1..0
    BY <1>1
  <2>2. QED BY <2>1 DEF NumberedInOrder
<1>4. QED
  BY <1>1, <1>2, <1>3 DEF Current, EventsAreOfUsers, HeldIsCurrent, ResetsAreFresh,
     Announced, Says, Announcements, ResetOnce, LastWorks

LEMMA CurrentInvariant == OneReplica => (Spec => [](Base /\ Current /\ ResetOnce /\ LastWorks))
<1> SUFFICES ASSUME OneReplica PROVE Spec => [](Base /\ Current /\ ResetOnce /\ LastWorks)
  OBVIOUS
<1> DEFINE Inv == Current /\ ResetOnce /\ LastWorks
<1>1. Init => Inv
  BY CurrentInit
<1>2. Serial /\ Inv /\ [Next]_vars => Inv'
  BY CurrentStep DEF Serial
<1>3. Serial /\ Inv => Base /\ Current /\ ResetOnce /\ LastWorks
  BY DEF Serial
<1> HIDE DEF Inv
<1>4. QED BY <1>1, <1>2, <1>3, SerialInvariant, PTL DEF Spec

\* With one replica, a mailed token changes a password once: no save of an entity
\* that was loaded before brings it back, and no two rows store the same one.
THEOREM ResetsAreUsedOnce == OneReplica => (Spec => []ResetOnce)
<1> SUFFICES ASSUME OneReplica PROVE Spec => []ResetOnce
  OBVIOUS
<1>1. QED BY CurrentInvariant, PTL

\* With one replica, the last token mailed to a user is the one stored, until it
\* is used.
THEOREM LastMailsWork == OneReplica => (Spec => []LastMailWorks)
<1> SUFFICES ASSUME OneReplica PROVE Spec => []LastMailWorks
  OBVIOUS
<1>1. Base /\ Current /\ ResetOnce /\ LastWorks => LastMailWorks
  BY DEF Current, EventsAreOfUsers, LastWorks, LastOne, Works, Stored, LastMailWorks, Mails
<1>2. QED BY <1>1, CurrentInvariant, PTL

\* With one replica, the last event about a user carries the profile and the email
\* the table holds, but for an administrator's email the seed has put back.
THEOREM LastEventsAreCurrent == OneReplica => (Spec => []LastEventIsCurrent)
<1> SUFFICES ASSUME OneReplica PROVE Spec => []LastEventIsCurrent
  OBVIOUS
<1>1. Base /\ Current /\ ResetOnce /\ LastWorks => LastEventIsCurrent
  BY DEF Current, EventsAreOfUsers, Announced, Says, LastEventIsCurrent, Announcements
<1>2. QED BY <1>1, CurrentInvariant, PTL
=============================================================================
