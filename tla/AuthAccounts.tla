---------------------------- MODULE AuthAccounts ----------------------------
(***************************************************************************)
(* The auth service: registration, login, refresh-token rotation, password  *)
(* reset and profile changes, as the handlers of the consumer in            *)
(* RmqConsumer, and the administrator seed that runs at every start.  The   *)
(* users table is in Postgres, with an outbox row in the transaction of     *)
(* some of its writes; the refresh-token allowlist is in Redis.  A handler  *)
(* reads and writes in separate queries, and "save" of a loaded entity      *)
(* writes back every column that was loaded (all but the password, which is *)
(* select: false).                                                          *)
(*                                                                         *)
(* Users, tokens and mails are numbered as they are made.  Signatures,      *)
(* expiry and hashing are left out: a token is valid if it was minted.      *)
(***************************************************************************)
EXTENDS RmqConsumer, Sequences

CONSTANTS MaxUser,     \* bound: users ever inserted
          Email,
          Profile,     \* what else a user can set about themselves
          Secret,      \* passwords
          Admins,      \* {ADMIN_EMAIL}, or {} if it is not configured
          AdminSecret, \* ADMIN_PASSWORD
          AdminProfile,\* the name the seed gives the administrator
          MaxToken,    \* bound: refresh tokens minted, and reset mails
          Detach       \* whether a connection may be lost under a handler

Op == {"register", "login", "refresh", "forgot", "reset", "update", "upload"}
Number == 1..MaxToken
User == 1..MaxUser

\* Every request has the same fields; an operation ignores those it does not
\* take.  "user" is the one of the bearer token, "token" the refresh token or
\* the mailed token presented.  An update that leaves the email as it is names
\* the present one.
Request == [op : Op, user : User, email : Email, secret : Secret,
            profile : Profile, token : Number]

ASSUME AccountsAssumption ==
  /\ MaxToken \in Nat \ {0} /\ MaxUser \in Nat \ {0}
  /\ Detach \in BOOLEAN
  /\ Admins \subseteq Email
  /\ AdminSecret \in Secret /\ AdminProfile \in Profile
  /\ Msg \subseteq Request
  /\ Rpc = Msg
  /\ Guarded = {}

VARIABLES
  users,  \* the users table by id
  events, \* outbox rows, in the order of their commits
  allow,  \* refresh tokens on the allowlist
  parent, \* of each minted refresh token: the one it was rotated from, or 0
  spent,  \* how often each mailed token has changed a password
  seen,   \* the entity each handler has loaded
  who,    \* and its id, or 0
  step,   \* where it is
  seed    \* where the administrator seed is, and the id it has found, or 0

store == <<users, events, allow, parent, spent>>
local == <<seen, who, step>>
accountVars == <<store, local, seed>>
vars == <<rmqVars, accountVars>>

Absent == [absent |-> TRUE]
Account == [email : Email, secret : Secret, profile : Profile, rol : {"none", "admin"},
            reset : 0..MaxToken]
Event == [kind : {"created", "updated"}, user : User, email : Email,
          profile : Profile, rol : {"none", "admin"}]
         \cup [kind : {"reset"}, user : User, email : Email, token : Number]

TypeOK ==
  /\ RmqTypeOK
  /\ users \in [User -> Account \cup {Absent}]
  /\ events \in Seq(Event)
  /\ allow \in SUBSET Number
  /\ parent \in Seq(0..MaxToken)
  /\ spent \in [Number -> Nat]
  /\ seen \in [Slot -> Account \cup {Absent}]
  /\ who \in [Slot -> User \cup {0}]
  /\ step \in [Slot -> {"start", "checked", "loaded", "revoked"}]
  /\ seed \in [at : {"due", "create", "reconcile", "done"}, user : User \cup {0}]

Init ==
  /\ RmqInit
  /\ users = [u \in User |-> Absent]
  /\ events = <<>>
  /\ allow = {}
  /\ parent = <<>>
  /\ spent = [n \in Number |-> 0]
  /\ seen = [k \in Slot |-> Absent]
  /\ who = [k \in Slot |-> 0]
  /\ step = [k \in Slot |-> "start"]
  /\ seed = [at |-> "due", user |-> 0]
-----------------------------------------------------------------------------
req(k) == run[k].msg
Registered(u) == users[u] # Absent
UsersWith(e) == {u \in User : Registered(u) /\ users[u].email = e}
Awaits(k, op, s) == At(k, "running") /\ req(k).op = op /\ step[k] = s

\* The unique constraint on the email, for a row u.
Permitted(u, e) == UsersWith(e) \subseteq {u}

Goes(k, s) == step' = [step EXCEPT ![k] = s]
Forget(k) == /\ step' = [step EXCEPT ![k] = "start"]
             /\ seen' = [seen EXCEPT ![k] = Absent]
             /\ who' = [who EXCEPT ![k] = 0]
Return(k) == HandlerReturns(k) /\ Forget(k)
Throw(k) == HandlerThrows(k) /\ Forget(k)
Write(u, a) == Permitted(u, a.email) /\ users' = [users EXCEPT ![u] = a]

\* Accounts are never deleted.
NextId == Cardinality({u \in User : Registered(u)}) + 1
Insert(a) == NextId \in User /\ Write(NextId, a)
Announce(kind, u, a) ==
  events' = Append(events, [kind |-> kind, user |-> u, email |-> a.email,
                            profile |-> a.profile, rol |-> a.rol])

Mails == {i \in 1..Len(events) : events[i].kind = "reset"}
Mailed(t) == CHOOSE i \in Mails : events[i].token = t
Announcements(u) ==
  {i \in 1..Len(events) : events[i].kind # "reset" /\ events[i].user = u}

\* A check passed: go on without having changed anything.
Proceed(k, s) == Goes(k, s) /\ UNCHANGED <<rmqVars, store, seen, who, seed>>

\* A query found row u: the entity is kept until the handler has written.
Find(k, u, s) == /\ Registered(u)
                 /\ seen' = [seen EXCEPT ![k] = users[u]]
                 /\ who' = [who EXCEPT ![k] = u]
                 /\ Goes(k, s)
                 /\ UNCHANGED <<rmqVars, store, seed>>

\* What save makes of a loaded entity that was changed to a: the columns that
\* were not loaded keep what the row has now.
SavedAs(k, a) == [a EXCEPT !.secret = users[who[k]].secret]
-----------------------------------------------------------------------------
(* register: the email is free; hash; insert with its event.                *)

CheckFree(k) == /\ Awaits(k, "register", "start")
                /\ UsersWith(req(k).email) = {}
                /\ Proceed(k, "checked")

Register(k) ==
  LET a == [email |-> req(k).email, secret |-> req(k).secret,
            profile |-> req(k).profile, rol |-> "none", reset |-> 0]
  IN  /\ Awaits(k, "register", "checked")
      /\ Insert(a)
      /\ Announce("created", NextId, a)
      /\ Return(k)
      /\ UNCHANGED <<allow, parent, spent, seed>>

(* login and refresh.  Mint is issueRefreshToken: a fresh id is allowed.    *)

\* Mutant of Mint: the new token is allowed under its predecessor's id.
MintReuses(k, from) == /\ Len(parent) < MaxToken
                       /\ parent' = Append(parent, from)
                       /\ allow' = allow \cup {Len(parent) + 1, from}
                       /\ Return(k)
                       /\ UNCHANGED <<users, events, spent, seed>>

Mint(k, from) == /\ Len(parent) < MaxToken
                 /\ parent' = Append(parent, from)
                 /\ allow' = allow \cup {Len(parent) + 1}
                 /\ Return(k)
                 /\ UNCHANGED <<users, events, spent, seed>>

CheckPassword(k) == /\ Awaits(k, "login", "start")
                    /\ \E u \in UsersWith(req(k).email) :
                         users[u].secret = req(k).secret
                    /\ Proceed(k, "checked")

Login(k) == Awaits(k, "login", "checked") /\ Mint(k, 0)

CheckToken(k) == /\ Awaits(k, "refresh", "start")
                 /\ req(k).token \in allow
                 /\ Proceed(k, "checked")

\* Mutant of Revoke: the presented token stays on the allowlist.
RevokeNothing(k) == /\ Awaits(k, "refresh", "checked")
                    /\ Goes(k, "revoked")
                    /\ UNCHANGED <<rmqVars, store, seen, who, seed>>

Revoke(k) == /\ Awaits(k, "refresh", "checked")
             /\ allow' = allow \ {req(k).token}
             /\ Goes(k, "revoked")
             /\ UNCHANGED <<rmqVars, users, events, parent, spent, seen, who, seed>>

Rotate(k) == Awaits(k, "refresh", "revoked") /\ Mint(k, req(k).token)

(* forgotPassword: an unknown email gets the same answer; otherwise the      *)
(* token's hash and the mail are committed together.                         *)

NobodyToMail(k) == /\ Awaits(k, "forgot", "start")
                   /\ UsersWith(req(k).email) = {}
                   /\ Return(k)
                   /\ UNCHANGED <<store, seed>>

FindMail(k) == /\ Awaits(k, "forgot", "start")
               /\ \E u \in UsersWith(req(k).email) : Find(k, u, "checked")

Mail(k, t) ==
  events' = Append(events, [kind |-> "reset", user |-> who[k],
                            email |-> seen[k].email, token |-> t])

\* Mutant of MailReset: the mail is enqueued but the hash is not stored.
MailResetUnstored(k) ==
  LET t == Cardinality(Mails) + 1
  IN  /\ Awaits(k, "forgot", "checked")
      /\ t \in Number
      /\ Mail(k, t)
      /\ Return(k)
      /\ UNCHANGED <<users, allow, parent, spent, seed>>

MailReset(k) ==
  LET t == Cardinality(Mails) + 1
  IN  /\ Awaits(k, "forgot", "checked")
      /\ t \in Number
      /\ Write(who[k], [users[who[k]] EXCEPT !.reset = t])
      /\ Mail(k, t)
      /\ Return(k)
      /\ UNCHANGED <<allow, parent, spent, seed>>

(* resetPassword: whoever has the email the token was mailed to has it       *)
(* stored; hash; then repository.update, which loads the entity and saves    *)
(* it.                                                                       *)

CheckReset(k) == /\ Awaits(k, "reset", "start")
                 /\ \E u \in UsersWith(events[Mailed(req(k).token)].email) :
                      /\ users[u].reset = req(k).token
                      /\ Find(k, u, "checked")

LoadForReset(k) == Awaits(k, "reset", "checked") /\ Find(k, who[k], "loaded")

\* Mutant of SaveReset: the token is not cleared.
SaveResetKeepsToken(k) ==
  /\ Awaits(k, "reset", "loaded")
  /\ Write(who[k], [seen[k] EXCEPT !.secret = req(k).secret])
  /\ spent' = [spent EXCEPT ![req(k).token] = @ + 1]
  /\ Return(k)
  /\ UNCHANGED <<events, allow, parent, seed>>

SaveReset(k) ==
  /\ Awaits(k, "reset", "loaded")
  /\ Write(who[k], [seen[k] EXCEPT !.secret = req(k).secret, !.reset = 0])
  /\ spent' = [spent EXCEPT ![req(k).token] = @ + 1]
  /\ Return(k)
  /\ UNCHANGED <<events, allow, parent, seed>>

(* updateUserInfo, and uploadUserImage with its upload between load and save. *)

LoadForUpdate(k) == Awaits(k, "update", "start") /\ Find(k, req(k).user, "loaded")

Updated(k) == [seen[k] EXCEPT !.email = req(k).email, !.profile = req(k).profile]

\* Mutant of SaveUpdate: the event carries the entity as it was loaded.
SaveUpdateStaleEvent(k) ==
  /\ Awaits(k, "update", "loaded")
  /\ Write(who[k], SavedAs(k, Updated(k)))
  /\ Announce("updated", who[k], seen[k])
  /\ Return(k)
  /\ UNCHANGED <<allow, parent, spent, seed>>

SaveUpdate(k) ==
  /\ Awaits(k, "update", "loaded")
  /\ Write(who[k], SavedAs(k, Updated(k)))
  /\ Announce("updated", who[k], Updated(k))
  /\ Return(k)
  /\ UNCHANGED <<allow, parent, spent, seed>>

LoadForUpload(k) == Awaits(k, "upload", "start") /\ Find(k, req(k).user, "loaded")

SavePhoto(k) ==
  /\ Awaits(k, "upload", "loaded")
  /\ Write(who[k], SavedAs(k, seen[k]))
  /\ Return(k)
  /\ UNCHANGED <<events, allow, parent, spent, seed>>

\* A check refuses, a constraint rejects (the transaction is rolled back), or
\* a store fails.  uploadUserImage catches that and answers all the same.
Fails(k) ==
  /\ At(k, "running")
  /\ IF req(k).op = "upload" THEN Return(k) ELSE Throw(k)
  /\ UNCHANGED <<store, seed>>
-----------------------------------------------------------------------------
(* CreateUser.run, after the service has started to listen.                  *)

SeedGoes(s, u) == seed' = [at |-> s, user |-> u]

SeedReads ==
  /\ seed.at = "due"
  /\ \/ Admins = {} /\ SeedGoes("done", 0)
     \/ \E e \in Admins :
          \/ UsersWith(e) = {} /\ SeedGoes("create", 0)
          \/ \E u \in UsersWith(e) :
               IF users[u].rol = "admin" /\ users[u].secret = AdminSecret
               THEN SeedGoes("done", 0) ELSE SeedGoes("reconcile", u)
  /\ UNCHANGED <<rmqVars, store, local>>

\* Inserted without an event; the unique email may have been taken since.
SeedCreates ==
  /\ seed.at = "create"
  /\ \E e \in Admins :
       IF UsersWith(e) = {}
       THEN Insert([email |-> e, secret |-> AdminSecret, profile |-> AdminProfile,
                    rol |-> "admin", reset |-> 0])
       ELSE UNCHANGED users
  /\ SeedGoes("done", 0)
  /\ UNCHANGED <<rmqVars, events, allow, parent, spent, local>>

\* Only the columns the seed selected are written, the email among them, and
\* again without an event.
SeedReconciles ==
  /\ seed.at = "reconcile"
  /\ \E e \in Admins :
       IF Permitted(seed.user, e)
       THEN users' = [users EXCEPT ![seed.user] =
              [@ EXCEPT !.email = e, !.rol = "admin", !.secret = AdminSecret]]
       ELSE UNCHANGED users
  /\ SeedGoes("done", 0)
  /\ UNCHANGED <<rmqVars, events, allow, parent, spent, local>>

\* The process dies; the next one seeds again.
Die(k) == Crash(k) /\ Forget(k) /\ SeedGoes("due", 0) /\ UNCHANGED store
-----------------------------------------------------------------------------
Handle(k) ==
  \/ CheckFree(k) \/ Register(k)
  \/ CheckPassword(k) \/ Login(k)
  \/ CheckToken(k) \/ Revoke(k) \/ Rotate(k)
  \/ NobodyToMail(k) \/ FindMail(k) \/ MailReset(k)
  \/ CheckReset(k) \/ LoadForReset(k) \/ SaveReset(k)
  \/ LoadForUpdate(k) \/ SaveUpdate(k)
  \/ LoadForUpload(k) \/ SavePhoto(k)
  \/ Fails(k)

Seed == SeedReads \/ SeedCreates \/ SeedReconciles

\* A client can only present a token it may have been given, and ask for a user
\* that exists.
Known(m) == CASE m.op = "refresh" -> m.token <= Len(parent)
              [] m.op = "reset" -> m.token <= Cardinality(Mails)
              [] m.op \in {"update", "upload"} -> Registered(m.user)
              [] OTHER -> TRUE

Deliveries == \/ \E m \in Msg : Known(m) /\ Publish(m)
              \/ \E k \in Slot, m \in Msg, n \in Count : Deliver(k, m, n)

Around(k) == /\ Settle(k) \/ (Detach /\ LoseConnection(k))
             /\ UNCHANGED accountVars

Next == \/ Deliveries /\ UNCHANGED accountVars
        \/ \E k \in Slot : Handle(k) \/ Around(k) \/ Die(k)
        \/ Seed

Spec == Init /\ [][Next]_vars
-----------------------------------------------------------------------------
\* "A rotated (already-used) or revoked token is no longer present"
\* (auth.service.ts:190): at most one token is minted in exchange for each
\* refresh token, through retries by the client and redeliveries.
RotatedOnce ==
  \A i, j \in 1..Len(parent) : parent[i] = parent[j] /\ i # j => parent[i] = 0

\* A mailed token changes the password once: the save that clears it is not
\* undone by a save of what was loaded before.
ResetOnce == \A n \in Number : spent[n] <= 1

\* "The stored hash and the event carrying the raw token commit together"
\* (auth.service.ts:289-291): the last token mailed to a user is the one stored,
\* until it is used, however saves of older entities interleave.
LastMailWorks ==
  \A i \in Mails :
    (\A j \in Mails : events[j].user = events[i].user => j <= i) =>
      \/ users[events[i].user].reset = events[i].token
      \/ spent[events[i].token] > 0

\* "Kept in sync by consuming user.created/user.updated events"
\* (user-projection.entity.ts:3-6): the last event about a user carries the
\* profile and the email the users table holds, so a reader of the events can be
\* in sync.  Only the seed, which has no events, may have put the
\* administrator's email back since.
LastEventIsCurrent ==
  \A u \in User : \A i \in Announcements(u) :
    (\A j \in Announcements(u) : j <= i) =>
      /\ events[i].profile = users[u].profile
      /\ users[u].email \in {events[i].email} \cup Admins
=============================================================================
