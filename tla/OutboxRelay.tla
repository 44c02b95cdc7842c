----------------------------- MODULE OutboxRelay -----------------------------
(***************************************************************************)
(* The transactional outbox of one service (auth or farms) and the relays   *)
(* that drain it: libs/common/src/outbox and its two subclasses.            *)
(*                                                                         *)
(* A row of the outbox table is named by its id.  Producers insert a row in *)
(* the transaction of their domain write (enqueue) and commit or abort it.  *)
(* A relay is one replica's scheduler tick: it opens a transaction, takes   *)
(* the lowest pending rows nobody has locked, emits each to every target of *)
(* its pattern, marks it, and commits.  The locks (held) and the uncommitted *)
(* UPDATEs (marks, bumps) live in the database session and vanish with it;  *)
(* the loop's position (todo, pos) lives in the process.                     *)
(***************************************************************************)
EXTENDS Naturals, Sequences, FiniteSets

CONSTANTS Relay,      \* replicas of the service, each with its own tick
          Pattern,    \* event patterns that may be enqueued
          Target,     \* queues an event can be emitted to
          Route,      \* clientsFor: the targets of each pattern, in order
          BatchSize,  \* LIMIT of the poll (BATCH_SIZE)
          MaxRow,     \* bound: rows ever inserted
          MaxFaults   \* bound: crashes, lost sessions and failed emits

\* A routing table lists a client once per pattern.
ASSUME RelayAssumption ==
  /\ MaxRow \in Nat
  /\ MaxFaults \in Nat
  /\ BatchSize \in Nat \ {0}
  /\ Pattern # {}
  /\ Route \in [Pattern -> Seq(Target)]
  /\ \A p \in Pattern : \A i, j \in 1..Len(Route[p]) :
        Route[p][i] = Route[p][j] => i = j

VARIABLES
  status,   \* of each row: how far its transaction and its publishing are
  pattern,  \* of each row, once inserted
  attempts, \* of each row, as committed
  enabled,  \* the operational switch (OUTBOX_RELAY_ENABLED)
  phase,    \* of each relay; "orphaned": its loop runs, its session is gone
  held,     \* rows locked FOR UPDATE by each relay's session
  marks,    \* rows each session has set publishedAt on, uncommitted
  bumps,    \* rows each session has bumped attempts on, uncommitted
  todo,     \* rows the relay's loop has still to handle
  pos,      \* index in the route of the next emit of the current row
  sent,     \* how often each row was put on each target's queue
  faults    \* disturbances so far

rows == <<status, pattern, attempts>>
session == <<held, marks, bumps>>
loop == <<todo, pos>>
vars == <<rows, enabled, phase, session, loop, sent, faults>>

Row == 1..MaxRow
Status == {"free", "open", "aborted", "pending", "published"}

TypeOK ==
  /\ status \in [Row -> Status]
  /\ pattern \in [Row -> Pattern]
  /\ attempts \in [Row -> Nat]
  /\ enabled \in BOOLEAN
  /\ phase \in [Relay -> {"idle", "draining", "orphaned"}]
  /\ held \in [Relay -> SUBSET Row]
  /\ marks \in [Relay -> SUBSET Row]
  /\ bumps \in [Relay -> SUBSET Row]
  /\ todo \in [Relay -> SUBSET Row]
  /\ pos \in [Relay -> Nat \ {0}]
  /\ sent \in [Row -> [Target -> Nat]]
  /\ faults \in Nat

Init ==
  /\ status = [r \in Row |-> "free"]
  /\ pattern = [r \in Row |-> CHOOSE p \in Pattern : TRUE]
  /\ attempts = [r \in Row |-> 0]
  /\ enabled = TRUE
  /\ phase = [w \in Relay |-> "idle"]
  /\ held = [w \in Relay |-> {}]
  /\ marks = [w \in Relay |-> {}]
  /\ bumps = [w \in Relay |-> {}]
  /\ todo = [w \in Relay |-> {}]
  /\ pos = [w \in Relay |-> 1]
  /\ sent = [r \in Row |-> [t \in Target |-> 0]]
  /\ faults = 0
-----------------------------------------------------------------------------
(* Producers.  Ids are handed out in order, but transactions may commit in   *)
(* any order, so a poll can see row 2 before row 1 exists for it.            *)

Enqueue(r, p) ==
  /\ status[r] = "free"
  /\ \A q \in Row : q < r => status[q] # "free"
  /\ status' = [status EXCEPT ![r] = "open"]
  /\ pattern' = [pattern EXCEPT ![r] = p]
  /\ UNCHANGED <<attempts, enabled, phase, session, loop, sent, faults>>

CommitWrite(r) ==
  /\ status[r] = "open"
  /\ status' = [status EXCEPT ![r] = "pending"]
  /\ UNCHANGED <<pattern, attempts, enabled, phase, session, loop, sent, faults>>

AbortWrite(r) ==
  /\ status[r] = "open"
  /\ status' = [status EXCEPT ![r] = "aborted"]
  /\ UNCHANGED <<pattern, attempts, enabled, phase, session, loop, sent, faults>>

\* The operator flips the switch; a drain in progress is not interrupted.
FlipSwitch ==
  /\ enabled' = ~enabled
  /\ UNCHANGED <<rows, phase, session, loop, sent, faults>>
-----------------------------------------------------------------------------
(* The relay.                                                               *)

RouteOf(r) == Route[pattern[r]]

\* ORDER BY id LIMIT BatchSize over a set of candidate rows.
Lowest(S) == {r \in S : Cardinality({q \in S : q < r}) < BatchSize}

Locked == UNION {held[w] : w \in Relay}

\* Mutants of Candidates: a poll that takes locked rows, one that sees
\* uncommitted rows, and one that gives a row a single attempt.
CandidatesUnlocked == {r \in Row : status[r] = "pending"}
CandidatesUncommitted == {r \in Row : status[r] \in {"open", "pending"}} \ Locked
CandidatesOnce == {r \in Row : status[r] = "pending" /\ attempts[r] = 0} \ Locked

\* WHERE "publishedAt" IS NULL ... FOR UPDATE SKIP LOCKED.
Candidates == {r \in Row : status[r] = "pending"} \ Locked

\* The loop goes through its rows by ascending id.
IsCurrent(w, r) == r \in todo[w] /\ \A q \in todo[w] : r <= q

\* Mutant of NextRow: the position in the route outlives the row.
NextRowKeepsPos(w, r) == /\ todo' = [todo EXCEPT ![w] = @ \ {r}]
                         /\ UNCHANGED pos

NextRow(w, r) == /\ todo' = [todo EXCEPT ![w] = @ \ {r}]
                 /\ pos' = [pos EXCEPT ![w] = 1]

\* The session is gone: its locks and its uncommitted UPDATEs with it.
DropSession(w) == /\ held' = [held EXCEPT ![w] = {}]
                  /\ marks' = [marks EXCEPT ![w] = {}]
                  /\ bumps' = [bumps EXCEPT ![w] = {}]

\* The drain is over for this process, whatever became of its transaction.
EndDrain(w) == /\ phase' = [phase EXCEPT ![w] = "idle"]
               /\ todo' = [todo EXCEPT ![w] = {}]
               /\ pos' = [pos EXCEPT ![w] = 1]
               /\ DropSession(w)

\* A tick: the switch is on and no drain of this process is under way.
BeginDrain(w) ==
  /\ enabled
  /\ phase[w] = "idle"
  /\ phase' = [phase EXCEPT ![w] = "draining"]
  /\ held' = [held EXCEPT ![w] = Lowest(Candidates)]
  /\ todo' = [todo EXCEPT ![w] = Lowest(Candidates)]
  /\ UNCHANGED <<rows, enabled, marks, bumps, pos, sent, faults>>

\* No target for the pattern: logged, left pending, on to the next row.
SkipUnrouted(w, r) ==
  /\ IsCurrent(w, r)
  /\ RouteOf(r) = <<>>
  /\ NextRow(w, r)
  /\ UNCHANGED <<rows, enabled, phase, session, sent, faults>>

Put(r, t) == sent' = [sent EXCEPT ![r][t] = @ + 1]

\* One awaited emit that the broker confirmed.
Emit(w, r) ==
  /\ IsCurrent(w, r)
  /\ pos[w] <= Len(RouteOf(r))
  /\ Put(r, RouteOf(r)[pos[w]])
  /\ pos' = [pos EXCEPT ![w] = @ + 1]
  /\ UNCHANGED <<rows, enabled, phase, session, todo, faults>>

\* An emit that rejects, the message having reached the broker or not.  With
\* the session alive attempts is bumped and the loop goes on with the next
\* row; without it the bump fails too and the drain ends.
EmitFails(w, r) ==
  /\ faults < MaxFaults
  /\ faults' = faults + 1
  /\ IsCurrent(w, r)
  /\ pos[w] <= Len(RouteOf(r))
  /\ UNCHANGED sent \/ Put(r, RouteOf(r)[pos[w]])
  /\ \/ /\ phase[w] = "draining"
        /\ bumps' = [bumps EXCEPT ![w] = @ \cup {r}]
        /\ NextRow(w, r)
        /\ UNCHANGED <<phase, held, marks>>
     \/ /\ phase[w] = "orphaned"
        /\ EndDrain(w)
  /\ UNCHANGED <<rows, enabled>>

\* Mutant of FullyEmitted: the last target is not awaited.
FullyEmittedEarly(w, r) == RouteOf(r) # <<>> /\ pos[w] >= Len(RouteOf(r))

FullyEmitted(w, r) == RouteOf(r) # <<>> /\ pos[w] > Len(RouteOf(r))

\* Mutant of Mark: the row is passed over without being marked.
MarkForgotten(w, r) ==
  /\ phase[w] = "draining"
  /\ IsCurrent(w, r)
  /\ FullyEmitted(w, r)
  /\ NextRow(w, r)
  /\ UNCHANGED <<rows, enabled, phase, session, sent, faults>>

\* Every target has confirmed: publishedAt is set, inside the transaction.
Mark(w, r) ==
  /\ phase[w] = "draining"
  /\ IsCurrent(w, r)
  /\ FullyEmitted(w, r)
  /\ marks' = [marks EXCEPT ![w] = @ \cup {r}]
  /\ NextRow(w, r)
  /\ UNCHANGED <<rows, enabled, phase, held, bumps, sent, faults>>

CommitDrain(w) ==
  /\ phase[w] = "draining"
  /\ todo[w] = {}
  /\ status' = [r \in Row |-> IF r \in marks[w] THEN "published" ELSE status[r]]
  /\ attempts' = [r \in Row |-> IF r \in bumps[w] THEN attempts[r] + 1
                                                  ELSE attempts[r]]
  /\ EndDrain(w)
  /\ UNCHANGED <<pattern, enabled, sent, faults>>

\* The database session dies under a running drain: Postgres rolls it back
\* and releases the locks, the process notices at its next query.
LoseSession(w) ==
  /\ faults < MaxFaults
  /\ faults' = faults + 1
  /\ phase[w] = "draining"
  /\ phase' = [phase EXCEPT ![w] = "orphaned"]
  /\ DropSession(w)
  /\ UNCHANGED <<rows, enabled, loop, sent>>

\* The next query of a drain without a session (the mark, or the commit)
\* throws; drain() logs it and clears the draining flag.
OrphanStops(w) ==
  /\ phase[w] = "orphaned"
  /\ todo[w] = {} \/ \E r \in Row : IsCurrent(w, r) /\ FullyEmitted(w, r)
  /\ EndDrain(w)
  /\ UNCHANGED <<rows, enabled, sent, faults>>

\* The process dies (and restarts), or a query fails and the transaction is
\* rolled back: either way nothing of the drain but its emits remains.
Crash(w) ==
  /\ faults < MaxFaults
  /\ faults' = faults + 1
  /\ phase[w] # "idle"
  /\ EndDrain(w)
  /\ UNCHANGED <<rows, enabled, sent>>
-----------------------------------------------------------------------------
Handle(w, r) == SkipUnrouted(w, r) \/ Emit(w, r) \/ EmitFails(w, r) \/ Mark(w, r)

Produce(r) == \/ \E p \in Pattern : Enqueue(r, p)
              \/ CommitWrite(r)
              \/ AbortWrite(r)

Drain(w) == \/ BeginDrain(w)
            \/ \E r \in Row : Handle(w, r)
            \/ CommitDrain(w)
            \/ LoseSession(w)
            \/ OrphanStops(w)
            \/ Crash(w)

Next == \/ \E r \in Row : Produce(r)
        \/ FlipSwitch
        \/ \E w \in Relay : Drain(w)

Spec == Init /\ [][Next]_vars

\* What a live process keeps doing on its own: the timer ticks and the loop
\* runs to its end.  Producers, operators and faults owe nothing.
Progress(w) == \/ BeginDrain(w)
               \/ \E r \in Row : SkipUnrouted(w, r) \/ Emit(w, r) \/ Mark(w, r)
               \/ CommitDrain(w)
               \/ OrphanStops(w)

FairSpec == Spec /\ \A w \in Relay : WF_vars(Progress(w))
-----------------------------------------------------------------------------
(* Properties.                                                              *)

Accepted == {r \in Row : status[r] \in {"pending", "published"}}
Reached(r) == {t \in Target : sent[r][t] > 0}
TargetsOf(r) == {RouteOf(r)[i] : i \in 1..Len(RouteOf(r))}

\* No event reaches a queue unless the domain write it reports was committed:
\* enqueue and the write share one transaction (outbox.service.ts).
OnlyCommittedSent == \A r \in Row : Reached(r) # {} => r \in Accepted

\* A row marked published has been on the queue of every target of its
\* pattern, whatever crashes, lost sessions and failed emits came between.
PublishedReachedAll ==
  \A r \in Row : status[r] = "published" => TargetsOf(r) \subseteq Reached(r)

\* FOR UPDATE SKIP LOCKED: no two replicas hold the same row, and a row one
\* of them has marked is not up for publishing in another.
NoSharedRow ==
  \A v, w \in Relay : v # w => held[v] \cap held[w] = {}

\* Which rows a relay may touch.  Only a live session holds locks, only on
\* committed unpublished rows, and only rows it holds are marked; the loop of a
\* relay that lost its session still works on committed rows.
Ownership ==
  \A w \in Relay :
    /\ phase[w] # "draining" => held[w] = {}
    /\ phase[w] = "draining" => todo[w] \subseteq held[w]
    /\ phase[w] = "idle" => todo[w] = {}
    /\ todo[w] = {} => pos[w] = 1
    /\ marks[w] \subseteq held[w]
    /\ \A r \in held[w] : status[r] = "pending"
    /\ todo[w] \subseteq Accepted

\* What has been emitted so far: the first targets of the row at hand, every
\* target of a marked row.
EmittedBy(w) ==
  /\ \A r \in todo[w] : IsCurrent(w, r) =>
       \A i \in 1..Len(RouteOf(r)) :
          i < pos[w] => RouteOf(r)[i] \in Reached(r)
  /\ \A r \in marks[w] : TargetsOf(r) \subseteq Reached(r)
EmittedSoFar == \A w \in Relay : EmittedBy(w)

\* The inductive invariant behind PublishedReachedAll and NoSharedRow: who
\* owns which row, and what each owner has already put on the queues.
IInv == /\ TypeOK
        /\ Ownership
        /\ NoSharedRow
        /\ EmittedSoFar
        /\ OnlyCommittedSent
        /\ PublishedReachedAll

\* Fan-out is in route order even across re-sends: a later target never has
\* more copies of a row than an earlier one (user.created reaches farms no
\* later than notifications).
FanoutInOrder ==
  \A r \in Row : \A i, j \in 1..Len(RouteOf(r)) :
     i < j => sent[r][RouteOf(r)[j]] <= sent[r][RouteOf(r)[i]]

\* Copies are the price of faults only: without a crash, a lost session or a
\* failed emit each target gets a row once, however many replicas drain.
CopiesNeedFaults ==
  \A r \in Row, t \in Target : sent[r][t] <= 1 + faults

\* Once a row is published nobody emits it again, except a relay that lost
\* its session while it was working on that very row.
PublishedNotResent ==
  [][\A r \in Row : status[r] = "published" /\ sent'[r] # sent[r] =>
       \E w \in Relay : phase[w] = "orphaned" /\ IsCurrent(w, r)]_vars

\* While the switch stays on, every committed row that has a target is
\* published in the end, provided unroutable rows never fill a whole batch:
\* those stay pending at the head of the poll for good.
Unroutable == {r \in Row : status[r] = "pending" /\ RouteOf(r) = <<>>}
EventuallyPublished ==
  <>[]enabled /\ [](Cardinality(Unroutable) < BatchSize) =>
    \A r \in Row :
      (status[r] = "pending" /\ RouteOf(r) # <<>>) ~> status[r] = "published"

\* The abstract promise, and the mapping of the outbox onto it.
Promise == INSTANCE EventDelivery WITH
  Event <- Row,
  Routes <- {Route[p] : p \in Pattern},
  accepted <- Accepted,
  route <- [r \in Row |-> IF r \in Accepted THEN RouteOf(r) ELSE <<>>],
  delivered <- [r \in Row |-> Reached(r)],
  settled <- {r \in Row : status[r] = "published"}

\* Every step of the outbox is a step of EventDelivery or none at all.
Delivers == Promise!Spec
=============================================================================
