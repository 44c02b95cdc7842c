--------------------------- MODULE UserProjection ---------------------------
(***************************************************************************)
(* auth's outbox, the farms queue it feeds and the user_projection row that *)
(* UserProjectionService.upsert keeps in farms' database: OutboxRelay with  *)
(* the consumer behind one of its targets.  One user is followed; row r of  *)
(* the outbox is the r-th state of that user, so the projection is named by *)
(* the row it was copied from.  The queue is a sequence here, because what  *)
(* is at stake is the order in which the states arrive; a delivery that is  *)
(* requeued goes back to its head, and its handler has died.                *)
(***************************************************************************)
EXTENDS OutboxRelay, SequencesExt

CONSTANTS Farms,        \* the target whose queue feeds the projection
          Created,      \* the pattern of a user's first event, user.created
          Consumer,     \* handler executions of farms, prefetch 1 each
          UpsertFails,  \* whether a handler may throw
          MaxRedeliver  \* bound: deliveries that are requeued unacked

\* Every state of a user goes to farms, whatever other targets it has.
ASSUME ProjectionAssumption ==
  /\ Farms \in Target
  /\ \A p \in Pattern : Farms \in ToSet(Route[p])
  /\ Created \in Pattern
  /\ UpsertFails \in BOOLEAN
  /\ MaxRedeliver \in Nat

VARIABLES
  queue,       \* the farms queue, rows in arrival order
  working,     \* the row each consumer has unacked, 0 if none
  upserted,    \* whether that consumer's upsert has been done
  projection,  \* the row user_projection was last written from, 0 if none
  applied,     \* rows ever written to it
  discarded,   \* rows whose event was nacked without requeue
  redeliveries \* deliveries requeued so far

farmsVars == <<queue, working, upserted, projection, applied, discarded,
               redeliveries>>
allVars == <<vars, farmsVars>>

ProjectionTypeOK ==
  /\ TypeOK
  /\ queue \in Seq(Row)
  /\ working \in [Consumer -> Row \cup {0}]
  /\ upserted \in [Consumer -> BOOLEAN]
  /\ projection \in Row \cup {0}
  /\ applied \subseteq Row
  /\ discarded \subseteq Row
  /\ redeliveries \in Nat

ProjectionInit ==
  /\ Init
  /\ queue = <<>>
  /\ working = [c \in Consumer |-> 0]
  /\ upserted = [c \in Consumer |-> FALSE]
  /\ projection = 0
  /\ applied = {}
  /\ discarded = {}
  /\ redeliveries = 0
-----------------------------------------------------------------------------
(* auth.  A user's writes take turns: the second waits for the row lock of   *)
(* the first.  The first committed write registers the user.                 *)

UserWrite(r, p) ==
  /\ \A q \in Row : status[q] # "open"
  /\ p = Created <=> Accepted = {}
  /\ Enqueue(r, p)

Auth == \/ \E r \in Row : \/ \E p \in Pattern : UserWrite(r, p)
                          \/ CommitWrite(r) \/ AbortWrite(r)
        \/ \E w \in Relay : Drain(w)

\* Whatever a step of auth puts on the farms queue arrives at its tail.
Arrives(r) == sent'[r][Farms] # sent[r][Farms]
AuthStep ==
  /\ Auth
  /\ \/ \E r \in Row : Arrives(r) /\ queue' = Append(queue, r)
     \/ (\A r \in Row : ~Arrives(r)) /\ UNCHANGED queue
  /\ UNCHANGED <<working, upserted, projection, applied, discarded, redeliveries>>
-----------------------------------------------------------------------------
(* farms.                                                                    *)

Release(c) == /\ working' = [working EXCEPT ![c] = 0]
              /\ upserted' = [upserted EXCEPT ![c] = FALSE]

Take(c) ==
  /\ working[c] = 0
  /\ queue # <<>>
  /\ working' = [working EXCEPT ![c] = Head(queue)]
  /\ queue' = Tail(queue)
  /\ UNCHANGED <<vars, upserted, projection, applied, discarded, redeliveries>>

\* Mutant of Upsert: insert or ignore.
UpsertOnce(c) ==
  /\ working[c] # 0 /\ ~upserted[c]
  /\ projection' = IF projection = 0 THEN working[c] ELSE projection
  /\ applied' = applied \cup {working[c]}
  /\ upserted' = [upserted EXCEPT ![c] = TRUE]
  /\ UNCHANGED <<vars, queue, working, discarded, redeliveries>>

\* INSERT ... ON CONFLICT (id) DO UPDATE: the row takes the event's values,
\* whatever it held.
Upsert(c) ==
  /\ working[c] # 0 /\ ~upserted[c]
  /\ projection' = working[c]
  /\ applied' = applied \cup {working[c]}
  /\ upserted' = [upserted EXCEPT ![c] = TRUE]
  /\ UNCHANGED <<vars, queue, working, discarded, redeliveries>>

AckUpsert(c) ==
  /\ working[c] # 0 /\ upserted[c]
  /\ Release(c)
  /\ UNCHANGED <<vars, queue, projection, applied, discarded, redeliveries>>

\* farms is wired without retry and dead-letter queues: a failed event goes.
UpsertThrows(c) ==
  /\ UpsertFails
  /\ working[c] # 0 /\ ~upserted[c]
  /\ discarded' = discarded \cup {working[c]}
  /\ Release(c)
  /\ UNCHANGED <<vars, queue, projection, applied, redeliveries>>

\* Mutants of Redeliver: the delivery is gone with the process; it goes to the
\* tail of the queue.
RedeliverLoses(c) ==
  /\ redeliveries < MaxRedeliver
  /\ redeliveries' = redeliveries + 1
  /\ working[c] # 0
  /\ Release(c)
  /\ UNCHANGED <<vars, queue, projection, applied, discarded>>

RedeliverLast(c) ==
  /\ redeliveries < MaxRedeliver
  /\ redeliveries' = redeliveries + 1
  /\ working[c] # 0
  /\ queue' = Append(queue, working[c])
  /\ Release(c)
  /\ UNCHANGED <<vars, projection, applied, discarded>>

\* farms dies with a delivery unacked: the broker puts it back in its place.
Redeliver(c) ==
  /\ redeliveries < MaxRedeliver
  /\ redeliveries' = redeliveries + 1
  /\ working[c] # 0
  /\ queue' = <<working[c]>> \o queue
  /\ Release(c)
  /\ UNCHANGED <<vars, projection, applied, discarded>>

Consume(c) == Take(c) \/ Upsert(c) \/ AckUpsert(c) \/ UpsertThrows(c)
              \/ Redeliver(c)

ProjectionNext == AuthStep \/ \E c \in Consumer : Consume(c)

ProjectionSpec == ProjectionInit /\ [][ProjectionNext]_allVars

ProjectionFairSpec ==
  /\ ProjectionSpec
  /\ \A w \in Relay : WF_allVars(Progress(w) /\ AuthStep)
  /\ \A c \in Consumer :
       WF_allVars(Take(c) \/ Upsert(c) \/ AckUpsert(c) \/ UpsertThrows(c))
-----------------------------------------------------------------------------
\* No emit was ever repeated or left out, and no handler threw.
Undisturbed == faults = 0 /\ discarded = {}

\* With one replica of each service and nothing re-sent, the projection never
\* goes back to an older state of the user, however often farms dies with an
\* upsert done and not acked.
NeverGoesBack == [][faults = 0 => projection' >= projection]_projection

\* "a redelivered user.created/user.updated event converges instead of
\* duplicating or corrupting the row" (user-projection.service.ts:6-8): an
\* event that was applied before does not put an older state in the row.
RedeliveryConverges ==
  [][\A r \in applied : projection' = r => r >= projection]_projection

\* End to end, across two databases and the broker: a state that auth's outbox
\* holds as published was applied, was discarded by a failing handler, or is
\* still on its way, whatever is redelivered.
PublishedIsProjected ==
  \A r \in Row : status[r] = "published" =>
    \/ r \in applied \/ r \in discarded
    \/ r \in ToSet(queue)
    \/ \E c \in Consumer : working[c] = r

\* Undisturbed, every committed state of the user, or a newer one, is shown in
\* the end.
EventuallyConverged ==
  []Undisturbed => \A r \in Row : status[r] = "pending" ~> projection >= r
=============================================================================
