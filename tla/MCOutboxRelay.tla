---------------------------- MODULE MCOutboxRelay ----------------------------
(* Two replicas of auth draining its outbox: one pattern that fans out, as    *)
(* user.created does, and one that nobody listens to.                        *)
EXTENDS OutboxRelay, TLC

CONSTANTS w1, w2, farms, notifications, created, orphan

MCRelay == {w1, w2}
MCTarget == {farms, notifications}
MCPattern == {created, orphan}
MCRoute == created :> <<farms, notifications>> @@ orphan :> <<>>
=============================================================================
