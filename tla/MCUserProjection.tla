-------------------------- MODULE MCUserProjection --------------------------
(* One replica of auth and of farms, as they are deployed, and one user with *)
(* up to three states; user.created also goes to notifications, user.updated *)
(* to farms only, as in AuthOutboxRelayService.                              *)
EXTENDS UserProjection, TLC

CONSTANTS w1, c1, farms, notifications, created, updated

MCRelay == {w1}
MCConsumer == {c1}
MCTarget == {farms, notifications}
MCPattern == {created, updated}
MCRoute == created :> <<farms, notifications>> @@ updated :> <<farms>>
=============================================================================
