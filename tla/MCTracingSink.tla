---------------------------- MODULE MCTracingSink ----------------------------
(* Two replicas of tracing, an event published up to twice, and two       *)
(* handlers, one of which may have outlived its connection.                  *)
EXTENDS TracingSink

CONSTANTS crop, k1, k2

MCMsg == {crop}
MCSlot == {k1, k2}
MCStoreFaults == StoreFault
=============================================================================
