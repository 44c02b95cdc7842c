--------------------------- MODULE MCNotifications ---------------------------
(* An event that the relay may put twice, two replicas, and one more handler *)
(* than connections, so that a handler can outlive its connection.           *)
EXTENDS Notifications

CONSTANTS resetRequested, k1, k2, k3

MCMsg == {resetRequested}
MCSlot == {k1, k2, k3}
=============================================================================
