---------------------------- MODULE MCFarmsDomain ----------------------------
(* Two users with a farm each, and the requests that compete for the names of *)
(* the farms and for one crop.  Which user gets farm 1 is up to the order in  *)
(* which they ask: if it is u2, the requests of u1 are about a stranger's.    *)
EXTENDS FarmsDomain, TLC

CONSTANTS u1, u2, north, south, k1, k2

R(nr, op, t, u, i, v) ==
  [nr |-> nr, kind |-> t, op |-> op, user |-> u, id |-> i, value |-> v]

MCSlot == {k1, k2}
MCUser == {u1, u2}
MCValue == {north, south}

Planted == {R(1, "create", "farm", u1, 1, north),
            R(1, "create", "crop", u1, 1, north)}

MCMsg == Planted \cup
  {R(1, "create", "farm", u2, 1, south),
   R(1, "update", "farm", u1, 1, south),
   R(1, "create", "harvest", u1, 1, north),
   R(1, "upload", "crop", u1, 1, north),
   R(1, "delete", "crop", u1, 1, north)}

TwoHarvests == Planted \cup
  {R(1, "create", "harvest", u1, 1, north),
   R(2, "create", "harvest", u1, 1, north)}

SlotSymmetry == Permutations(MCSlot)
=============================================================================
