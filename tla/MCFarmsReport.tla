---------------------------- MODULE MCFarmsReport ----------------------------
(* Two farms of two owners, one of them with a crop that has an activity and *)
(* a harvest; a report for all and one for an owner, asked for by the user   *)
(* whom an event makes an admin, and by the owner.                           *)
EXTENDS FarmsReport, TLC

CONSTANTS ann, root, north, south, maize, sown, reaped, k1, k2

MCUser == {ann, root}
MCSlot == {k1, k2}
MCNode == {north, south, maize, sown, reaped}
MCKindOf == north :> "farm" @@ south :> "farm" @@ maize :> "crop"
              @@ sown :> "activity" @@ reaped :> "harvest"
MCParentOf == north :> ann @@ south :> root @@ maize :> north
                @@ sown :> maize @@ reaped :> maize

MCBefore == {MCNode, {north, south}}

MCRpc == {[cmd |-> "getAdminReport", user |-> root],
          [cmd |-> "getFarmerReport", user |-> ann, of |-> ann]}
MCMsg == MCRpc \cup {[cmd |-> "user.updated", user |-> root, of |-> "admin"]}

SlotSymmetry == Permutations(MCSlot)
=============================================================================
