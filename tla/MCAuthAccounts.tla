--------------------------- MODULE MCAuthAccounts ---------------------------
(* One account, with the configured administrator's email until it changes    *)
(* it, and the requests that race for its tokens and its columns.  A crash    *)
(* delivers one of them twice and runs the seed again, which then inserts a   *)
(* second account with the email that was given up.                           *)
EXTENDS AuthAccounts, TLC

CONSTANTS ana, ann, old, new, k1, k2

R(op, email, secret, profile) ==
  [op |-> op, user |-> 1, email |-> email, secret |-> secret,
   profile |-> profile, token |-> 1]

MCEmail == {ana, ann}
MCAdmins == {ana}
MCValue == {old, new}
MCSlot == {k1, k2}

MCMsg == {R("register", ana, old, old),
          R("login", ana, old, old), R("refresh", ana, old, old),
          R("forgot", ana, old, old), R("reset", ana, new, old),
          R("update", ann, old, new), R("upload", ana, old, old)}

SlotSymmetry == Permutations(MCSlot)
=============================================================================
