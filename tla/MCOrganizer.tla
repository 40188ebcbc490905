---------------------------- MODULE MCOrganizer ----------------------------
(***************************************************************************)
(* The file organizer for TLC: two folders and a quarantine, three names   *)
(* of which two have the same normal form, and a few layouts: duplicates   *)
(* beside other files, one already in the quarantine, and two files whose  *)
(* names would become the same.                                            *)
(***************************************************************************)
EXTENDS Organizer, TLC

CONSTANTS docs, desk, aside, a_b, a__b, ab \* folders and names

MCNormal == a_b :> ab @@ a__b :> ab @@ ab :> ab
File(c, g) == [content |-> c, age |-> g]
LaidOut(f) == [p \in Paths |-> IF p \in DOMAIN f THEN f[p] ELSE NoFile]
MCLayouts ==
  { LaidOut(<<docs, a_b, 0>> :> File(1, 1) @@ <<desk, a_b, 0>> :> File(1, 2)
              @@ <<desk, ab, 0>> :> File(2, 3) @@ <<docs, ab, 0>> :> File(2, 4)),
    LaidOut(<<docs, a_b, 0>> :> File(1, 3) @@ <<desk, a_b, 0>> :> File(1, 1)
              @@ <<aside, a_b, 0>> :> File(1, 2) @@ <<docs, ab, 0>> :> File(2, 4)),
    LaidOut(<<docs, a_b, 0>> :> File(1, 1) @@ <<docs, a__b, 0>> :> File(2, 2)) }
MCStarts == {{docs, desk}, {docs, desk, aside}}
MCUserPlans ==
  {{[kind |-> "delete", src |-> <<docs, a_b, 0>>, dst |-> <<docs, a_b, 0>>],
    [kind |-> "copy", src |-> <<desk, ab, 0>>, dst |-> <<docs, ab, 0>>]}}
\* The user deletes a file, or writes it anew.
MCUserChanges == {<<docs, a_b, 0>>} \X {NoFile, File(2, 5)}
MCPathOrder ==
  LET folder == docs :> 0 @@ desk :> 9 @@ aside :> 18
      name   == a_b :> 0 @@ a__b :> 3 @@ ab :> 6
  IN  [p \in Paths |-> folder[p[1]] + name[p[2]] + p[3]]

Symmetry == Permutations(Jobs)
=============================================================================
