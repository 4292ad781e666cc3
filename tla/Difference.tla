----------------------------- MODULE Difference ----------------------------
(***************************************************************************)
(* What a change set promises (collection_notifications.hpp): how one      *)
(* sequence becomes another. Entries are distinct; indices count from 0.   *)
(***************************************************************************)
EXTENDS Naturals, FiniteSets, Sequences

Indices(s) == 0 .. Len(s) - 1

(* How many indices below one are not left out. *)
Place(left_out, index) == Cardinality({k \in 0 .. index - 1 : k \notin left_out})

(* What is left of the old sequence is what the new one has not inserted,  *)
(* in the same order.                                                      *)
Leads(c, old, new) ==
  /\ c.insertions \subseteq Indices(new)
  /\ Place(c.deletions, Len(old)) = Place(c.insertions, Len(new))
  /\ \A i \in Indices(old) \ c.deletions, j \in Indices(new) \ c.insertions :
        Place(c.deletions, i) = Place(c.insertions, j) => old[i + 1] = new[j + 1]

(* A move is one, and reported as a deletion and an insertion too.         *)
MovesAreMoves(c, old, new) ==
  \A k \in DOMAIN c.moves :
    LET m == c.moves[k]
    IN  /\ m.from \in c.deletions \cap Indices(old)
        /\ m.to \in c.insertions \cap Indices(new)
        /\ old[m.from + 1] = new[m.to + 1]
        /\ \A l \in DOMAIN c.moves \ {k} : c.moves[l].from # m.from

(* An entry that is deleted and inserted is moved.                         *)
MovesAreTold(c, old, new) ==
  \A from \in c.deletions \cap Indices(old), to \in c.insertions \cap Indices(new) :
    old[from + 1] = new[to + 1] =>
      \E k \in DOMAIN c.moves : c.moves[k] = [from |-> from, to |-> to]

(* The entries in places of a sequence. *)
At(s, places) == {s[i + 1] : i \in places \cap Indices(s)}
=============================================================================
