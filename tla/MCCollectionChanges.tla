------------------------ MODULE MCCollectionChanges ------------------------
(* Instances of CollectionChanges for TLC. *)
EXTENDS CollectionChanges

(* Lists of these lengths; the entries of list 1 are 11, 12, ...           *)
Scenario(order, lengths, query, rows, changes, touched) ==
  [lists |-> order, contents |-> [l \in DOMAIN lengths |-> [k \in 1 .. lengths[l] |-> 10 * l + k]],
   names |-> 10 * Len(lengths) + 5, query |-> query, matching |-> rows,
   links |-> << >>, steps |-> changes, touches |-> touched]

(* One list; two lists, noticed in either order.                           *)
MCLists ==
  {Scenario(<<1>>, <<3>>, "none", {}, 4, 0), Scenario(<<1>>, <<3>>, "none", {}, 3, 1)} \cup
  {Scenario(order, <<1, 1>>, "none", {}, 3, 0) : order \in {<<1, 2>>, <<2, 1>>}}

(* A query in the order of the table, or sorted. *)
MCQueries ==
  {Scenario(<< >>, <<0, 0, 0>>, "in table order", rows, 3, 0) : rows \in SUBSET (1 .. 3)} \cup
  {Scenario(<< >>, <<0, 0, 0>>, "sorted", 1 .. 3, 2, 0),
   Scenario(<< >>, <<0, 0, 0, 0>>, "sorted", 1 .. 4, 1, 0)}

(* A list and a query on the table it is in. *)
MCBoth ==
  {Scenario(<<2>>, <<0, 2>>, "in table order", {1, 2}, 3, 0),
   Scenario(<<2>>, <<0, 2>>, "in table order", {1, 2}, 2, 1),
   Scenario(<<2>>, <<0, 2>>, "sorted", {1, 2}, 2, 1)}

(* A list of objects 11 and 12, which link to each other and to others, in *)
(* one column or in two.                                                   *)
UpToTwo(S) ==
  {<< >>} \cup {<<o>> : o \in S} \cup {<<p[1], p[2]>> : p \in {p \in S \X S : p[1] # p[2]}}

MCLinks ==
  UNION {{[o \in 11 .. 15 |-> <<to[o - 10]>>],
          [o \in 11 .. 15 |-> [k \in DOMAIN to[o - 10] |-> <<to[o - 10][k]>>]]} :
    to \in UpToTwo(12 .. 15) \X UpToTwo({11, 13, 15}) \X {<< >>, <<12>>, <<14>>}
                            \X {<< >>, <<11>>, <<15>>} \X {<< >>}}

MCLinked ==
  {[Scenario(<<1>>, <<2>>, "in table order", {1}, 0, 1) EXCEPT !.links = links] : links \in MCLinks}

MCScenarios == MCLists \cup MCQueries \cup MCBoth \cup MCLinked

MCTwoLists == {Scenario(<<1, 2>>, <<1, 1>>, "none", {}, 3, 0)}
=============================================================================
