----------------------------- MODULE MCContainers -----------------------------
(***************************************************************************)
(* The containers of the nodes of a tree: registered arrays on two forests *)
(* or, in behaviors of their own since neither looks at the other,         *)
(* intrusive lists, two of them as in insertTree().                        *)
(***************************************************************************)
EXTENDS RegisteredArrays, IntrusiveLists, TLC

\* Tables that are always full.
TightTable(n) == n

InitAll == Init /\ ListsInit

NextAll ==
  \/ ListsInit /\ Next /\ UNCHANGED links
  \/ Init /\ ListsNext /\ UNCHANGED vars

SpecAll == InitAll /\ [][NextAll]_<<vars, links>>

\* What is left of ended forests and arrays and of erased entries is not read.
WithoutLeftovers ==
  <<next, [r \in Registries |-> IF Exists(r) THEN size[r] ELSE 0], list,
    [e \in Entries |-> IF e \in FreeEntries(list) THEN Nil ELSE entry[e]],
    array, keys,
    [a \in Arrays |-> IF Lives(a) /\ array[a].reg # Nil THEN promised[a] ELSE <<>>],
    links>>

Alike == Permutations(Registries) \cup Permutations(Arrays) \cup Permutations(Values)
=============================================================================
