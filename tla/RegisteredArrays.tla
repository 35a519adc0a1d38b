--------------------------- MODULE RegisteredArrays ---------------------------
(***************************************************************************)
(* Arrays that map the nodes of a forest to values and grow with it        *)
(* (src/include/pctree/util/RegisteredArray.h, PCRegistry.h and its        *)
(* functions in src/src/PCTreeForest.cpp).                                 *)
(*                                                                         *)
(* A registry, one per forest, has a list of the arrays to resize.  An     *)
(* array keeps an iterator into that list, its registration, which copies, *)
(* moves, initialisations and the ends of arrays and forests must keep in  *)
(* step with the list.  The key of a node is its m_id.                     *)
(*                                                                         *)
(* An iterator is the name of a list entry: it stays valid when others are *)
(* erased.                                                                 *)
(***************************************************************************)
EXTENDS Integers, Sequences

CONSTANTS
  Registries,    \* forests, each with its registry
  Arrays,        \* the array objects
  Entries,       \* names for the entries of the lists
  Values,        \* what is stored in arrays
  Nil,           \* the null pointer
  TableSize(_),  \* calculateTableSize
  MaxIds         \* bound: keys of a forest

ASSUME SizesAssumption ==
  /\ MaxIds \in Nat
  /\ \A n \in 0..MaxIds : TableSize(n) \in Nat /\ TableSize(n) >= n
ArrayType ==
  [reg : Registries \cup {Nil}, at : Entries \cup {Nil},
   data : Seq(Values), default : Values]

ASSUME NamesAssumption ==
  /\ Nil \notin Registries \cup Entries \cup Arrays \cup Values \cup Nat
  /\ Nil \notin ArrayType
  /\ Values # {}

VARIABLES
  next,      \* m_nextNodeId of every forest, Nil for one that does not exist
  size,      \* m_size of every registry
  list,      \* m_registeredArrays: its entries
  entry,     \* the array each entry points to
  array,     \* the fields of every array object, Nil for one that does not exist
  keys,      \* the ids of the nodes of every forest
  promised   \* history: the value a key has to have, Nil if users can rely on none

vars == <<next, size, list, entry, array, keys, promised>>
ghosts == <<keys, promised>>

Keys == 0..MaxIds - 1
Init ==
  /\ next = [r \in Registries |-> Nil]
  /\ size = [r \in Registries |-> 0]
  /\ list = [r \in Registries |-> {}]
  /\ entry = [e \in Entries |-> Nil]
  /\ array = [a \in Arrays |-> Nil]
  /\ keys = [r \in Registries |-> {}]
  /\ promised = [a \in Arrays |-> [k \in Keys |-> CHOOSE v \in Values : TRUE]]

Exists(r) == next[r] # Nil
Lives(a) == array[a] # Nil

FreeEntries(lists) == {e \in Entries : \A r \in Registries : e \notin lists[r]}
NewEntry(lists) == CHOOSE e \in FreeEntries(lists) : TRUE

(***************************************************************************)
(* The parts that the operations of arrays are made of.                    *)
(***************************************************************************)
\* Mutant of Resized: growing gives all values the default.
Resized_Refilled(x, n) == [x EXCEPT !.data = [i \in 1..n |-> x.default]]

\* resize(n, shrink): new values are the default, at the end.
Resized(x, n) ==
  [x EXCEPT !.data = [i \in 1..n |-> IF i <= Len(@) THEN @[i] ELSE x.default]]

\* init(r) up to the registration: all values are the default.
Initialised(x, r) == Resized(Resized(x, 0), IF r = Nil THEN 0 ELSE size[r])

NewArray(default) == [reg |-> Nil, at |-> Nil, data |-> <<>>, default |-> default]

\* The lists without the registration of an array that has the fields x.
Without(x) == [q \in Registries |-> IF q = x.reg THEN list[q] \ {x.at} ELSE list[q]]

\* reregister(r) for the array a, which then has the fields x otherwise.
Reregister(a, x, r) ==
  LET e == NewEntry(Without(x))
  IN  IF r = Nil
      THEN /\ list' = Without(x)
           /\ array' = [array EXCEPT ![a] = [x EXCEPT !.reg = Nil, !.at = Nil]]
           /\ UNCHANGED entry
      ELSE /\ FreeEntries(Without(x)) # {}  \* bound: as many registrations as Entries
           /\ list' = [Without(x) EXCEPT ![r] = @ \cup {e}]
           /\ entry' = [entry EXCEPT ![e] = a]
           /\ array' = [array EXCEPT ![a] = [x EXCEPT !.reg = r, !.at = e]]

\* Mutant of MoveRegister: the entry still points to the old array.
MoveRegister_StaleEntry(a, x, from) ==
  LET y == array[from]
  IN  /\ list' = Without(x)
      /\ entry' = entry
      /\ array' = [array EXCEPT
                     ![a]    = [y EXCEPT !.default = y.default],
                     ![from] = [y EXCEPT !.reg = Nil, !.at = Nil, !.data = <<>>]]

\* moveRegister(from) and the move of data and default that follows it, for an
\* array with the fields x.  A value that was moved from is the same still.
MoveRegister(a, x, from) ==
  LET y == array[from]
  IN  /\ list' = Without(x)
      /\ entry' = IF y.reg = Nil THEN entry ELSE [entry EXCEPT ![y.at] = a]
      /\ array' = [array EXCEPT
                     ![a]    = y,
                     ![from] = [y EXCEPT !.reg = Nil, !.at = Nil, !.data = <<>>]]

\* Every key of array a has to have the value v until it is written.
PromiseAll(a, v) == promised' = [promised EXCEPT ![a] = [k \in Keys |-> v]]

(***************************************************************************)
(* Arrays.                                                                 *)
(***************************************************************************)
Construct(a, r, default) ==
  /\ ~Lives(a) /\ (r # Nil => Exists(r))
  /\ LET x == Initialised(NewArray(default), r)
     IN  Reregister(a, x, r)
  /\ PromiseAll(a, default)
  /\ UNCHANGED <<next, size, keys>>

\* init(r), with the default there is or with a new one
InitArray(a, r, default) ==
  /\ Lives(a) /\ (r # Nil => Exists(r))
  /\ LET x == Initialised([array[a] EXCEPT !.default = default], r)
     IN  Reregister(a, x, r)
  /\ PromiseAll(a, default)
  /\ UNCHANGED <<next, size, keys>>

\* Copy construction, or copy assignment to an array that may be from itself.
Copy(a, from) ==
  /\ Lives(from)
  /\ LET old == IF Lives(a) THEN array[a] ELSE NewArray(array[from].default)
     IN  Reregister(a, [old EXCEPT !.data = array[from].data, !.default = array[from].default],
                    array[from].reg)
  /\ promised' = [promised EXCEPT ![a] = promised[from]]
  /\ UNCHANGED <<next, size, keys>>

\* Move construction or move assignment
Move(a, from) ==
  /\ Lives(from) /\ a # from
  /\ MoveRegister(a, IF Lives(a) THEN array[a] ELSE NewArray(array[from].default), from)
  /\ promised' = [promised EXCEPT ![a] = promised[from]]
  /\ UNCHANGED <<next, size, keys>>

Destruct(a) ==
  /\ Lives(a)
  /\ list' = Without(array[a])
  /\ array' = [array EXCEPT ![a] = Nil]
  /\ UNCHANGED <<next, size, entry, ghosts>>

\* operator[] on a key of the registry, for writing
Write(a, k, v) ==
  /\ Lives(a) /\ array[a].reg # Nil /\ k \in keys[array[a].reg]
  /\ array' = [array EXCEPT ![a].data[k + 1] = v]
  /\ promised' = [promised EXCEPT ![a][k] = v]
  /\ UNCHANGED <<next, size, list, entry, keys>>

\* fillWithDefault(), "overwrites all values with the current default value"
FillWithDefault(a) ==
  /\ Lives(a) /\ array[a].reg # Nil
  /\ LET x == array[a]
     IN  array' = [array EXCEPT ![a].data = [i \in 1..size[x.reg] |-> x.default]]
  /\ PromiseAll(a, array[a].default)
  /\ UNCHANGED <<next, size, list, entry, keys>>

\* The storage of array a has room for a key that no node has yet.
Prepared(a, k) == array[a].reg # Nil /\ k < size[array[a].reg]

\* setDefault(v): new keys get v, but the storage there is already has the old
\* default.
SetDefault(a, v) ==
  /\ Lives(a)
  /\ array' = [array EXCEPT ![a].default = v]
  /\ promised' = [promised EXCEPT ![a] =
       [k \in Keys |-> IF array[a].reg # Nil /\ k \in keys[array[a].reg] THEN @[k]
                       ELSE IF Prepared(a, k) THEN Nil ELSE v]]
  /\ UNCHANGED <<next, size, list, entry, keys>>

(***************************************************************************)
(* Registries.                                                             *)
(***************************************************************************)
NewForest(r) ==
  /\ ~Exists(r)
  /\ next' = [next EXCEPT ![r] = 0]
  /\ size' = [size EXCEPT ![r] = 0]
  /\ keys' = [keys EXCEPT ![r] = {}]
  /\ UNCHANGED <<list, entry, array, promised>>

Registered(r) == {entry[e] : e \in list[r]}

\* Mutant of KeyAdded: a key at the very end of the arrays does not enlarge them.
KeyAdded_Late(r, k, n) ==
  LET wanted == TableSize(n)
  IN  IF k <= size[r] THEN UNCHANGED <<size, array>>
      ELSE /\ size' = [size EXCEPT ![r] = wanted]
           /\ array' = [a \in Arrays |-> IF a \in Registered(r) THEN Resized(array[a], wanted)
                                         ELSE array[a]]

\* keyAdded(k), when the forest's m_nextNodeId is n
KeyAdded(r, k, n) ==
  LET wanted == TableSize(n)
  IN  IF k < size[r] THEN UNCHANGED <<size, array>>
      ELSE /\ size' = [size EXCEPT ![r] = wanted]
           /\ array' = [a \in Arrays |-> IF a \in Registered(r) THEN Resized(array[a], wanted)
                                         ELSE array[a]]

\* newNode: the node gets the next id, or, with keep_ids, the one it had in the
\* tree it is a copy of, which no other node of the forest has.
NewNode(r, k) ==
  /\ Exists(r) /\ k \in Keys \ keys[r]
  /\ LET n == IF next[r] > k + 1 THEN next[r] ELSE k + 1
     IN  next' = [next EXCEPT ![r] = n] /\ KeyAdded(r, k, n)
  /\ keys' = [keys EXCEPT ![r] = @ \cup {k}]
  /\ UNCHANGED <<list, entry, promised>>

\* The constructor from a string with keep_ids begins with the highest id, and
\* creates the nodes in the order of the string.
BeginKeepIds(r, n) ==
  /\ Exists(r) /\ n \in Keys /\ n >= next[r]
  /\ next' = [next EXCEPT ![r] = n + 1]
  /\ UNCHANGED <<size, list, entry, array, keys, promised>>

\* PCTreeForest::clear() does not tell the registry: the arrays keep what was
\* written for the nodes there were.
Clear(r) ==
  /\ Exists(r)
  /\ next' = [next EXCEPT ![r] = 0]
  /\ keys' = [keys EXCEPT ![r] = {}]
  /\ promised' = [a \in Arrays |->
       IF Lives(a) /\ array[a].reg = r
       THEN [k \in Keys |-> IF Prepared(a, k) THEN Nil ELSE array[a].default]
       ELSE promised[a]]
  /\ UNCHANGED <<size, list, entry, array>>

\* unregister()
Unregistered(x) == [Resized(x, 0) EXCEPT !.reg = Nil, !.at = Nil]

\* The forest ends, and its registry unregisters all arrays.
DestroyForest(r) ==
  /\ Exists(r)
  /\ next' = [next EXCEPT ![r] = Nil]
  /\ list' = [list EXCEPT ![r] = {}]
  /\ array' = [a \in Arrays |-> IF a \in Registered(r) THEN Unregistered(array[a])
                                ELSE array[a]]
  /\ keys' = [keys EXCEPT ![r] = {}]
  /\ UNCHANGED <<size, entry, promised>>

Next ==
  \/ \E a \in Arrays, r \in Registries \cup {Nil}, v \in Values :
       Construct(a, r, v) \/ InitArray(a, r, v)
  \/ \E a, from \in Arrays : Copy(a, from) \/ Move(a, from)
  \/ \E a \in Arrays : Destruct(a) \/ FillWithDefault(a)
  \/ \E a \in Arrays, k \in Keys, v \in Values : Write(a, k, v)
  \/ \E a \in Arrays, v \in Values : SetDefault(a, v)
  \/ \E r \in Registries : NewForest(r) \/ Clear(r) \/ DestroyForest(r)
  \/ \E r \in Registries, k \in Keys : NewNode(r, k) \/ BeginKeepIds(r, k)

Spec == Init /\ [][Next]_vars
-----------------------------------------------------------------------------
TypeOK ==
  /\ next \in [Registries -> Nat \cup {Nil}]
  /\ size \in [Registries -> Nat]
  /\ list \in [Registries -> SUBSET Entries]
  /\ entry \in [Entries -> Arrays \cup {Nil}]
  /\ array \in [Arrays -> ArrayType \cup {Nil}]
  /\ keys \in [Registries -> SUBSET Keys]
  /\ promised \in [Arrays -> [Keys -> Values \cup {Nil}]]

\* Lists and arrays agree after any copies, moves and ends of either: the
\* iterator of an array is an entry of its registry's list that points to the
\* array, and no list has an entry for an array that is gone or elsewhere.  A
\* wrong entry is a write to memory that is not the array's any more.
RegistrationsExact ==
  /\ \A a \in Arrays : Lives(a) =>
       LET r == array[a].reg
           e == array[a].at
       IN  IF r = Nil THEN e = Nil ELSE Exists(r) /\ e \in list[r] /\ entry[e] = a
  /\ \A r \in Registries : \A e \in list[r] :
       /\ entry[e] # Nil /\ Lives(entry[e])
       /\ array[entry[e]].reg = r /\ array[entry[e]].at = e

\* Every array of a registry has the size the registry believes all of them to
\* have, whenever it came to the registry; one that lost its registry is empty.
SizesFollow ==
  \A a \in Arrays : Lives(a) =>
    Len(array[a].data) = IF array[a].reg = Nil THEN 0 ELSE size[array[a].reg]

\* Whatever was created, cleared or copied with its ids, every array of a forest
\* has room for every node of it, and the next id is above all ids in use.
KeysCovered ==
  \A r \in Registries : \A k \in keys[r] :
    /\ k < next[r] /\ k < size[r]
    /\ \A a \in Arrays : Lives(a) /\ array[a].reg = r => k < Len(array[a].data)

\* What is read for a node is what was last written for it, or else the default,
\* whenever the storage for it was made, enlarged, copied or moved.
PromisesKept ==
  \A a \in Arrays : Lives(a) =>
    \A r \in Registries : array[a].reg = r =>
      \A k \in keys[r] :
        promised[a][k] # Nil => array[a].data[k + 1] = promised[a][k]
=============================================================================
