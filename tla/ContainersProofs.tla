--------------------------- MODULE ContainersProofs ----------------------------
(***************************************************************************)
(* Theorems about the containers of the nodes of a tree.                   *)
(*                                                                         *)
(* RegisteredArrays, for any forests, arrays, entries and values: arrays   *)
(* are as long as their registries need, and a value is what was last      *)
(* written for the entry.                                                  *)
(*                                                                         *)
(* IntrusiveLists, for any finite set of nodes and any lists: the links of *)
(* the nodes are those of the lists there should be.  Neither direction of *)
(* the links is inductive alone: erase() reads both, and a push or a       *)
(* splice writes to a node of one list only because no node is in two      *)
(* places.                                                                 *)
(***************************************************************************)
EXTENDS RegisteredArrays, IntrusiveLists, FiniteSetTheorems, SequenceTheorems, TLAPS

ListsType ==
  /\ list \in [Registries -> SUBSET Entries]
  /\ entry \in [Entries -> Arrays \cup {Nil}]
  /\ array \in [Arrays -> ArrayType \cup {Nil}]

CountsType ==
  /\ next \in [Registries -> 0..MaxIds \cup {Nil}]
  /\ size \in [Registries -> Nat]
  /\ keys \in [Registries -> SUBSET Keys]
  /\ promised \in [Arrays -> [Keys -> Values \cup {Nil}]]

\* What the operations need to know of the lists, the sizes and each other.
Inv == ListsType /\ CountsType /\ RegistrationsExact /\ SizesFollow

\* The registration of an array with the fields x is that of a.
Stands(a, x) ==
  IF Lives(a) THEN x.reg = array[a].reg /\ x.at = array[a].at
  ELSE x.reg = Nil /\ x.at = Nil

(***************************************************************************)
(* The parts of the operations.                                            *)
(***************************************************************************)
\* resize() gives the size it is asked for, keeps what fits and fills up with
\* the default.
LEMMA ResizedRight ==
  ASSUME NEW x \in ArrayType, NEW n \in Nat
  PROVE  /\ Resized(x, n) \in ArrayType
         /\ Len(Resized(x, n).data) = n
         /\ Resized(x, n).reg = x.reg /\ Resized(x, n).at = x.at
         /\ Resized(x, n).default = x.default
         /\ \A i \in 1..n : Resized(x, n).data[i] =
              IF i <= Len(x.data) THEN x.data[i] ELSE x.default
<1> DEFINE d == [i \in 1..n |-> IF i <= Len(x.data) THEN x.data[i] ELSE x.default]
<1>1. Resized(x, n) = [x EXCEPT !.data = d]
  BY DEF Resized
<1>2. d \in Seq(Values) /\ Len(d) = n
  BY DEF ArrayType
<1> HIDE DEF d
<1>3. [x EXCEPT !.data = d].data = d
  BY DEF ArrayType
<1>4. \A i \in 1..n : d[i] = IF i <= Len(x.data) THEN x.data[i] ELSE x.default
  BY DEF d
<1> QED
  BY <1>1, <1>2, <1>3, <1>4 DEF ArrayType

\* init() makes the array as long as the registry says, all default.
LEMMA InitialisedRight ==
  ASSUME CountsType, NEW x \in ArrayType, NEW r \in Registries \cup {Nil}
  PROVE  /\ Initialised(x, r) \in ArrayType
         /\ Len(Initialised(x, r).data) = IF r = Nil THEN 0 ELSE size[r]
         /\ Initialised(x, r).reg = x.reg /\ Initialised(x, r).at = x.at
         /\ Initialised(x, r).default = x.default
         /\ \A i \in 1..Len(Initialised(x, r).data) :
              Initialised(x, r).data[i] = x.default
<1> DEFINE n == IF r = Nil THEN 0 ELSE size[r]
           y == Resized(x, 0)
<1>1. n \in Nat /\ 0 \in Nat
  BY DEF CountsType
<1>2. Initialised(x, r) = Resized(y, n)
  BY DEF Initialised
<1>3. y \in ArrayType /\ Len(y.data) = 0 /\ y.reg = x.reg /\ y.at = x.at /\ y.default = x.default
  BY <1>1, ResizedRight
<1> HIDE DEF n, y
<1>4. /\ Resized(y, n) \in ArrayType /\ Len(Resized(y, n).data) = n
      /\ Resized(y, n).reg = y.reg /\ Resized(y, n).at = y.at
      /\ Resized(y, n).default = y.default
      /\ \A i \in 1..n : Resized(y, n).data[i] =
           IF i <= Len(y.data) THEN y.data[i] ELSE y.default
  BY <1>1, <1>3, ResizedRight
<1>5. \A i \in 1..n : ~(i <= Len(y.data))
  BY <1>1, <1>3
<1>6. n = IF r = Nil THEN 0 ELSE size[r]
  BY DEF n
<1> QED
  BY <1>2, <1>3, <1>4, <1>5, <1>6

\* A new registration replaces the one of the array and disturbs no other.
LEMMA ReregisterRight ==
  ASSUME ListsType, RegistrationsExact,
         NEW a \in Arrays, NEW x \in ArrayType, NEW r \in Registries \cup {Nil},
         Stands(a, x), r # Nil => Exists(r),
         Reregister(a, x, r), UNCHANGED next
  PROVE  /\ ListsType' /\ RegistrationsExact'
         /\ array'[a] \in ArrayType /\ array'[a].reg = r
         /\ array'[a].data = x.data /\ array'[a].default = x.default
         /\ \A b \in Arrays \ {a} : array'[b] = array[b]
<1> DEFINE W == Without(x)
<1>1. /\ W \in [Registries -> SUBSET Entries]
      /\ \A q \in Registries : W[q] = IF q = x.reg THEN list[q] \ {x.at} ELSE list[q]
  BY DEF ListsType, Without
<1>2. \A q \in Registries : \A e \in W[q] :
        /\ entry[e] \in Arrays /\ entry[e] # a /\ e \in list[q]
        /\ Lives(entry[e]) /\ array[entry[e]].reg = q /\ array[entry[e]].at = e
  BY <1>1, NamesAssumption DEF ListsType, RegistrationsExact, Stands, Lives
<1>3. \A b \in Arrays \ {a} : Lives(b) /\ array[b].reg # Nil =>
        /\ array[b].reg \in Registries /\ Exists(array[b].reg)
        /\ array[b].at \in W[array[b].reg] /\ entry[array[b].at] = b
  <2> SUFFICES ASSUME NEW b \in Arrays \ {a}, Lives(b), array[b].reg # Nil
               PROVE  /\ array[b].reg \in Registries /\ Exists(array[b].reg)
                      /\ array[b].at \in W[array[b].reg] /\ entry[array[b].at] = b
    OBVIOUS
  <2>1. /\ array[b].reg \in Registries /\ Exists(array[b].reg)
        /\ array[b].at \in list[array[b].reg] /\ entry[array[b].at] = b
    BY DEF ListsType, RegistrationsExact, Lives, ArrayType
  <2>2. ~(array[b].reg = x.reg /\ array[b].at = x.at)
    BY <2>1, NamesAssumption DEF RegistrationsExact, Stands, Lives
  <2> QED
    BY <1>1, <2>1, <2>2
<1>4. CASE r = Nil
  <2> DEFINE z == [x EXCEPT !.reg = Nil, !.at = Nil]
  <2>1. list' = W /\ array' = [array EXCEPT ![a] = z] /\ entry' = entry
    BY <1>4 DEF Reregister
  <2>2. z \in ArrayType /\ z.reg = Nil /\ z.at = Nil /\ z.data = x.data /\ z.default = x.default
    BY DEF ArrayType
  <2> HIDE DEF z, W
  <2>3. /\ array'[a] = z /\ \A b \in Arrays \ {a} : array'[b] = array[b]
        /\ array' \in [Arrays -> ArrayType \cup {Nil}]
    BY <2>1, <2>2 DEF ListsType
  <2>4. ListsType'
    BY <1>1, <2>1, <2>3 DEF ListsType
  <2>5. RegistrationsExact'
    BY <1>2, <1>3, <2>1, <2>2, <2>3, NamesAssumption DEF RegistrationsExact, Lives, Exists, ListsType
  <2> QED
    BY <1>4, <2>2, <2>3, <2>4, <2>5
<1>5. CASE r # Nil
  <2> DEFINE e == NewEntry(W)
             z == [x EXCEPT !.reg = r, !.at = e]
  <2>1. /\ FreeEntries(W) # {}
        /\ list' = [W EXCEPT ![r] = @ \cup {e}]
        /\ entry' = [entry EXCEPT ![e] = a]
        /\ array' = [array EXCEPT ![a] = z]
    BY <1>5 DEF Reregister
  <2>2. e \in Entries /\ \A q \in Registries : e \notin W[q]
    BY <2>1 DEF NewEntry, FreeEntries
  <2>3. z \in ArrayType /\ z.reg = r /\ z.at = e /\ z.data = x.data /\ z.default = x.default
    BY <2>2 DEF ArrayType
  <2> HIDE DEF z, e, W
  <2>4. /\ array'[a] = z /\ \A b \in Arrays \ {a} : array'[b] = array[b]
        /\ array' \in [Arrays -> ArrayType \cup {Nil}]
    BY <2>1, <2>3 DEF ListsType
  <2>5. /\ list' \in [Registries -> SUBSET Entries]
        /\ list'[r] = W[r] \cup {e}
        /\ \A q \in Registries \ {r} : list'[q] = W[q]
    BY <1>1, <1>5, <2>1, <2>2
  <2>6. /\ entry' \in [Entries -> Arrays \cup {Nil}]
        /\ entry'[e] = a /\ \A f \in Entries \ {e} : entry'[f] = entry[f]
    BY <2>1, <2>2 DEF ListsType
  <2>7. ListsType'
    BY <2>4, <2>5, <2>6 DEF ListsType
  <2>8. \A b \in Arrays : Lives(b)' =>
          LET q == array'[b].reg
              f == array'[b].at
          IN  IF q = Nil THEN f = Nil ELSE next'[q] # Nil /\ f \in list'[q] /\ entry'[f] = b
    <3> SUFFICES ASSUME NEW b \in Arrays, Lives(b)'
                 PROVE  IF array'[b].reg = Nil THEN array'[b].at = Nil
                        ELSE /\ next'[array'[b].reg] # Nil
                             /\ array'[b].at \in list'[array'[b].reg]
                             /\ entry'[array'[b].at] = b
      OBVIOUS
    <3>1. CASE b = a
      BY <1>5, <2>3, <2>4, <2>5, <2>6, <3>1 DEF Exists
    <3>2. CASE b # a
      <4>1. array'[b] = array[b] /\ Lives(b)
        BY <2>4, <3>2 DEF Lives
      <4>2. CASE array[b].reg = Nil
        BY <4>1, <4>2 DEF RegistrationsExact
      <4>3. CASE array[b].reg # Nil
        <5>1. /\ array[b].reg \in Registries /\ Exists(array[b].reg)
              /\ array[b].at \in W[array[b].reg] /\ entry[array[b].at] = b
          BY <1>3, <3>2, <4>1, <4>3
        <5>2. array[b].at \in Entries /\ array[b].at # e
          BY <1>1, <2>2, <5>1
        <5> QED
          BY <4>1, <4>3, <2>5, <2>6, <5>1, <5>2 DEF Exists
      <4> QED
        BY <4>2, <4>3
    <3> QED
      BY <3>1, <3>2
  <2>9. \A q \in Registries : \A f \in list'[q] :
          /\ entry'[f] # Nil /\ array'[entry'[f]] # Nil
          /\ array'[entry'[f]].reg = q /\ array'[entry'[f]].at = f
    <3> SUFFICES ASSUME NEW q \in Registries, NEW f \in list'[q]
                 PROVE  /\ entry'[f] # Nil /\ array'[entry'[f]] # Nil
                        /\ array'[entry'[f]].reg = q /\ array'[entry'[f]].at = f
      BY DEF Lives
    <3>1. CASE f = e
      <4>1. q = r
        BY <2>2, <2>5, <3>1
      <4> QED
        BY <2>3, <2>4, <2>6, <3>1, <4>1, NamesAssumption
    <3>2. CASE f # e
      <4>1. f \in W[q] /\ f \in Entries
        BY <1>1, <2>5, <3>2
      <4> QED
        BY <1>2, <2>4, <2>6, <3>2, <4>1, NamesAssumption DEF Lives
    <3> QED
      BY <3>1, <3>2
  <2>10. RegistrationsExact'
    BY <2>8, <2>9 DEF RegistrationsExact, Lives, Exists
  <2> QED
    BY <2>3, <2>4, <2>7, <2>10
<1> QED
  BY <1>4, <1>5

\* Moving hands the registration over and leaves the source without one.
LEMMA MoveRegisterRight ==
  ASSUME ListsType, RegistrationsExact,
         NEW a \in Arrays, NEW from \in Arrays \ {a}, NEW x \in ArrayType,
         Stands(a, x), Lives(from), MoveRegister(a, x, from), UNCHANGED next
  PROVE  /\ ListsType' /\ RegistrationsExact'
         /\ array'[a] = array[from]
         /\ array'[from] = [array[from] EXCEPT !.reg = Nil, !.at = Nil, !.data = <<>>]
         /\ array'[from] \in ArrayType
         /\ \A b \in Arrays \ {a, from} : array'[b] = array[b]
<1> DEFINE y == array[from]
           z == [y EXCEPT !.reg = Nil, !.at = Nil, !.data = <<>>]
           W == Without(x)
<1>1. y \in ArrayType /\ y # Nil
  BY DEF ListsType, Lives
<1>2. z \in ArrayType /\ z.reg = Nil /\ z.at = Nil /\ z # Nil
  <2> HIDE DEF y
  <2>0. <<>> \in Seq(Values)
    OBVIOUS
  <2>1. z \in ArrayType /\ z.reg = Nil /\ z.at = Nil
    BY <1>1, <2>0 DEF ArrayType
  <2> QED
    BY <2>1, NamesAssumption
<1>3. /\ list' = W
      /\ entry' = IF y.reg = Nil THEN entry ELSE [entry EXCEPT ![y.at] = a]
      /\ array' = [array EXCEPT ![a] = y, ![from] = z]
  BY DEF MoveRegister
<1>4. /\ W \in [Registries -> SUBSET Entries]
      /\ \A q \in Registries : W[q] = IF q = x.reg THEN list[q] \ {x.at} ELSE list[q]
  BY DEF ListsType, Without
<1> HIDE DEF z, W
<1>5. /\ array'[a] = y /\ array'[from] = z
      /\ \A b \in Arrays \ {a, from} : array'[b] = array[b]
      /\ array' \in [Arrays -> ArrayType \cup {Nil}]
  BY <1>1, <1>2, <1>3 DEF ListsType
<1> HIDE DEF y
<1>6. /\ y.reg # Nil => /\ y.reg \in Registries /\ y.at \in list[y.reg] /\ y.at \in Entries
                        /\ entry[y.at] = from /\ Exists(y.reg)
      /\ y.reg = Nil => y.at = Nil
  BY <1>1 DEF y, RegistrationsExact, ListsType, ArrayType, Lives
<1>7. ListsType'
  BY <1>3, <1>4, <1>5, <1>6 DEF ListsType
<1>8. \A q \in Registries : \A e \in W[q] :
        /\ e \in Entries /\ entry[e] \in Arrays /\ entry[e] # a /\ e \in list[q]
        /\ array[entry[e]] # Nil /\ array[entry[e]].reg = q /\ array[entry[e]].at = e
  BY <1>4, NamesAssumption DEF ListsType, RegistrationsExact, Stands, Lives
<1>9. \A b \in Arrays \ {a} : array[b] # Nil /\ array[b].reg # Nil =>
        /\ array[b].reg \in Registries /\ next[array[b].reg] # Nil
        /\ array[b].at \in W[array[b].reg] /\ entry[array[b].at] = b
  <2> SUFFICES ASSUME NEW b \in Arrays \ {a}, array[b] # Nil, array[b].reg # Nil
               PROVE  /\ array[b].reg \in Registries /\ next[array[b].reg] # Nil
                      /\ array[b].at \in W[array[b].reg] /\ entry[array[b].at] = b
    OBVIOUS
  <2>1. /\ array[b].reg \in Registries /\ next[array[b].reg] # Nil
        /\ array[b].at \in list[array[b].reg] /\ entry[array[b].at] = b
    BY DEF ListsType, RegistrationsExact, Lives, ArrayType, Exists
  <2>2. ~(array[b].reg = x.reg /\ array[b].at = x.at)
    BY <2>1, NamesAssumption DEF RegistrationsExact, Stands, Lives
  <2> QED
    BY <1>4, <2>1, <2>2
<1>10. \A b \in Arrays : array'[b] # Nil =>
         IF array'[b].reg = Nil THEN array'[b].at = Nil
         ELSE /\ next'[array'[b].reg] # Nil
              /\ array'[b].at \in list'[array'[b].reg] /\ entry'[array'[b].at] = b
  <2> SUFFICES ASSUME NEW b \in Arrays, array'[b] # Nil, array'[b].reg # Nil
                PROVE /\ next'[array'[b].reg] # Nil
                      /\ array'[b].at \in list'[array'[b].reg] /\ entry'[array'[b].at] = b
    BY <1>2, <1>5, <1>6 DEF RegistrationsExact, Lives
  <2>1. CASE b = a
    <3>1. y.reg # Nil
      BY <1>5, <2>1
    <3>2. y.at \in W[y.reg]
      BY <1>1, <1>9, <3>1 DEF y
    <3> QED
      BY <1>3, <1>5, <1>6, <2>1, <3>1, <3>2 DEF ListsType, Exists
  <2>2. CASE b = from
    BY <1>2, <1>5, <2>2
  <2>3. CASE b # a /\ b # from
    <3>1. array'[b] = array[b] /\ array[b] # Nil /\ array[b].reg # Nil
      BY <1>5, <2>3
    <3>2. /\ array[b].reg \in Registries /\ next[array[b].reg] # Nil
          /\ array[b].at \in W[array[b].reg] /\ entry[array[b].at] = b
      BY <1>9, <2>3, <3>1
    <3>3. y.reg # Nil => y.at # array[b].at
      BY <1>6, <2>3, <3>2
    <3> QED
      BY <1>3, <1>4, <3>1, <3>2, <3>3 DEF ListsType
  <2> QED
    BY <2>1, <2>2, <2>3
<1>11. \A q \in Registries : \A e \in list'[q] :
         /\ entry'[e] # Nil /\ array'[entry'[e]] # Nil
         /\ array'[entry'[e]].reg = q /\ array'[entry'[e]].at = e
  <2> SUFFICES ASSUME NEW q \in Registries, NEW e \in W[q]
               PROVE  /\ entry'[e] # Nil /\ array'[entry'[e]] # Nil
                      /\ array'[entry'[e]].reg = q /\ array'[entry'[e]].at = e
    BY <1>3
  <2>1. /\ e \in Entries /\ entry[e] \in Arrays /\ entry[e] # a
        /\ array[entry[e]] # Nil /\ array[entry[e]].reg = q /\ array[entry[e]].at = e
    BY <1>8
  <2>2. CASE entry[e] = from
    <3>1. y.reg = q /\ y.at = e /\ y.reg # Nil
      BY <2>1, <2>2, NamesAssumption DEF y
    <3>2. entry'[e] = a
      BY <1>3, <2>1, <3>1 DEF ListsType
    <3> QED
      BY <1>1, <1>5, <3>1, <3>2, NamesAssumption
  <2>3. CASE entry[e] # from
    <3>1. y.reg # Nil => y.at # e
      BY <1>6, <2>3
    <3>2. entry'[e] = entry[e]
      BY <1>3, <2>1, <3>1 DEF ListsType
    <3> QED
      BY <1>5, <2>1, <2>3, <3>2, NamesAssumption
  <2> QED
    BY <2>2, <2>3
<1>12. RegistrationsExact'
  BY <1>10, <1>11 DEF RegistrationsExact, Lives, Exists
<1> QED
  BY <1>2, <1>5, <1>7, <1>12 DEF y, z

(***************************************************************************)
(* Every step keeps registrations and sizes.                               *)
(***************************************************************************)
LEMMA InitInv == Init => Inv
<1> SUFFICES ASSUME Init PROVE Inv
  OBVIOUS
<1> DEFINE v == CHOOSE u \in Values : TRUE
<1>1. v \in Values
  BY NamesAssumption
<1>2. promised = [a \in Arrays |-> [k \in Keys |-> v]]
  BY DEF Init
<1> HIDE DEF v
<1>3. ListsType
  BY DEF Init, ListsType
<1>4. CountsType
  BY <1>1, <1>2 DEF Init, CountsType
<1>5. RegistrationsExact /\ SizesFollow
  BY DEF Init, RegistrationsExact, SizesFollow, Lives
<1> QED
  BY <1>3, <1>4, <1>5 DEF Inv

\* An array that comes to a registry with the size of it.
LEMMA ReregisterInv ==
  ASSUME Inv, NEW a \in Arrays, NEW x \in ArrayType, NEW r \in Registries \cup {Nil},
         Stands(a, x), r # Nil => Exists(r), Reregister(a, x, r),
         Len(x.data) = IF r = Nil THEN 0 ELSE size[r],
         UNCHANGED <<next, size, keys>>,
         promised' \in [Arrays -> [Keys -> Values \cup {Nil}]]
  PROVE  Inv'
<1>1. /\ ListsType' /\ RegistrationsExact'
      /\ array'[a] \in ArrayType /\ array'[a].reg = r
      /\ array'[a].data = x.data /\ array'[a].default = x.default
      /\ \A b \in Arrays \ {a} : array'[b] = array[b]
  BY ReregisterRight DEF Inv
<1>2. CountsType'
  BY DEF Inv, CountsType
<1>3. SizesFollow'
  BY <1>1 DEF Inv, SizesFollow, Lives
<1> QED
  BY <1>1, <1>2, <1>3 DEF Inv

LEMMA NewArrayType ==
  ASSUME NEW v \in Values
  PROVE  /\ NewArray(v) \in ArrayType /\ NewArray(v).reg = Nil /\ NewArray(v).at = Nil
         /\ NewArray(v).data = <<>> /\ NewArray(v).default = v
<1>1. <<>> \in Seq(Values)
  OBVIOUS
<1> QED
  BY <1>1 DEF NewArray, ArrayType

LEMMA PromiseAllType ==
  ASSUME CountsType, NEW a \in Arrays, NEW v \in Values, PromiseAll(a, v)
  PROVE  promised' \in [Arrays -> [Keys -> Values \cup {Nil}]]
BY DEF CountsType, PromiseAll

LEMMA ConstructInv ==
  ASSUME Inv, NEW a \in Arrays, NEW r \in Registries \cup {Nil}, NEW v \in Values,
         Construct(a, r, v)
  PROVE  Inv'
<1> DEFINE x == Initialised(NewArray(v), r)
<1>1. /\ NewArray(v) \in ArrayType /\ NewArray(v).reg = Nil /\ NewArray(v).at = Nil
  BY NewArrayType
<1>2. /\ x \in ArrayType /\ Len(x.data) = IF r = Nil THEN 0 ELSE size[r]
      /\ x.reg = Nil /\ x.at = Nil
  BY <1>1, InitialisedRight DEF Inv
<1>3. /\ ~Lives(a) /\ (r # Nil => Exists(r)) /\ Reregister(a, x, r)
      /\ PromiseAll(a, v) /\ UNCHANGED <<next, size, keys>>
  BY DEF Construct
<1>4. promised' \in [Arrays -> [Keys -> Values \cup {Nil}]]
  BY <1>3, PromiseAllType DEF Inv
<1> HIDE DEF x
<1>5. Stands(a, x)
  BY <1>2, <1>3 DEF Stands
<1> QED
  BY <1>2, <1>3, <1>4, <1>5, ReregisterInv

LEMMA InitArrayInv ==
  ASSUME Inv, NEW a \in Arrays, NEW r \in Registries \cup {Nil}, NEW v \in Values,
         InitArray(a, r, v)
  PROVE  Inv'
<1> DEFINE y == [array[a] EXCEPT !.default = v]
           x == Initialised(y, r)
<1>1. /\ Lives(a) /\ (r # Nil => Exists(r)) /\ Reregister(a, x, r)
      /\ PromiseAll(a, v) /\ UNCHANGED <<next, size, keys>>
  BY DEF InitArray
<1>2. y \in ArrayType /\ y.reg = array[a].reg /\ y.at = array[a].at
  BY <1>1 DEF Inv, ListsType, Lives, ArrayType
<1> HIDE DEF y
<1>3. /\ x \in ArrayType /\ Len(x.data) = IF r = Nil THEN 0 ELSE size[r]
      /\ x.reg = y.reg /\ x.at = y.at
  BY <1>2, InitialisedRight DEF Inv
<1>4. promised' \in [Arrays -> [Keys -> Values \cup {Nil}]]
  BY <1>1, PromiseAllType DEF Inv
<1> HIDE DEF x
<1>5. Stands(a, x)
  BY <1>1, <1>2, <1>3 DEF Stands
<1> QED
  BY <1>1, <1>3, <1>4, <1>5, ReregisterInv

LEMMA CopyInv ==
  ASSUME Inv, NEW a \in Arrays, NEW from \in Arrays, Copy(a, from)
  PROVE  Inv'
<1> DEFINE y == array[from]
           old == IF Lives(a) THEN array[a] ELSE NewArray(y.default)
           x == [old EXCEPT !.data = y.data, !.default = y.default]
           r == y.reg
<1>1. /\ Lives(from) /\ Reregister(a, x, r)
      /\ promised' = [promised EXCEPT ![a] = promised[from]]
      /\ UNCHANGED <<next, size, keys>>
  BY DEF Copy
<1>2. y \in ArrayType
  BY <1>1 DEF Inv, ListsType, Lives
<1>3. y.default \in Values /\ y.data \in Seq(Values) /\ r \in Registries \cup {Nil}
  BY <1>2 DEF ArrayType
<1>4. /\ r # Nil => Exists(r)
      /\ Len(y.data) = IF r = Nil THEN 0 ELSE size[r]
  BY <1>1 DEF Inv, RegistrationsExact, SizesFollow
<1> HIDE DEF y, r
<1>5. old \in ArrayType /\ Stands(a, old)
  BY <1>3, NewArrayType DEF Inv, ListsType, Lives, Stands
<1> HIDE DEF old
<1>6. x \in ArrayType /\ x.reg = old.reg /\ x.at = old.at /\ x.data = y.data
  BY <1>3, <1>5 DEF ArrayType
<1> HIDE DEF x
<1>7. Stands(a, x)
  BY <1>5, <1>6 DEF Stands
<1>8. promised' \in [Arrays -> [Keys -> Values \cup {Nil}]]
  BY <1>1 DEF Inv, CountsType
<1> QED
  BY <1>1, <1>3, <1>4, <1>6, <1>7, <1>8, ReregisterInv

LEMMA MoveInv ==
  ASSUME Inv, NEW a \in Arrays, NEW from \in Arrays, Move(a, from)
  PROVE  Inv'
<1> DEFINE x == IF Lives(a) THEN array[a] ELSE NewArray(array[from].default)
           z == [array[from] EXCEPT !.reg = Nil, !.at = Nil, !.data = <<>>]
<1>1. /\ Lives(from) /\ a # from /\ MoveRegister(a, x, from)
      /\ promised' = [promised EXCEPT ![a] = promised[from]]
      /\ UNCHANGED <<next, size, keys>>
  BY DEF Move
<1>2. array[from] \in ArrayType
  BY <1>1 DEF Inv, ListsType, Lives
<1>3. array[from].default \in Values
  BY <1>2 DEF ArrayType
<1>4. x \in ArrayType /\ Stands(a, x)
  BY <1>3, NewArrayType DEF Inv, ListsType, Lives, Stands
<1> HIDE DEF x
<1>5. /\ ListsType' /\ RegistrationsExact'
      /\ array'[a] = array[from] /\ array'[from] = z
      /\ \A b \in Arrays \ {a, from} : array'[b] = array[b]
  BY <1>1, <1>4, MoveRegisterRight DEF Inv
<1>6. z.reg = Nil /\ Len(z.data) = 0
  BY <1>2 DEF ArrayType
<1> HIDE DEF z
<1>7. SizesFollow'
  BY <1>1, <1>5, <1>6 DEF Inv, SizesFollow, Lives
<1>8. CountsType'
  BY <1>1 DEF Inv, CountsType
<1> QED
  BY <1>5, <1>7, <1>8 DEF Inv

LEMMA DestructInv ==
  ASSUME Inv, NEW a \in Arrays, Destruct(a)
  PROVE  Inv'
<1>1. /\ Lives(a) /\ list' = Without(array[a])
      /\ array' = [array EXCEPT ![a] = Nil]
      /\ UNCHANGED <<next, size, entry, keys, promised>>
  BY DEF Destruct, ghosts
<1>2. /\ list' \in [Registries -> SUBSET Entries]
      /\ \A q \in Registries :
           list'[q] = IF q = array[a].reg THEN list[q] \ {array[a].at} ELSE list[q]
  BY <1>1 DEF Inv, ListsType, Without
<1>3. /\ array'[a] = Nil /\ \A b \in Arrays \ {a} : array'[b] = array[b]
  BY <1>1 DEF Inv, ListsType
<1>4. ListsType' /\ CountsType'
  BY <1>1, <1>2 DEF Inv, ListsType, CountsType
<1>5. \A b \in Arrays \ {a} : Lives(b) /\ array[b].reg # Nil =>
        array[b].at \in list'[array[b].reg]
  <2> SUFFICES ASSUME NEW b \in Arrays \ {a}, Lives(b), array[b].reg # Nil
               PROVE  array[b].at \in list'[array[b].reg]
    OBVIOUS
  <2>1. /\ array[b].reg \in Registries /\ array[b].at \in list[array[b].reg]
        /\ entry[array[b].at] = b
    BY DEF Inv, ListsType, RegistrationsExact, Lives, ArrayType
  <2>2. ~(array[b].reg = array[a].reg /\ array[b].at = array[a].at)
    BY <1>1, <2>1 DEF Inv, RegistrationsExact
  <2> QED
    BY <1>2, <2>1, <2>2
<1>6. \A q \in Registries : \A e \in list'[q] :
        e \in list[q] /\ entry[e] # a /\ entry[e] \in Arrays
  BY <1>1, <1>2, NamesAssumption DEF Inv, ListsType, RegistrationsExact
<1>7. RegistrationsExact'
  BY <1>1, <1>3, <1>5, <1>6 DEF Inv, RegistrationsExact, Lives, Exists
<1>8. SizesFollow'
  BY <1>1, <1>3 DEF Inv, SizesFollow, Lives
<1> QED
  BY <1>4, <1>7, <1>8 DEF Inv

\* A change of the values of one array, or of its default, that keeps its size.
LEMMA SameSizeInv ==
  ASSUME Inv, NEW a \in Arrays, Lives(a), NEW x \in ArrayType,
         x.reg = array[a].reg, x.at = array[a].at,
         Len(x.data) = Len(array[a].data),
         array' = [array EXCEPT ![a] = x],
         UNCHANGED <<next, size, list, entry, keys>>,
         promised' \in [Arrays -> [Keys -> Values \cup {Nil}]]
  PROVE  Inv'
<1>1. array'[a] = x /\ \A b \in Arrays \ {a} : array'[b] = array[b]
  BY DEF Inv, ListsType
<1>2. x # Nil
  BY NamesAssumption
<1>3. \A b \in Arrays : /\ array'[b] # Nil <=> array[b] # Nil
                        /\ array'[b] # Nil => /\ array'[b].reg = array[b].reg
                                              /\ array'[b].at = array[b].at
                                              /\ Len(array'[b].data) = Len(array[b].data)
  BY <1>1, <1>2 DEF Lives
<1>4. ListsType' /\ CountsType'
  BY DEF Inv, ListsType, CountsType
<1>5. \A q \in Registries : \A e \in list[q] : entry[e] \in Arrays
  BY DEF Inv, ListsType, RegistrationsExact
<1>6. RegistrationsExact'
  BY <1>3, <1>5 DEF Inv, RegistrationsExact, Lives, Exists
<1>7. SizesFollow'
  BY <1>3 DEF Inv, SizesFollow, Lives
<1> QED
  BY <1>4, <1>6, <1>7 DEF Inv

LEMMA WriteInv ==
  ASSUME Inv, NEW a \in Arrays, NEW k \in Keys, NEW v \in Values, Write(a, k, v)
  PROVE  Inv'
<1> DEFINE x == [array[a] EXCEPT !.data[k + 1] = v]
<1>1. /\ Lives(a) /\ array' = [array EXCEPT ![a] = x]
      /\ promised' = [promised EXCEPT ![a][k] = v]
      /\ UNCHANGED <<next, size, list, entry, keys>>
  BY DEF Write
<1>2. array[a] \in ArrayType
  BY <1>1 DEF Inv, ListsType, Lives
<1>3. /\ x \in ArrayType /\ x.reg = array[a].reg /\ x.at = array[a].at
      /\ Len(x.data) = Len(array[a].data)
  BY <1>2 DEF ArrayType
<1>4. promised' \in [Arrays -> [Keys -> Values \cup {Nil}]]
  BY <1>1 DEF Inv, CountsType
<1> QED
  BY <1>1, <1>3, <1>4, SameSizeInv

LEMMA FillWithDefaultInv ==
  ASSUME Inv, NEW a \in Arrays, FillWithDefault(a)
  PROVE  Inv'
<1> DEFINE n == size[array[a].reg]
           v == array[a].default
           d == [i \in 1..n |-> v]
           x == [array[a] EXCEPT !.data = d]
<1>1. /\ Lives(a) /\ array[a].reg # Nil /\ array' = [array EXCEPT ![a] = x]
      /\ PromiseAll(a, v)
      /\ UNCHANGED <<next, size, list, entry, keys>>
  BY DEF FillWithDefault, Inv, ListsType
<1>2. array[a] \in ArrayType /\ v \in Values /\ n \in Nat /\ Len(array[a].data) = n
  BY <1>1 DEF Inv, ListsType, CountsType, Lives, ArrayType, SizesFollow
<1>3. d \in Seq(Values) /\ Len(d) = n
  BY <1>2
<1> HIDE DEF d, n
<1>4. /\ x \in ArrayType /\ x.reg = array[a].reg /\ x.at = array[a].at /\ x.data = d
  BY <1>2, <1>3 DEF ArrayType
<1>5. promised' \in [Arrays -> [Keys -> Values \cup {Nil}]]
  BY <1>1, <1>2, PromiseAllType DEF Inv
<1> QED
  BY <1>1, <1>2, <1>3, <1>4, <1>5, SameSizeInv

LEMMA SetDefaultInv ==
  ASSUME Inv, NEW a \in Arrays, NEW v \in Values, SetDefault(a, v)
  PROVE  Inv'
<1> DEFINE x == [array[a] EXCEPT !.default = v]
<1>1. /\ Lives(a) /\ array' = [array EXCEPT ![a] = x]
      /\ UNCHANGED <<next, size, list, entry, keys>>
  BY DEF SetDefault
<1>2. array[a] \in ArrayType
  BY <1>1 DEF Inv, ListsType, Lives
<1>3. /\ x \in ArrayType /\ x.reg = array[a].reg /\ x.at = array[a].at /\ x.data = array[a].data
  BY <1>2 DEF ArrayType
<1>4. promised' \in [Arrays -> [Keys -> Values \cup {Nil}]]
  BY DEF SetDefault, Inv, CountsType
<1> QED
  BY <1>1, <1>3, <1>4, SameSizeInv

LEMMA NewForestInv ==
  ASSUME Inv, NEW r \in Registries, NewForest(r)
  PROVE  Inv'
<1>1. /\ ~Exists(r) /\ next' = [next EXCEPT ![r] = 0] /\ size' = [size EXCEPT ![r] = 0]
      /\ keys' = [keys EXCEPT ![r] = {}] /\ UNCHANGED <<list, entry, array, promised>>
  BY DEF NewForest
<1>2. ListsType' /\ CountsType'
  BY <1>1, SizesAssumption DEF Inv, ListsType, CountsType
<1>3. \A a \in Arrays : Lives(a) /\ array[a].reg # Nil =>
        array[a].reg \in Registries \ {r}
  BY <1>1 DEF Inv, ListsType, RegistrationsExact, Lives, ArrayType
<1>4. 0 # Nil
  BY NamesAssumption
<1>5. RegistrationsExact'
  BY <1>1, <1>3, <1>4 DEF Inv, CountsType, RegistrationsExact, Lives, Exists
<1>6. SizesFollow'
  BY <1>1, <1>3 DEF Inv, CountsType, SizesFollow, Lives
<1> QED
  BY <1>2, <1>5, <1>6 DEF Inv

\* The arrays of a registry are resized together with it.
LEMMA KeyAddedRight ==
  ASSUME Inv, NEW r \in Registries, NEW k \in Nat, NEW n \in 0..MaxIds, KeyAdded(r, k, n)
  PROVE  /\ size' \in [Registries -> Nat]
         /\ size'[r] = IF k < size[r] THEN size[r] ELSE TableSize(n)
         /\ \A q \in Registries \ {r} : size'[q] = size[q]
         /\ \A a \in Arrays :
              array'[a] = IF Lives(a) /\ array[a].reg = r /\ ~(k < size[r])
                          THEN Resized(array[a], TableSize(n)) ELSE array[a]
         /\ array' \in [Arrays -> ArrayType \cup {Nil}]
<1>1. TableSize(n) \in Nat
  BY SizesAssumption
<1>2. CASE k < size[r]
  <2>1. UNCHANGED <<size, array>>
    BY <1>2 DEF KeyAdded
  <2> QED
    BY <1>2, <2>1 DEF Inv, CountsType, ListsType
<1>3. CASE ~(k < size[r])
  <2>1. /\ size' = [size EXCEPT ![r] = TableSize(n)]
        /\ array' = [a \in Arrays |-> IF a \in Registered(r) THEN Resized(array[a], TableSize(n))
                                      ELSE array[a]]
    BY <1>3 DEF KeyAdded
  <2>2. \A a \in Arrays : a \in Registered(r) <=> Lives(a) /\ array[a].reg = r
    BY NamesAssumption DEF Registered, Inv, ListsType, RegistrationsExact
  <2>3. \A a \in Arrays : Lives(a) => Resized(array[a], TableSize(n)) \in ArrayType
    BY <1>1, ResizedRight DEF Inv, ListsType, Lives
  <2>4. array' \in [Arrays -> ArrayType \cup {Nil}]
    BY <2>1, <2>2, <2>3 DEF Inv, ListsType
  <2> QED
    BY <1>1, <1>3, <2>1, <2>2, <2>4 DEF Inv, CountsType
<1> QED
  BY <1>2, <1>3

LEMMA NewNodeInv ==
  ASSUME Inv, NEW r \in Registries, NEW k \in Keys, NewNode(r, k)
  PROVE  Inv'
<1> DEFINE n == IF next[r] > k + 1 THEN next[r] ELSE k + 1
           m == TableSize(n)
<1>0. next[r] \in 0..MaxIds
  BY DEF Inv, CountsType, NewNode, Exists
<1>1. k \in Nat /\ n \in 0..MaxIds /\ m \in Nat
  BY <1>0, SizesAssumption DEF Keys
<1>2. /\ Exists(r) /\ next' = [next EXCEPT ![r] = n] /\ KeyAdded(r, k, n)
      /\ keys' = [keys EXCEPT ![r] = @ \cup {k}]
      /\ UNCHANGED <<list, entry, promised>>
  BY DEF NewNode
<1> HIDE DEF n
<1>3. /\ size' \in [Registries -> Nat]
      /\ size'[r] = IF k < size[r] THEN size[r] ELSE m
      /\ \A q \in Registries \ {r} : size'[q] = size[q]
      /\ \A a \in Arrays :
           array'[a] = IF Lives(a) /\ array[a].reg = r /\ ~(k < size[r])
                       THEN Resized(array[a], m) ELSE array[a]
      /\ array' \in [Arrays -> ArrayType \cup {Nil}]
  BY <1>1, <1>2, KeyAddedRight
<1>4. \A a \in Arrays : Lives(a) =>
        /\ Resized(array[a], m) \in ArrayType /\ Len(Resized(array[a], m).data) = m
        /\ Resized(array[a], m).reg = array[a].reg /\ Resized(array[a], m).at = array[a].at
  BY <1>1, ResizedRight DEF Inv, ListsType, Lives
<1> HIDE DEF m
<1>5. \A a \in Arrays : /\ array'[a] # Nil <=> array[a] # Nil
                        /\ array'[a] # Nil => /\ array'[a].reg = array[a].reg
                                              /\ array'[a].at = array[a].at
  BY <1>3, <1>4, NamesAssumption DEF Lives
<1>6. \A q \in Registries : next'[q] # Nil <=> next[q] # Nil
  BY <1>1, <1>2, NamesAssumption DEF Inv, CountsType, Exists
<1>7. ListsType' /\ CountsType'
  BY <1>1, <1>2, <1>3 DEF Inv, ListsType, CountsType
<1>8. \A q \in Registries : \A e \in list[q] : entry[e] \in Arrays
  BY DEF Inv, ListsType, RegistrationsExact
<1>8a. \A a \in Arrays : Lives(a) /\ array[a].reg # Nil => array[a].reg \in Registries
  BY DEF Inv, ListsType, Lives, ArrayType
<1>9. RegistrationsExact'
  BY <1>2, <1>5, <1>6, <1>8, <1>8a DEF Inv, RegistrationsExact, Lives, Exists
<1>10. SizesFollow'
  <2> SUFFICES ASSUME NEW a \in Arrays, array'[a] # Nil
               PROVE  Len(array'[a].data) = IF array'[a].reg = Nil THEN 0
                                            ELSE size'[array'[a].reg]
    BY DEF SizesFollow, Lives
  <2>1. /\ Lives(a) /\ array'[a].reg = array[a].reg
        /\ Len(array[a].data) = IF array[a].reg = Nil THEN 0 ELSE size[array[a].reg]
    BY <1>5 DEF Inv, SizesFollow, Lives
  <2>2. r # Nil
    BY NamesAssumption
  <2> QED
    BY <1>3, <1>4, <1>8a, <2>1, <2>2
<1> QED
  BY <1>7, <1>9, <1>10 DEF Inv

LEMMA BeginKeepIdsInv ==
  ASSUME Inv, NEW r \in Registries, NEW n \in Keys, BeginKeepIds(r, n)
  PROVE  Inv'
<1>1. /\ Exists(r) /\ next' = [next EXCEPT ![r] = n + 1]
      /\ UNCHANGED <<size, list, entry, array, keys, promised>>
  BY DEF BeginKeepIds
<1>2. n + 1 \in 0..MaxIds /\ n + 1 # Nil
  BY SizesAssumption, NamesAssumption DEF Keys
<1>3. \A q \in Registries : next'[q] # Nil <=> next[q] # Nil
  BY <1>1, <1>2 DEF Inv, CountsType, Exists
<1>4. ListsType' /\ CountsType' /\ SizesFollow'
  BY <1>1, <1>2 DEF Inv, ListsType, CountsType, SizesFollow, Lives
<1>5. \A a \in Arrays : Lives(a) /\ array[a].reg # Nil => array[a].reg \in Registries
  BY DEF Inv, ListsType, Lives, ArrayType
<1>6. RegistrationsExact'
  BY <1>1, <1>3, <1>5 DEF Inv, RegistrationsExact, Lives, Exists
<1> QED
  BY <1>4, <1>6 DEF Inv

LEMMA ClearInv ==
  ASSUME Inv, NEW r \in Registries, Clear(r)
  PROVE  Inv'
<1>1. /\ Exists(r) /\ next' = [next EXCEPT ![r] = 0] /\ keys' = [keys EXCEPT ![r] = {}]
      /\ promised' = [a \in Arrays |->
           IF Lives(a) /\ array[a].reg = r
           THEN [k \in Keys |-> IF Prepared(a, k) THEN Nil ELSE array[a].default]
           ELSE promised[a]]
      /\ UNCHANGED <<size, list, entry, array>>
  BY DEF Clear
<1>2. 0 \in 0..MaxIds /\ 0 # Nil
  BY SizesAssumption, NamesAssumption
<1>3. \A q \in Registries : next'[q] # Nil <=> next[q] # Nil
  BY <1>1, <1>2 DEF Inv, CountsType, Exists
<1>4. ListsType' /\ SizesFollow'
  BY <1>1 DEF Inv, ListsType, SizesFollow, Lives
<1>5. \A a \in Arrays : Lives(a) => array[a].default \in Values
  BY DEF Inv, ListsType, Lives, ArrayType
<1>6. promised' \in [Arrays -> [Keys -> Values \cup {Nil}]]
  BY <1>1, <1>5 DEF Inv, CountsType
<1>7. CountsType'
  BY <1>1, <1>2, <1>6 DEF Inv, CountsType
<1>8. \A a \in Arrays : Lives(a) /\ array[a].reg # Nil => array[a].reg \in Registries
  BY DEF Inv, ListsType, Lives, ArrayType
<1>9. RegistrationsExact'
  BY <1>1, <1>3, <1>8 DEF Inv, RegistrationsExact, Lives, Exists
<1> QED
  BY <1>4, <1>7, <1>9 DEF Inv

LEMMA DestroyForestInv ==
  ASSUME Inv, NEW r \in Registries, DestroyForest(r)
  PROVE  Inv'
<1>1. /\ Exists(r) /\ next' = [next EXCEPT ![r] = Nil] /\ list' = [list EXCEPT ![r] = {}]
      /\ array' = [a \in Arrays |-> IF a \in Registered(r) THEN Unregistered(array[a])
                                    ELSE array[a]]
      /\ keys' = [keys EXCEPT ![r] = {}]
      /\ UNCHANGED <<size, entry, promised>>
  BY DEF DestroyForest
<1>2. \A a \in Arrays : a \in Registered(r) <=> Lives(a) /\ array[a].reg = r
  BY NamesAssumption DEF Registered, Inv, ListsType, RegistrationsExact
<1>3. \A a \in Arrays : Lives(a) =>
        /\ Unregistered(array[a]) \in ArrayType /\ Len(Unregistered(array[a]).data) = 0
        /\ Unregistered(array[a]).reg = Nil /\ Unregistered(array[a]).at = Nil
  <2> SUFFICES ASSUME NEW a \in Arrays, Lives(a)
               PROVE  /\ Unregistered(array[a]) \in ArrayType
                      /\ Len(Unregistered(array[a]).data) = 0
                      /\ Unregistered(array[a]).reg = Nil /\ Unregistered(array[a]).at = Nil
    OBVIOUS
  <2> DEFINE y == Resized(array[a], 0)
  <2>1. y \in ArrayType /\ Len(y.data) = 0
    BY ResizedRight DEF Inv, ListsType, Lives
  <2>2. Unregistered(array[a]) = [y EXCEPT !.reg = Nil, !.at = Nil]
    BY DEF Unregistered
  <2> HIDE DEF y
  <2> QED
    BY <2>1, <2>2 DEF ArrayType
<1>4. \A a \in Arrays :
        array'[a] = IF Lives(a) /\ array[a].reg = r THEN Unregistered(array[a]) ELSE array[a]
  BY <1>1, <1>2
<1>5. array' \in [Arrays -> ArrayType \cup {Nil}]
  BY <1>1, <1>2, <1>3 DEF Inv, ListsType
<1>6. ListsType' /\ CountsType'
  BY <1>1, <1>5 DEF Inv, ListsType, CountsType
<1>7. \A a \in Arrays : array'[a] # Nil => Lives(a)
  BY <1>4 DEF Lives
<1>8. \A a \in Arrays : array'[a] # Nil =>
        IF array'[a].reg = Nil THEN array'[a].at = Nil
        ELSE /\ next'[array'[a].reg] # Nil
             /\ array'[a].at \in list'[array'[a].reg] /\ entry'[array'[a].at] = a
  <2> SUFFICES ASSUME NEW a \in Arrays, array'[a] # Nil, array'[a].reg # Nil
               PROVE  /\ next'[array'[a].reg] # Nil
                      /\ array'[a].at \in list'[array'[a].reg] /\ entry'[array'[a].at] = a
    BY <1>3, <1>4, <1>7 DEF Inv, RegistrationsExact
  <2>1. Lives(a) /\ array[a].reg # r /\ array'[a] = array[a]
    BY <1>3, <1>4, <1>7
  <2>2. array[a].reg \in Registries \ {r}
    BY <2>1 DEF Inv, ListsType, Lives, ArrayType
  <2> QED
    BY <1>1, <2>1, <2>2 DEF Inv, ListsType, CountsType, RegistrationsExact, Exists
<1>9. \A q \in Registries : \A e \in list'[q] :
        /\ entry'[e] # Nil /\ array'[entry'[e]] # Nil
        /\ array'[entry'[e]].reg = q /\ array'[entry'[e]].at = e
  <2> SUFFICES ASSUME NEW q \in Registries, NEW e \in list'[q]
               PROVE  /\ entry[e] # Nil /\ array'[entry[e]] # Nil
                      /\ array'[entry[e]].reg = q /\ array'[entry[e]].at = e
    BY <1>1
  <2>1. q # r /\ e \in list[q]
    BY <1>1 DEF Inv, ListsType
  <2>2. /\ entry[e] \in Arrays /\ entry[e] # Nil /\ Lives(entry[e])
        /\ array[entry[e]].reg = q /\ array[entry[e]].at = e
    BY <2>1 DEF Inv, ListsType, RegistrationsExact
  <2>3. array'[entry[e]] = array[entry[e]]
    BY <1>4, <2>1, <2>2
  <2> QED
    BY <2>2, <2>3 DEF Lives
<1>10. RegistrationsExact'
  BY <1>8, <1>9 DEF RegistrationsExact, Lives, Exists
<1>11. SizesFollow'
  <2> SUFFICES ASSUME NEW a \in Arrays, array'[a] # Nil
               PROVE  Len(array'[a].data) = IF array'[a].reg = Nil THEN 0
                                            ELSE size[array'[a].reg]
    BY <1>1 DEF SizesFollow, Lives
  <2> QED
    BY <1>3, <1>4, <1>7 DEF Inv, SizesFollow
<1> QED
  BY <1>6, <1>10, <1>11 DEF Inv

LEMMA NextInv == Inv /\ [Next]_vars => Inv'
<1> SUFFICES ASSUME Inv, [Next]_vars PROVE Inv'
  OBVIOUS
<1>1. CASE UNCHANGED vars
  BY <1>1 DEF vars, Inv, ListsType, CountsType, RegistrationsExact, SizesFollow, Lives, Exists
<1>2. ASSUME NEW a \in Arrays, NEW r \in Registries \cup {Nil}, NEW v \in Values,
             Construct(a, r, v) \/ InitArray(a, r, v)
      PROVE  Inv'
  BY <1>2, ConstructInv, InitArrayInv
<1>3. ASSUME NEW a \in Arrays, NEW from \in Arrays, Copy(a, from) \/ Move(a, from)
      PROVE  Inv'
  BY <1>3, CopyInv, MoveInv
<1>4. ASSUME NEW a \in Arrays, Destruct(a) \/ FillWithDefault(a)
      PROVE  Inv'
  BY <1>4, DestructInv, FillWithDefaultInv
<1>5. ASSUME NEW a \in Arrays, NEW k \in Keys, NEW v \in Values, Write(a, k, v)
      PROVE  Inv'
  BY <1>5, WriteInv
<1>6. ASSUME NEW a \in Arrays, NEW v \in Values, SetDefault(a, v)
      PROVE  Inv'
  BY <1>6, SetDefaultInv
<1>7. ASSUME NEW r \in Registries, NewForest(r) \/ Clear(r) \/ DestroyForest(r)
      PROVE  Inv'
  BY <1>7, NewForestInv, ClearInv, DestroyForestInv
<1>8. ASSUME NEW r \in Registries, NEW k \in Keys, NewNode(r, k) \/ BeginKeepIds(r, k)
      PROVE  Inv'
  BY <1>8, NewNodeInv, BeginKeepIdsInv
<1> QED
  BY <1>1, <1>2, <1>3, <1>4, <1>5, <1>6, <1>7, <1>8 DEF Next

LEMMA InvHolds == Spec => []Inv
BY InitInv, NextInv, PTL DEF Spec

(***************************************************************************)
(* Types, registrations and sizes.                                         *)
(***************************************************************************)
\* Fields have their types, whatever is registered, copied, moved or ended.
THEOREM TypeCorrect == Spec => []TypeOK
<1>1. Inv => TypeOK
  BY SizesAssumption DEF Inv, ListsType, CountsType, TypeOK
<1> QED
  BY <1>1, InvHolds, PTL

\* An array and the list of its registry always agree, so that no step writes
\* to an array that is gone.
THEOREM RegistrationsCorrect == Spec => []RegistrationsExact
<1>1. Inv => RegistrationsExact
  BY DEF Inv
<1> QED
  BY <1>1, InvHolds, PTL

\* All arrays of a registry have its size.
THEOREM SizesCorrect == Spec => []SizesFollow
<1>1. Inv => SizesFollow
  BY DEF Inv
<1> QED
  BY <1>1, InvHolds, PTL

(***************************************************************************)
(* Room for all keys.                                                      *)
(***************************************************************************)
KeysFit == \A r \in Registries : \A k \in keys[r] : k < next[r] /\ k < size[r]

LEMMA KeysFitStep ==
  ASSUME Inv, KeysFit, [Next]_vars
  PROVE  KeysFit'
<1>1. ASSUME UNCHANGED <<next, size, keys>> PROVE KeysFit'
  BY <1>1 DEF KeysFit
<1>2. ASSUME NEW r \in Registries, NewForest(r) \/ Clear(r) \/ DestroyForest(r)
      PROVE  KeysFit'
  <2>1. /\ \A q \in Registries \ {r} : next'[q] = next[q] /\ size'[q] = size[q]
        /\ keys' = [keys EXCEPT ![r] = {}]
    BY <1>2 DEF NewForest, Clear, DestroyForest, Inv, CountsType
  <2> QED
    BY <2>1 DEF Inv, CountsType, KeysFit
<1>3. ASSUME NEW r \in Registries, NEW k \in Keys, NewNode(r, k) PROVE KeysFit'
  <2> DEFINE n == IF next[r] > k + 1 THEN next[r] ELSE k + 1
  <2>1. /\ Exists(r) /\ next' = [next EXCEPT ![r] = n] /\ KeyAdded(r, k, n)
        /\ keys' = [keys EXCEPT ![r] = @ \cup {k}]
    BY <1>3 DEF NewNode
  <2>2. next[r] \in 0..MaxIds
    BY <2>1 DEF Inv, CountsType, Exists
  <2>3. /\ k \in Nat /\ n \in 0..MaxIds /\ TableSize(n) \in Nat /\ TableSize(n) >= n
        /\ n >= next[r] /\ n >= k + 1
    BY <2>2, SizesAssumption DEF Keys
  <2> HIDE DEF n
  <2>4. /\ size'[r] = IF k < size[r] THEN size[r] ELSE TableSize(n)
        /\ \A q \in Registries \ {r} : size'[q] = size[q]
    BY <2>1, <2>3, KeyAddedRight
  <2>5. size[r] \in Nat /\ keys[r] \in SUBSET Keys /\ next'[r] = n
    BY <2>1 DEF Inv, CountsType
  <2>6. \A j \in keys[r] \cup {k} : j < n /\ j < size'[r]
    BY <2>2, <2>3, <2>4, <2>5 DEF KeysFit, Keys
  <2> QED
    BY <2>1, <2>4, <2>5, <2>6 DEF Inv, CountsType, KeysFit
<1>4. ASSUME NEW r \in Registries, NEW k \in Keys, BeginKeepIds(r, k) PROVE KeysFit'
  <2>1. /\ Exists(r) /\ k \in Nat /\ k >= next[r] /\ next' = [next EXCEPT ![r] = k + 1]
        /\ UNCHANGED <<size, keys>>
    BY <1>4 DEF BeginKeepIds, Keys
  <2>2. next[r] \in Nat /\ next'[r] = k + 1 /\ keys[r] \in SUBSET Keys
    BY <2>1 DEF Inv, CountsType, Exists
  <2>3. \A j \in keys[r] : j < k + 1
    BY <2>1, <2>2 DEF KeysFit, Keys
  <2> QED
    BY <2>1, <2>2, <2>3 DEF Inv, CountsType, KeysFit
<1> QED
  BY <1>1, <1>2, <1>3, <1>4 DEF Next, vars, ghosts, Construct, InitArray, Copy, Move,
     Destruct, FillWithDefault, Write, SetDefault

LEMMA KeysFitHolds == Spec => [](Inv /\ KeysFit)
<1>1. Init => KeysFit
  BY DEF Init, KeysFit
<1>2. Inv /\ KeysFit /\ [Next]_vars => KeysFit'
  BY KeysFitStep
<1> QED
  BY <1>1, <1>2, InitInv, NextInv, PTL DEF Spec

\* All arrays of a forest always have room for all of its nodes.
THEOREM KeysCorrect == Spec => []KeysCovered
<1>1. Inv /\ KeysFit => KeysCovered
  BY NamesAssumption DEF Inv, SizesFollow, KeysFit, KeysCovered
<1> QED
  BY <1>1, KeysFitHolds, PTL

(***************************************************************************)
(* The values read.  The storage beyond the keys matters too, since later  *)
(* keys get it as it is, and so does the default that fills new storage.   *)
(***************************************************************************)
StorageRight ==
  \A a \in Arrays : Lives(a) =>
    \A r \in Registries : array[a].reg = r =>
      \A k \in Keys :
        \/ promised[a][k] = Nil
        \/ promised[a][k] = IF k < Len(array[a].data) THEN array[a].data[k + 1]
                            ELSE array[a].default

LEMMA StorageRightIn ==
  ASSUME Inv, KeysFit, StorageRight
  PROVE  PromisesKept
<1> SUFFICES ASSUME NEW a \in Arrays, Lives(a), NEW r \in Registries, array[a].reg = r,
                    NEW k \in keys[r], promised[a][k] # Nil
             PROVE  array[a].data[k + 1] = promised[a][k]
  BY DEF PromisesKept
<1>1. k \in Keys /\ r # Nil
  BY NamesAssumption DEF Inv, CountsType
<1>2. k < Len(array[a].data)
  BY <1>1 DEF Inv, SizesFollow, KeysFit
<1> QED
  BY <1>1, <1>2 DEF StorageRight

\* All storage of an array was filled with the default.
LEMMA AllDefaultStep ==
  ASSUME Inv, StorageRight, NEW a \in Arrays, NEW v \in Values,
         array'[a].default = v,
         \A k \in Keys : k < Len(array'[a].data) => array'[a].data[k + 1] = v,
         \A b \in Arrays \ {a} : array'[b] = array[b],
         PromiseAll(a, v), UNCHANGED keys
  PROVE  StorageRight'
<1>1. /\ \A k \in Keys : promised'[a][k] = v
      /\ \A b \in Arrays \ {a} : promised'[b] = promised[b]
  BY DEF PromiseAll, Inv, CountsType
<1> QED
  BY <1>1 DEF StorageRight, Lives

LEMMA NewStorageStep ==
  ASSUME Inv, StorageRight, NEW a \in Arrays, NEW r \in Registries \cup {Nil},
         NEW v \in Values, Construct(a, r, v) \/ InitArray(a, r, v)
  PROVE  StorageRight'
<1> DEFINE y == IF Lives(a) THEN [array[a] EXCEPT !.default = v] ELSE NewArray(v)
           x == Initialised(y, r)
<1>1. /\ r # Nil => Exists(r)
      /\ Reregister(a, x, r) /\ PromiseAll(a, v) /\ UNCHANGED <<next, size, keys>>
  BY DEF Construct, InitArray
<1>2. y \in ArrayType /\ y.default = v /\ Stands(a, y)
  <2>1. CASE Lives(a)
    <3>1. array[a] \in ArrayType
      BY <2>1 DEF Inv, ListsType, Lives
    <3> QED
      BY <2>1, <3>1 DEF ArrayType, Stands
  <2>2. CASE ~Lives(a)
    BY <2>2, NewArrayType DEF Stands
  <2> QED
    BY <2>1, <2>2
<1> HIDE DEF y
<1>3. /\ x \in ArrayType /\ x.default = v /\ x.reg = y.reg /\ x.at = y.at
      /\ \A i \in 1..Len(x.data) : x.data[i] = v
  BY <1>2, InitialisedRight DEF Inv
<1> HIDE DEF x
<1>4. Stands(a, x)
  BY <1>2, <1>3 DEF Stands
<1>5. /\ array'[a].data = x.data /\ array'[a].default = v
      /\ \A b \in Arrays \ {a} : array'[b] = array[b]
  BY <1>1, <1>3, <1>4, ReregisterRight DEF Inv
<1>6. Len(x.data) \in Nat
  BY <1>3 DEF ArrayType
<1>7. \A k \in Keys : k < Len(array'[a].data) => array'[a].data[k + 1] = v
  BY <1>3, <1>5, <1>6 DEF Keys
<1> QED
  BY <1>1, <1>5, <1>7, AllDefaultStep

LEMMA CopyStorageStep ==
  ASSUME Inv, StorageRight, NEW a \in Arrays, NEW from \in Arrays, Copy(a, from)
  PROVE  StorageRight'
<1> DEFINE y == array[from]
           old == IF Lives(a) THEN array[a] ELSE NewArray(y.default)
           x == [old EXCEPT !.data = y.data, !.default = y.default]
<1>1. /\ Lives(from) /\ Reregister(a, x, y.reg)
      /\ promised' = [promised EXCEPT ![a] = promised[from]]
      /\ UNCHANGED <<next, size, keys>>
  BY DEF Copy
<1>2. y \in ArrayType /\ (y.reg # Nil => Exists(y.reg))
  BY <1>1 DEF Inv, ListsType, RegistrationsExact, Lives
<1>3. y.default \in Values /\ y.data \in Seq(Values) /\ y.reg \in Registries \cup {Nil}
  BY <1>2 DEF ArrayType
<1> HIDE DEF y
<1>4. old \in ArrayType /\ Stands(a, old)
  BY <1>3, NewArrayType DEF Inv, ListsType, Lives, Stands
<1> HIDE DEF old
<1>5. /\ x \in ArrayType /\ x.reg = old.reg /\ x.at = old.at
      /\ x.data = y.data /\ x.default = y.default
  BY <1>3, <1>4 DEF ArrayType
<1> HIDE DEF x
<1>6. Stands(a, x)
  BY <1>4, <1>5 DEF Stands
<1>7. /\ array'[a].reg = y.reg /\ array'[a].data = y.data /\ array'[a].default = y.default
      /\ \A b \in Arrays \ {a} : array'[b] = array[b]
  BY <1>1, <1>2, <1>3, <1>5, <1>6, ReregisterRight DEF Inv
<1>8. /\ promised'[a] = promised[from]
      /\ \A b \in Arrays \ {a} : promised'[b] = promised[b]
  BY <1>1 DEF Inv, CountsType
<1> QED
  BY <1>1, <1>7, <1>8 DEF StorageRight, Lives, y

LEMMA MoveStorageStep ==
  ASSUME Inv, StorageRight, NEW a \in Arrays, NEW from \in Arrays, Move(a, from)
  PROVE  StorageRight'
<1> DEFINE x == IF Lives(a) THEN array[a] ELSE NewArray(array[from].default)
           z == [array[from] EXCEPT !.reg = Nil, !.at = Nil, !.data = <<>>]
<1>1. /\ Lives(from) /\ a # from /\ MoveRegister(a, x, from)
      /\ promised' = [promised EXCEPT ![a] = promised[from]]
      /\ UNCHANGED <<next, size, keys>>
  BY DEF Move
<1>2. array[from] \in ArrayType
  BY <1>1 DEF Inv, ListsType, Lives
<1>3. array[from].default \in Values
  BY <1>2 DEF ArrayType
<1>4. x \in ArrayType /\ Stands(a, x)
  BY <1>3, NewArrayType DEF Inv, ListsType, Lives, Stands
<1> HIDE DEF x
<1>5. /\ array'[a] = array[from] /\ array'[from] = z
      /\ \A b \in Arrays \ {a, from} : array'[b] = array[b]
  BY <1>1, <1>4, MoveRegisterRight DEF Inv
<1>6. z.reg = Nil
  BY <1>2 DEF ArrayType
<1> HIDE DEF z
<1>7. /\ promised'[a] = promised[from]
      /\ \A b \in Arrays \ {a} : promised'[b] = promised[b]
  BY <1>1 DEF Inv, CountsType
<1> QED
  BY <1>1, <1>5, <1>6, <1>7, NamesAssumption DEF StorageRight, Lives

LEMMA WriteStorageStep ==
  ASSUME Inv, KeysFit, StorageRight, NEW a \in Arrays, NEW k \in Keys, NEW v \in Values,
         Write(a, k, v)
  PROVE  StorageRight'
<1> DEFINE x == [array[a] EXCEPT !.data[k + 1] = v]
<1>1. /\ Lives(a) /\ k \in keys[array[a].reg] /\ array' = [array EXCEPT ![a] = x]
      /\ promised' = [promised EXCEPT ![a][k] = v] /\ UNCHANGED keys
  BY DEF Write
<1>2. array[a] \in ArrayType
  BY <1>1 DEF Inv, ListsType, Lives
<1>3. /\ x.reg = array[a].reg /\ x.default = array[a].default
      /\ Len(x.data) = Len(array[a].data)
      /\ \A i \in 1..Len(array[a].data) :
           x.data[i] = IF i = k + 1 THEN v ELSE array[a].data[i]
  BY <1>2 DEF ArrayType
<1>4. x # Nil
  BY <1>2, NamesAssumption DEF ArrayType
<1> HIDE DEF x
<1>5. array'[a] = x /\ \A b \in Arrays \ {a} : array'[b] = array[b]
  BY <1>1 DEF Inv, ListsType
<1>6. /\ promised'[a] = [promised[a] EXCEPT ![k] = v]
      /\ \A b \in Arrays \ {a} : promised'[b] = promised[b]
  BY <1>1 DEF Inv, CountsType
<1>7. \A j \in Keys : promised'[a][j] = IF j = k THEN v ELSE promised[a][j]
  BY <1>6 DEF Inv, CountsType
<1>8. array[a].reg \in Registries /\ k < Len(array[a].data)
  BY <1>1, <1>2 DEF Write, ArrayType, Inv, SizesFollow, KeysFit
<1>9. ASSUME NEW j \in Keys
      PROVE  \/ promised'[a][j] = Nil
             \/ promised'[a][j] = IF j < Len(x.data) THEN x.data[j + 1] ELSE x.default
  <2>1. /\ Len(array[a].data) \in Nat /\ j \in Nat /\ k \in Nat
        /\ (j + 1 = k + 1 <=> j = k)
    BY <1>2 DEF Keys, ArrayType
  <2>2. j < Len(x.data) => x.data[j + 1] = IF j = k THEN v ELSE array[a].data[j + 1]
    BY <1>3, <2>1
  <2>3. \/ promised[a][j] = Nil
        \/ promised[a][j] = IF j < Len(array[a].data) THEN array[a].data[j + 1]
                            ELSE array[a].default
    BY <1>1, <1>8 DEF StorageRight
  <2> QED
    BY <1>3, <1>7, <1>8, <2>1, <2>2, <2>3
<1> QED
  BY <1>1, <1>3, <1>5, <1>6, <1>9 DEF StorageRight, Lives

LEMMA FillStorageStep ==
  ASSUME Inv, StorageRight, NEW a \in Arrays, FillWithDefault(a)
  PROVE  StorageRight'
<1> DEFINE v == array[a].default
           n == size[array[a].reg]
           d == [i \in 1..n |-> v]
           x == [array[a] EXCEPT !.data = d]
<1>1. /\ Lives(a) /\ array[a].reg # Nil /\ array' = [array EXCEPT ![a] = x]
      /\ PromiseAll(a, v) /\ UNCHANGED keys
  BY DEF FillWithDefault
<1>2. array[a] \in ArrayType /\ v \in Values /\ n \in Nat
  BY <1>1 DEF Inv, ListsType, CountsType, Lives, ArrayType
<1>3. d \in Seq(Values) /\ Len(d) = n /\ \A i \in 1..n : d[i] = v
  BY <1>2
<1> HIDE DEF d, n
<1>4. x.data = d /\ x.default = v
  BY <1>2, <1>3 DEF ArrayType
<1> HIDE DEF x
<1>5. array'[a] = x /\ \A b \in Arrays \ {a} : array'[b] = array[b]
  BY <1>1 DEF Inv, ListsType
<1>6. \A k \in Keys : k < Len(array'[a].data) => array'[a].data[k + 1] = v
  BY <1>2, <1>3, <1>4, <1>5 DEF Keys
<1> QED
  BY <1>1, <1>2, <1>4, <1>5, <1>6, AllDefaultStep

\* New storage is default, as what a key outside the storage has to find.
LEMMA NewNodeStorageStep ==
  ASSUME Inv, StorageRight, NEW r \in Registries, NEW k \in Keys, NewNode(r, k)
  PROVE  StorageRight'
<1> DEFINE n == IF next[r] > k + 1 THEN next[r] ELSE k + 1
           m == TableSize(n)
<1>0. next[r] \in 0..MaxIds
  BY DEF Inv, CountsType, NewNode, Exists
<1>1. k \in Nat /\ n \in 0..MaxIds /\ m \in Nat /\ m >= k + 1
  BY <1>0, SizesAssumption DEF Keys
<1>2. /\ KeyAdded(r, k, n) /\ keys' = [keys EXCEPT ![r] = @ \cup {k}]
      /\ UNCHANGED promised
  BY DEF NewNode
<1> HIDE DEF n
<1>3. \A a \in Arrays :
        array'[a] = IF Lives(a) /\ array[a].reg = r /\ ~(k < size[r])
                    THEN Resized(array[a], m) ELSE array[a]
  BY <1>1, <1>2, KeyAddedRight
<1> HIDE DEF m
<1> SUFFICES ASSUME NEW a \in Arrays, array'[a] # Nil,
                    NEW q \in Registries, array'[a].reg = q, NEW j \in Keys
             PROVE  \/ promised[a][j] = Nil
                    \/ promised[a][j] = IF j < Len(array'[a].data)
                                        THEN array'[a].data[j + 1] ELSE array'[a].default
  BY <1>2 DEF StorageRight, Lives
<1>4. Lives(a) /\ array[a] \in ArrayType
  BY <1>3 DEF Inv, ListsType, Lives
<1>5. /\ Resized(array[a], m).reg = array[a].reg
      /\ Resized(array[a], m).default = array[a].default
      /\ Len(Resized(array[a], m).data) = m
      /\ \A i \in 1..m : Resized(array[a], m).data[i] =
           IF i <= Len(array[a].data) THEN array[a].data[i] ELSE array[a].default
  BY <1>1, <1>4, ResizedRight
<1>6. array[a].reg = q
  BY <1>3, <1>5
<1>7. \/ promised[a][j] = Nil
      \/ promised[a][j] = IF j < Len(array[a].data) THEN array[a].data[j + 1]
                          ELSE array[a].default
  BY <1>4, <1>6 DEF StorageRight
<1>8. CASE q = r /\ ~(k < size[r])
  <2>1. array'[a] = Resized(array[a], m)
    BY <1>3, <1>4, <1>6, <1>8
  <2>2. Len(array[a].data) = size[r] /\ size[r] \in Nat /\ j \in Nat
    BY <1>4, <1>6, <1>8, NamesAssumption DEF Inv, SizesFollow, CountsType, Keys
  <2>3. m > size[r]
    BY <1>1, <1>8, <2>2
  <2>4. j < m => j + 1 \in 1..m /\ (j + 1 <= size[r] <=> j < size[r])
    BY <1>1, <2>2
  <2> QED
    BY <1>1, <1>5, <1>7, <2>1, <2>2, <2>3, <2>4
<1>9. CASE ~(q = r /\ ~(k < size[r]))
  BY <1>3, <1>6, <1>7, <1>9
<1> QED
  BY <1>8, <1>9

\* Keys in use keep their values, new ones have the new default if they find no
\* storage.
LEMMA SetDefaultStorageStep ==
  ASSUME Inv, KeysFit, StorageRight, NEW a \in Arrays, NEW v \in Values, SetDefault(a, v)
  PROVE  StorageRight'
<1> DEFINE x == [array[a] EXCEPT !.default = v]
<1>1. /\ Lives(a) /\ array' = [array EXCEPT ![a] = x]
      /\ promised' = [promised EXCEPT ![a] =
           [k \in Keys |-> IF array[a].reg # Nil /\ k \in keys[array[a].reg]
                           THEN promised[a][k]
                           ELSE IF Prepared(a, k) THEN Nil ELSE v]]
      /\ UNCHANGED keys
  BY DEF SetDefault
<1>2. array[a] \in ArrayType
  BY <1>1 DEF Inv, ListsType, Lives
<1>3. x.reg = array[a].reg /\ x.data = array[a].data /\ x.default = v /\ x # Nil
  BY <1>2, NamesAssumption DEF ArrayType
<1> HIDE DEF x
<1>4. array'[a] = x /\ \A b \in Arrays \ {a} : array'[b] = array[b]
  BY <1>1 DEF Inv, ListsType
<1>5. /\ \A k \in Keys : promised'[a][k] =
           IF array[a].reg # Nil /\ k \in keys[array[a].reg] THEN promised[a][k]
           ELSE IF Prepared(a, k) THEN Nil ELSE v
      /\ \A b \in Arrays \ {a} : promised'[b] = promised[b]
  BY <1>1 DEF Inv, CountsType
<1>6. ASSUME NEW k \in Keys, array[a].reg \in Registries
      PROVE  \/ promised'[a][k] = Nil
             \/ promised'[a][k] = IF k < Len(x.data) THEN x.data[k + 1] ELSE x.default
  <2>1. Len(array[a].data) = size[array[a].reg] /\ array[a].reg # Nil
    BY <1>1, <1>6, NamesAssumption DEF Inv, SizesFollow
  <2>2. CASE k \in keys[array[a].reg]
    <3>1. k < Len(array[a].data)
      BY <1>6, <2>1, <2>2 DEF KeysFit
    <3>2. promised'[a][k] = promised[a][k]
      BY <1>5, <2>1, <2>2
    <3> QED
      BY <1>1, <1>3, <1>6, <3>1, <3>2 DEF StorageRight
  <2>3. CASE k \notin keys[array[a].reg]
    BY <1>3, <1>5, <2>1, <2>3 DEF Prepared
  <2> QED
    BY <2>2, <2>3
<1> QED
  BY <1>1, <1>3, <1>4, <1>5, <1>6 DEF StorageRight, Lives

\* Arrays of a cleared forest keep no promise for the storage they have.
LEMMA ClearStorageStep ==
  ASSUME Inv, StorageRight, NEW r \in Registries, Clear(r)
  PROVE  StorageRight'
<1>1. /\ UNCHANGED array
      /\ promised' = [a \in Arrays |->
           IF Lives(a) /\ array[a].reg = r
           THEN [k \in Keys |-> IF Prepared(a, k) THEN Nil ELSE array[a].default]
           ELSE promised[a]]
  BY DEF Clear
<1> SUFFICES ASSUME NEW a \in Arrays, Lives(a), NEW q \in Registries, array[a].reg = q,
                    NEW k \in Keys
             PROVE  \/ promised'[a][k] = Nil
                    \/ promised'[a][k] = IF k < Len(array[a].data) THEN array[a].data[k + 1]
                                         ELSE array[a].default
  BY <1>1 DEF StorageRight, Lives
<1>2. CASE q = r
  <2>1. promised'[a][k] = IF Prepared(a, k) THEN Nil ELSE array[a].default
    BY <1>1, <1>2
  <2>2. Prepared(a, k) <=> k < Len(array[a].data)
    BY NamesAssumption DEF Prepared, Inv, SizesFollow
  <2> QED
    BY <2>1, <2>2
<1>3. CASE q # r
  BY <1>1, <1>3 DEF StorageRight
<1> QED
  BY <1>2, <1>3

LEMMA StorageStep ==
  ASSUME Inv, KeysFit, StorageRight, [Next]_vars
  PROVE  StorageRight'
<1>1. CASE UNCHANGED vars
  BY <1>1 DEF vars, StorageRight, Lives
<1>2. ASSUME NEW a \in Arrays, Destruct(a) PROVE StorageRight'
  <2>1. array'[a] = Nil /\ \A b \in Arrays \ {a} : array'[b] = array[b]
    BY <1>2 DEF Destruct, Inv, ListsType
  <2>2. UNCHANGED <<keys, promised>>
    BY <1>2 DEF Destruct, ghosts
  <2> QED
    BY <2>1, <2>2 DEF StorageRight, Lives
<1>3. ASSUME NEW r \in Registries, NewForest(r) PROVE StorageRight'
  <2>1. /\ ~Exists(r) /\ keys' = [keys EXCEPT ![r] = {}] /\ UNCHANGED <<array, promised>>
    BY <1>3 DEF NewForest
  <2>2. \A a \in Arrays : Lives(a) => array[a].reg # r
    BY <2>1, NamesAssumption DEF Inv, RegistrationsExact
  <2> QED
    BY <2>1, <2>2 DEF StorageRight, Lives, Inv, CountsType
<1>4. ASSUME NEW r \in Registries, DestroyForest(r) PROVE StorageRight'
  <2>1. /\ keys' = [keys EXCEPT ![r] = {}] /\ UNCHANGED promised
        /\ array' = [a \in Arrays |-> IF a \in Registered(r) THEN Unregistered(array[a])
                                      ELSE array[a]]
    BY <1>4 DEF DestroyForest
  <2>2. \A a \in Arrays : a \in Registered(r) <=> Lives(a) /\ array[a].reg = r
    BY NamesAssumption DEF Registered, Inv, ListsType, RegistrationsExact
  <2>3. \A a \in Arrays : Lives(a) => Unregistered(array[a]).reg = Nil
    <3> SUFFICES ASSUME NEW a \in Arrays, Lives(a) PROVE Unregistered(array[a]).reg = Nil
      OBVIOUS
    <3>1. Resized(array[a], 0) \in ArrayType
      BY ResizedRight DEF Inv, ListsType, Lives
    <3> QED
      BY <3>1 DEF Unregistered, ArrayType
  <2>4. ASSUME NEW a \in Arrays, array'[a] # Nil, NEW q \in Registries, array'[a].reg = q
        PROVE  Lives(a) /\ array'[a] = array[a] /\ keys'[q] = keys[q]
    <3>1. ~(Lives(a) /\ array[a].reg = r)
      BY <2>1, <2>2, <2>3, <2>4, NamesAssumption
    <3>2. array'[a] = array[a]
      BY <2>1, <2>2, <3>1
    <3> QED
      BY <2>1, <2>4, <3>1, <3>2 DEF Lives, Inv, CountsType
  <2> QED
    BY <2>1, <2>4 DEF StorageRight, Lives
<1>5. ASSUME NEW r \in Registries, NEW k \in Keys, BeginKeepIds(r, k) PROVE StorageRight'
  BY <1>5 DEF BeginKeepIds, StorageRight, Lives
<1> QED
  BY <1>1, <1>2, <1>3, <1>4, <1>5, NewStorageStep, CopyStorageStep, MoveStorageStep,
     WriteStorageStep, FillStorageStep, NewNodeStorageStep, SetDefaultStorageStep,
     ClearStorageStep DEF Next

\* A node's value is the last one written for it or the default, with the two
\* exceptions promised states: storage there was before setDefault() or clear().
THEOREM PromisesCorrect == Spec => []PromisesKept
<1>1. Init => StorageRight
  BY DEF Init, StorageRight, Lives
<1>2. Inv /\ KeysFit /\ StorageRight /\ [Next]_vars => StorageRight'
  BY StorageStep
<1>3. Inv /\ KeysFit /\ StorageRight => PromisesKept
  BY StorageRightIn
<1> QED
  BY <1>1, <1>2, <1>3, KeysFitHolds, PTL DEF Spec

-----------------------------------------------------------------------------
\* What the theorems assume.
NodesFinite == IsFiniteSet(Node) /\ Null \notin Node

Types ==
  /\ following \in [Node -> Node \cup {Null}] /\ prev \in [Node -> Node \cup {Null}]
  /\ first \in [List -> Node \cup {Null}] /\ last \in [List -> Node \cup {Null}]
  /\ count \in [List -> Nat]
  /\ content \in [List -> Seq(Node)]

\* No node is in two lists, or twice in one.
OnePlace ==
  \A l, m \in List : \A i \in 1..Len(content[l]), j \in 1..Len(content[m]) :
    content[l][i] = content[m][j] => l = m /\ i = j

\* The links of one list, in both directions.
LinkedAt(l) ==
  /\ count[l] = Len(content[l])
  /\ Len(content[l]) = 0 => first[l] = Null /\ last[l] = Null
  /\ Len(content[l]) > 0 =>
       first[l] = content[l][1] /\ last[l] = content[l][Len(content[l])]
  /\ \A i \in 1..Len(content[l]) :
       /\ following[content[l][i]] = IF i = Len(content[l]) THEN Null ELSE content[l][i + 1]
       /\ prev[content[l][i]] = IF i = 1 THEN Null ELSE content[l][i - 1]

\* The inductive invariant.
IInv == Types /\ OnePlace /\ \A l \in List : LinkedAt(l)
-----------------------------------------------------------------------------
(***************************************************************************)
(* Sequences, element by element.                                          *)
(***************************************************************************)
\* A node in front of a list.
LEMMA InFront ==
  ASSUME NEW S, NEW c \in Seq(S), NEW x \in S, NEW d, d = <<x>> \o c
  PROVE  /\ d \in Seq(S) /\ Len(d) = Len(c) + 1 /\ d # <<>>
         /\ DOMAIN d = 1..Len(c) + 1 /\ DOMAIN c = 1..Len(c)
         /\ d[1] = x /\ \A i \in 2..Len(c) + 1 : d[i] = c[i - 1]
<1>1. <<x>> \in Seq(S) /\ Len(<<x>>) = 1 /\ <<x>>[1] = x
  OBVIOUS
<1>2. /\ d \in Seq(S) /\ Len(d) = Len(c) + 1
      /\ \A i \in 1..Len(c) + 1 : d[i] = IF i <= 1 THEN <<x>>[i] ELSE c[i - 1]
  BY <1>1, ConcatProperties
<1>3. Len(c) \in Nat /\ DOMAIN c = 1..Len(c) /\ DOMAIN d = 1..Len(d)
  BY <1>2, LenProperties
<1> QED
  BY <1>1, <1>2, <1>3

\* A node behind a list.
LEMMA AtEnd ==
  ASSUME NEW S, NEW c \in Seq(S), NEW x \in S, NEW d, d = Append(c, x)
  PROVE  /\ d \in Seq(S) /\ Len(d) = Len(c) + 1 /\ d # <<>>
         /\ DOMAIN d = 1..Len(c) + 1 /\ DOMAIN c = 1..Len(c)
         /\ d[Len(c) + 1] = x /\ \A i \in 1..Len(c) : d[i] = c[i]
<1>1. /\ d \in Seq(S) /\ Len(d) = Len(c) + 1
      /\ \A i \in 1..Len(c) : d[i] = c[i]
      /\ d[Len(c) + 1] = x
  BY AppendProperties
<1>2. Len(c) \in Nat /\ DOMAIN c = 1..Len(c) /\ DOMAIN d = 1..Len(d)
  BY <1>1, LenProperties
<1> QED
  BY <1>1, <1>2

\* One list behind another.
LEMMA Behind ==
  ASSUME NEW S, NEW a \in Seq(S), NEW b \in Seq(S), NEW d, d = a \o b
  PROVE  /\ d \in Seq(S) /\ Len(d) = Len(a) + Len(b)
         /\ DOMAIN d = 1..Len(a) + Len(b)
         /\ DOMAIN a = 1..Len(a) /\ DOMAIN b = 1..Len(b)
         /\ Len(a) \in Nat /\ Len(b) \in Nat
         /\ \A i \in 1..Len(a) + Len(b) : d[i] = IF i <= Len(a) THEN a[i] ELSE b[i - Len(a)]
<1>1. /\ d \in Seq(S) /\ Len(d) = Len(a) + Len(b)
      /\ \A i \in 1..Len(a) + Len(b) : d[i] = IF i <= Len(a) THEN a[i] ELSE b[i - Len(a)]
  BY ConcatProperties
<1>2. /\ Len(a) \in Nat /\ DOMAIN a = 1..Len(a) /\ Len(b) \in Nat /\ DOMAIN b = 1..Len(b)
      /\ DOMAIN d = 1..Len(d)
  BY <1>1, LenProperties
<1> QED
  BY <1>1, <1>2

\* A list without its k-th node.
LEMMA Removed ==
  ASSUME NEW S, NEW c \in Seq(S), NEW k \in 1..Len(c)
  PROVE  /\ WithoutAt(c, k) \in Seq(S) /\ Len(WithoutAt(c, k)) = Len(c) - 1
         /\ DOMAIN WithoutAt(c, k) = 1..Len(c) - 1
         /\ \A i \in 1..Len(c) - 1 : WithoutAt(c, k)[i] = IF i < k THEN c[i] ELSE c[i + 1]
<1>1. PICK n \in Nat : Len(c) = n /\ n - 1 \in Nat
  BY LenProperties
<1>2. \A i \in 1..n : c[i] \in S
  BY <1>1, ElementOfSeq
<1>3. \A i \in 1..n - 1 : i \in 1..n /\ i + 1 \in 1..n
  BY <1>1
<1>4. WithoutAt(c, k) \in [1..n - 1 -> S]
  BY <1>1, <1>2, <1>3 DEF WithoutAt
<1>5. WithoutAt(c, k) \in Seq(S) /\ Len(WithoutAt(c, k)) = n - 1
  BY <1>1, <1>4, IsASeq, LenProperties
<1> QED
  BY <1>1, <1>5 DEF WithoutAt
-----------------------------------------------------------------------------
(***************************************************************************)
(* The contents of lists.                                                  *)
(***************************************************************************)
\* Each list is a sequence of nodes.
LEMMA Contents ==
  ASSUME Types, NodesFinite, NEW l \in List
  PROVE  /\ content[l] \in Seq(Node)
         /\ Len(content[l]) \in Nat /\ DOMAIN content[l] = 1..Len(content[l])
         /\ \A i \in 1..Len(content[l]) : content[l][i] \in Node /\ content[l][i] # Null
         /\ Members(l) = {content[l][i] : i \in 1..Len(content[l])}
<1>1. content[l] \in Seq(Node) /\ Null \notin Node
  BY DEF Types, NodesFinite
<1>2. Len(content[l]) \in Nat /\ DOMAIN content[l] = 1..Len(content[l])
  BY <1>1, LenProperties
<1>3. \A i \in 1..Len(content[l]) : content[l][i] \in Node
  BY <1>1, ElementOfSeq
<1> QED
  BY <1>1, <1>2, <1>3 DEF Members

\* A list whose nodes keep their links keeps them all.
LEMMA Untouched ==
  ASSUME NEW m \in List, LinkedAt(m),
         content'[m] = content[m], count'[m] = count[m],
         first'[m] = first[m], last'[m] = last[m],
         \A i \in 1..Len(content[m]) : /\ following'[content[m][i]] = following[content[m][i]]
                                       /\ prev'[content[m][i]] = prev[content[m][i]]
  PROVE  LinkedAt(m)'
BY DEF LinkedAt

\* A list that takes over another one, links as they are.
LEMMA TakenOver ==
  ASSUME NEW m \in List, NEW o \in List, LinkedAt(o),
         content'[m] = content[o], count'[m] = count[o],
         first'[m] = first[o], last'[m] = last[o],
         following' = following, prev' = prev
  PROVE  LinkedAt(m)'
<1> DEFINE c == content[o]
<1>1. /\ count[o] = Len(c)
      /\ Len(c) = 0 => first[o] = Null /\ last[o] = Null
      /\ Len(c) > 0 => first[o] = c[1] /\ last[o] = c[Len(c)]
      /\ \A i \in 1..Len(c) :
           /\ following[c[i]] = IF i = Len(c) THEN Null ELSE c[i + 1]
           /\ prev[c[i]] = IF i = 1 THEN Null ELSE c[i - 1]
  BY DEF LinkedAt
<1>2. content'[m] = c
  OBVIOUS
<1> HIDE DEF c
<1>3. /\ count'[m] = Len(c)
      /\ Len(c) = 0 => first'[m] = Null /\ last'[m] = Null
      /\ Len(c) > 0 => first'[m] = c[1] /\ last'[m] = c[Len(c)]
      /\ \A i \in 1..Len(c) :
           /\ following'[c[i]] = IF i = Len(c) THEN Null ELSE c[i + 1]
           /\ prev'[c[i]] = IF i = 1 THEN Null ELSE c[i - 1]
  BY <1>1
<1> QED
  BY <1>2, <1>3 DEF LinkedAt

\* The ends of a list are nodes of it, and null for an empty one.
LEMMA Ends ==
  ASSUME IInv, NodesFinite, NEW l \in List
  PROVE  /\ first[l] = Null <=> Len(content[l]) = 0
         /\ last[l] = Null <=> Len(content[l]) = 0
         /\ \A m \in List \ {l} : \A i \in 1..Len(content[m]) :
              content[m][i] # first[l] /\ content[m][i] # last[l]
<1>1. Types /\ OnePlace /\ LinkedAt(l)
  BY DEF IInv
<1>2. \A m \in List : /\ Len(content[m]) \in Nat
                      /\ \A i \in 1..Len(content[m]) : content[m][i] # Null
  BY <1>1, Contents
<1>3. CASE Len(content[l]) = 0
  BY <1>1, <1>2, <1>3 DEF LinkedAt
<1>4. CASE Len(content[l]) > 0
  <2>1. 1 \in 1..Len(content[l]) /\ Len(content[l]) \in 1..Len(content[l])
    BY <1>2, <1>4
  <2>2. first[l] = content[l][1] /\ last[l] = content[l][Len(content[l])]
    BY <1>1, <1>4 DEF LinkedAt
  <2> QED
    BY <1>1, <1>2, <1>4, <2>1, <2>2 DEF OnePlace
<1> QED
  BY <1>2, <1>3, <1>4

\* A field after one link was set.
LEMMA LinkedType ==
  ASSUME NEW f \in [Node -> Node \cup {Null}], NEW x, NEW y \in Node \cup {Null}
  PROVE  /\ Linked(f, x, y) \in [Node -> Node \cup {Null}]
         /\ \A z \in Node : Linked(f, x, y)[z] = IF z = x THEN y ELSE f[z]
BY DEF Linked
-----------------------------------------------------------------------------
(***************************************************************************)
(* The operations.                                                         *)
(***************************************************************************)
LEMMA PushFrontInv ==
  ASSUME IInv, NodesFinite, NEW l \in List, NEW x \in Node, PushFront(l, x)
  PROVE  IInv'
<1> DEFINE c == content[l]
           d == <<x>> \o c
<1>1. Types /\ OnePlace /\ (\A m \in List : LinkedAt(m)) /\ Null \notin Node
  BY DEF IInv, NodesFinite
<1>2. c \in Seq(Node) /\ Len(c) \in Nat
  BY <1>1, Contents
<1>3. /\ d \in Seq(Node) /\ Len(d) = Len(c) + 1 /\ d[1] = x
      /\ \A i \in 2..Len(c) + 1 : d[i] = c[i - 1]
  BY <1>2, InFront
<1>4. \A m \in List : \A i \in 1..Len(content[m]) : content[m][i] # x
  BY <1>1, Contents DEF PushFront, InNoList
<1>5. /\ content' = [content EXCEPT ![l] = d]
      /\ first' = [first EXCEPT ![l] = x]
      /\ last' = [last EXCEPT ![l] = IF first[l] = Null THEN x ELSE @]
      /\ count' = [count EXCEPT ![l] = @ + 1]
      /\ following' = Linked(following, x, first[l])
      /\ prev' = Linked(Linked(prev, first[l], x), x, Null)
  BY DEF PushFront
<1>6. /\ following' \in [Node -> Node \cup {Null}] /\ prev' \in [Node -> Node \cup {Null}]
      /\ \A z \in Node : following'[z] = IF z = x THEN first[l] ELSE following[z]
      /\ \A z \in Node : prev'[z] = IF z = x THEN Null
                                    ELSE IF z = first[l] THEN x ELSE prev[z]
  <2>1. first[l] \in Node \cup {Null} /\ following \in [Node -> Node \cup {Null}]
        /\ prev \in [Node -> Node \cup {Null}]
    BY <1>1 DEF Types
  <2>2. /\ Linked(prev, first[l], x) \in [Node -> Node \cup {Null}]
        /\ \A z \in Node : Linked(prev, first[l], x)[z] = IF z = first[l] THEN x ELSE prev[z]
    BY <2>1, LinkedType
  <2> QED
    BY <1>5, <2>1, <2>2, LinkedType
<1> HIDE DEF c, d
<1>7. Types'
  BY <1>1, <1>3, <1>5, <1>6 DEF Types
<1>8. content'[l] = d /\ \A m \in List \ {l} : content'[m] = content[m]
  BY <1>1, <1>5 DEF Types
<1>9. OnePlace'
  <2> SUFFICES ASSUME NEW m \in List, NEW o \in List,
                      NEW i \in 1..Len(content'[m]), NEW j \in 1..Len(content'[o]),
                      content'[m][i] = content'[o][j]
               PROVE  m = o /\ i = j
    BY DEF OnePlace
  <2>1. ASSUME NEW q \in List, NEW k \in 1..Len(content'[q])
        PROVE  \/ q = l /\ k = 1 /\ content'[q][k] = x
               \/ \E h \in 1..Len(content[q]) :
                    /\ content'[q][k] = content[q][h]
                    /\ k = IF q = l THEN h + 1 ELSE h
    <3>1. CASE q = l /\ k = 1
      BY <1>3, <1>8, <3>1
    <3>2. CASE q = l /\ k > 1
      <4>1. k - 1 \in 1..Len(c) /\ d[k] = c[k - 1] /\ k = (k - 1) + 1
        BY <1>2, <1>3, <1>8, <3>2
      <4> QED
        BY <1>8, <3>2, <4>1 DEF c
    <3>3. CASE q # l
      BY <1>8, <3>3
    <3>4. k = 1 \/ k > 1
      BY <1>2, <1>3, <1>8, <3>3
    <3> QED
      BY <3>1, <3>2, <3>3, <3>4
  <2>2. CASE m = l /\ i = 1 /\ content'[m][i] = x
    BY <1>4, <2>1, <2>2
  <2>3. CASE o = l /\ j = 1 /\ content'[o][j] = x
    BY <1>4, <2>1, <2>3
  <2>4. CASE /\ \E h \in 1..Len(content[m]) :
                  content'[m][i] = content[m][h] /\ i = IF m = l THEN h + 1 ELSE h
             /\ \E h \in 1..Len(content[o]) :
                  content'[o][j] = content[o][h] /\ j = IF o = l THEN h + 1 ELSE h
    <3>1. PICK h \in 1..Len(content[m]) :
                 content'[m][i] = content[m][h] /\ i = IF m = l THEN h + 1 ELSE h
      BY <2>4
    <3>2. PICK g \in 1..Len(content[o]) :
                 content'[o][j] = content[o][g] /\ j = IF o = l THEN g + 1 ELSE g
      BY <2>4
    <3>3. content[m][h] = content[o][g]
      BY <3>1, <3>2
    <3>4. m = o /\ h = g
      BY <1>1, <3>3 DEF OnePlace
    <3> QED
      BY <3>1, <3>2, <3>4
  <2> QED
    BY <2>1, <2>2, <2>3, <2>4
<1>10. ASSUME NEW m \in List, m # l
       PROVE  LinkedAt(m)'
  <2>1. \A i \in 1..Len(content[m]) : /\ content[m][i] \in Node /\ content[m][i] # x
                                      /\ content[m][i] # first[l]
    BY <1>1, <1>4, <1>10, Contents, Ends
  <2>2. \A i \in 1..Len(content[m]) : /\ following'[content[m][i]] = following[content[m][i]]
                                      /\ prev'[content[m][i]] = prev[content[m][i]]
    BY <1>6, <2>1
  <2>3. count'[m] = count[m] /\ first'[m] = first[m] /\ last'[m] = last[m]
    BY <1>1, <1>5, <1>10 DEF Types
  <2> QED
    BY <1>1, <1>8, <1>10, <2>2, <2>3, Untouched
<1>11. LinkedAt(l)'
  <2>1. LinkedAt(l) /\ (first[l] = Null <=> Len(c) = 0)
    BY <1>1, Ends DEF c
  <2>2. count'[l] = Len(d) /\ first'[l] = d[1]
    BY <1>1, <1>3, <1>5, <2>1 DEF LinkedAt, Types, c
  <2>3. last'[l] = d[Len(d)]
    <3>1. CASE Len(c) = 0
      BY <1>1, <1>3, <1>5, <2>1, <3>1 DEF Types
    <3>2. CASE Len(c) > 0
      <4>1. last'[l] = c[Len(c)]
        BY <1>1, <1>5, <2>1, <3>2 DEF Types, LinkedAt, c
      <4>2. Len(d) \in 2..Len(c) + 1 /\ Len(d) - 1 = Len(c)
        BY <1>2, <1>3, <3>2
      <4> QED
        BY <1>3, <4>1, <4>2
    <3> QED
      BY <1>2, <3>1, <3>2
  <2>4. ASSUME NEW i \in 1..Len(d)
        PROVE  /\ following'[d[i]] = IF i = Len(d) THEN Null ELSE d[i + 1]
               /\ prev'[d[i]] = IF i = 1 THEN Null ELSE d[i - 1]
    <3>1. CASE i = 1
      <4>1. following'[d[i]] = first[l] /\ prev'[d[i]] = Null
        BY <1>3, <1>6, <3>1
      <4>2. CASE Len(c) = 0
        BY <1>3, <2>1, <3>1, <4>1, <4>2
      <4>3. CASE Len(c) > 0
        <5>1. first[l] = c[1] /\ d[2] = c[1] /\ i # Len(d) /\ i + 1 = 2
          BY <1>2, <1>3, <2>1, <3>1, <4>3 DEF LinkedAt, c
        <5> QED
          BY <3>1, <4>1, <5>1
      <4> QED
        BY <1>2, <4>2, <4>3
    <3>2. CASE i > 1
      <4>1. PICK k \in 1..Len(c) : i = k + 1 /\ d[i] = c[k]
        BY <1>2, <1>3, <3>2
      <4>2. /\ c[k] \in Node /\ c[k] # x
            /\ following[c[k]] = IF k = Len(c) THEN Null ELSE c[k + 1]
            /\ prev[c[k]] = IF k = 1 THEN Null ELSE c[k - 1]
        BY <1>1, <1>4, <2>1, Contents DEF LinkedAt, c
      <4>3. following'[d[i]] = IF i = Len(d) THEN Null ELSE d[i + 1]
        <5>1. following'[d[i]] = following[c[k]]
          BY <1>6, <4>1, <4>2
        <5>2. k # Len(c) => i + 1 \in 2..Len(c) + 1 /\ d[i + 1] = c[k + 1]
          BY <1>2, <1>3, <4>1
        <5>3. k = Len(c) <=> i = Len(d)
          BY <1>2, <1>3, <4>1
        <5> QED
          BY <4>2, <5>1, <5>2, <5>3
      <4>4. prev'[d[i]] = IF i = 1 THEN Null ELSE d[i - 1]
        <5>1. CASE k = 1
          <6>1. c[k] = first[l]
            BY <1>2, <2>1, <5>1 DEF LinkedAt, c
          <6> QED
            BY <1>3, <1>6, <3>2, <4>1, <4>2, <5>1, <6>1
        <5>2. CASE k # 1
          <6>1. c[k] # first[l]
            <7>1. first[l] = c[1] /\ 1 \in 1..Len(c)
              BY <1>2, <2>1 DEF LinkedAt, c
            <7> QED
              BY <1>1, <5>2, <7>1 DEF OnePlace, c
          <6>2. prev'[d[i]] = c[k - 1]
            BY <1>6, <4>1, <4>2, <5>2, <6>1
          <6>3. i - 1 = k /\ k \in 2..Len(c) + 1 /\ d[k] = c[k - 1]
            BY <1>2, <1>3, <4>1, <5>2
          <6> QED
            BY <3>2, <6>2, <6>3
        <5> QED
          BY <5>1, <5>2
      <4> QED
        BY <4>3, <4>4
    <3> QED
      BY <3>1, <3>2
  <2>5. Len(d) > 0
    BY <1>2, <1>3
  <2> QED
    BY <1>8, <2>2, <2>3, <2>4, <2>5 DEF LinkedAt
<1> QED
  BY <1>7, <1>9, <1>10, <1>11 DEF IInv

LEMMA PushBackInv ==
  ASSUME IInv, NodesFinite, NEW l \in List, NEW x \in Node, PushBack(l, x)
  PROVE  IInv'
<1> DEFINE c == content[l]
           d == Append(c, x)
<1>1. Types /\ OnePlace /\ (\A m \in List : LinkedAt(m)) /\ Null \notin Node
  BY DEF IInv, NodesFinite
<1>2. c \in Seq(Node) /\ Len(c) \in Nat
  BY <1>1, Contents
<1>3. /\ d \in Seq(Node) /\ Len(d) = Len(c) + 1 /\ d[Len(c) + 1] = x
      /\ \A i \in 1..Len(c) : d[i] = c[i]
  BY <1>2, AtEnd
<1>4. \A m \in List : \A i \in 1..Len(content[m]) : content[m][i] # x
  BY <1>1, Contents DEF PushBack, InNoList
<1>5. /\ content' = [content EXCEPT ![l] = d]
      /\ last' = [last EXCEPT ![l] = x]
      /\ first' = [first EXCEPT ![l] = IF last[l] = Null THEN x ELSE @]
      /\ count' = [count EXCEPT ![l] = @ + 1]
      /\ prev' = Linked(prev, x, last[l])
      /\ following' = Linked(Linked(following, last[l], x), x, Null)
  BY DEF PushBack, EndLink
<1>6. /\ following' \in [Node -> Node \cup {Null}] /\ prev' \in [Node -> Node \cup {Null}]
      /\ \A z \in Node : prev'[z] = IF z = x THEN last[l] ELSE prev[z]
      /\ \A z \in Node : following'[z] = IF z = x THEN Null
                                    ELSE IF z = last[l] THEN x ELSE following[z]
  <2>1. last[l] \in Node \cup {Null} /\ following \in [Node -> Node \cup {Null}]
        /\ prev \in [Node -> Node \cup {Null}]
    BY <1>1 DEF Types
  <2>2. /\ Linked(following, last[l], x) \in [Node -> Node \cup {Null}]
        /\ \A z \in Node : Linked(following, last[l], x)[z] = IF z = last[l] THEN x ELSE following[z]
    BY <2>1, LinkedType
  <2> QED
    BY <1>5, <2>1, <2>2, LinkedType
<1> HIDE DEF c, d
<1>7. Types'
  BY <1>1, <1>3, <1>5, <1>6 DEF Types
<1>8. content'[l] = d /\ \A m \in List \ {l} : content'[m] = content[m]
  BY <1>1, <1>5 DEF Types
<1>9. OnePlace'
  <2> SUFFICES ASSUME NEW m \in List, NEW o \in List,
                      NEW i \in 1..Len(content'[m]), NEW j \in 1..Len(content'[o]),
                      content'[m][i] = content'[o][j]
               PROVE  m = o /\ i = j
    BY DEF OnePlace
  <2>1. ASSUME NEW q \in List, NEW k \in 1..Len(content'[q])
        PROVE  \/ q = l /\ k = Len(c) + 1 /\ content'[q][k] = x
               \/ k \in 1..Len(content[q]) /\ content'[q][k] = content[q][k]
    <3>1. CASE q = l
      <4>1. k = Len(c) + 1 \/ k \in 1..Len(c)
        BY <1>2, <1>3, <1>8, <3>1
      <4> QED
        BY <1>3, <1>8, <3>1, <4>1 DEF c
    <3>2. CASE q # l
      BY <1>8, <3>2
    <3> QED
      BY <3>1, <3>2
  <2>2. CASE m = l /\ i = Len(c) + 1 /\ content'[m][i] = x
    BY <1>4, <2>1, <2>2
  <2>3. CASE o = l /\ j = Len(c) + 1 /\ content'[o][j] = x
    BY <1>4, <2>1, <2>3
  <2>4. CASE /\ i \in 1..Len(content[m]) /\ content'[m][i] = content[m][i]
             /\ j \in 1..Len(content[o]) /\ content'[o][j] = content[o][j]
    <3>1. content[m][i] = content[o][j]
      BY <2>4
    <3> QED
      BY <1>1, <2>4, <3>1 DEF OnePlace
  <2> QED
    BY <2>1, <2>2, <2>3, <2>4
<1>10. ASSUME NEW m \in List, m # l
       PROVE  LinkedAt(m)'
  <2>1. \A i \in 1..Len(content[m]) : /\ content[m][i] \in Node /\ content[m][i] # x
                                      /\ content[m][i] # last[l]
    BY <1>1, <1>4, <1>10, Contents, Ends
  <2>2. \A i \in 1..Len(content[m]) : /\ following'[content[m][i]] = following[content[m][i]]
                                      /\ prev'[content[m][i]] = prev[content[m][i]]
    BY <1>6, <2>1
  <2>3. count'[m] = count[m] /\ first'[m] = first[m] /\ last'[m] = last[m]
    BY <1>1, <1>5, <1>10 DEF Types
  <2> QED
    BY <1>1, <1>8, <1>10, <2>2, <2>3, Untouched
<1>11. LinkedAt(l)'
  <2>1. LinkedAt(l) /\ (last[l] = Null <=> Len(c) = 0)
    BY <1>1, Ends DEF c
  <2>2. count'[l] = Len(d) /\ last'[l] = d[Len(d)]
    BY <1>1, <1>3, <1>5, <2>1 DEF LinkedAt, Types, c
  <2>3. first'[l] = d[1]
    <3>1. CASE Len(c) = 0
      BY <1>1, <1>3, <1>5, <2>1, <3>1 DEF Types
    <3>2. CASE Len(c) > 0
      <4>1. first'[l] = c[1] /\ 1 \in 1..Len(c)
        BY <1>1, <1>2, <1>5, <2>1, <3>2 DEF Types, LinkedAt, c
      <4> QED
        BY <1>3, <4>1
    <3> QED
      BY <1>2, <3>1, <3>2
  <2>4. ASSUME NEW i \in 1..Len(d)
        PROVE  /\ following'[d[i]] = IF i = Len(d) THEN Null ELSE d[i + 1]
               /\ prev'[d[i]] = IF i = 1 THEN Null ELSE d[i - 1]
    <3>1. CASE i = Len(c) + 1
      <4>1. following'[d[i]] = Null /\ prev'[d[i]] = last[l]
        BY <1>3, <1>6, <3>1
      <4>2. CASE Len(c) = 0
        BY <1>3, <2>1, <3>1, <4>1, <4>2
      <4>3. CASE Len(c) > 0
        <5>1. last[l] = c[Len(c)] /\ Len(c) \in 1..Len(c) /\ i # 1 /\ i - 1 = Len(c)
          BY <1>2, <2>1, <3>1, <4>3 DEF LinkedAt, c
        <5>2. d[i - 1] = last[l]
          BY <1>3, <5>1
        <5> QED
          BY <1>3, <3>1, <4>1, <5>1, <5>2
      <4> QED
        BY <1>2, <4>2, <4>3
    <3>2. CASE i \in 1..Len(c)
      <4>1. /\ d[i] = c[i] /\ c[i] \in Node /\ c[i] # x
            /\ following[c[i]] = IF i = Len(c) THEN Null ELSE c[i + 1]
            /\ prev[c[i]] = IF i = 1 THEN Null ELSE c[i - 1]
        BY <1>1, <1>3, <1>4, <2>1, <3>2, Contents DEF LinkedAt, c
      <4>2. prev'[d[i]] = IF i = 1 THEN Null ELSE d[i - 1]
        <5>1. prev'[d[i]] = prev[c[i]]
          BY <1>6, <4>1
        <5>2. i # 1 => d[i - 1] = c[i - 1]
          BY <1>2, <1>3, <3>2
        <5> QED
          BY <4>1, <5>1, <5>2
      <4>3. following'[d[i]] = IF i = Len(d) THEN Null ELSE d[i + 1]
        <5>1. i # Len(d)
          BY <1>2, <1>3, <3>2
        <5>2. CASE i = Len(c)
          <6>1. c[i] = last[l]
            BY <1>2, <2>1, <3>2, <5>2 DEF LinkedAt, c
          <6> QED
            BY <1>3, <1>6, <4>1, <5>1, <5>2, <6>1
        <5>3. CASE i # Len(c)
          <6>1. c[i] # last[l]
            <7>1. last[l] = c[Len(c)] /\ Len(c) \in 1..Len(c)
              BY <1>2, <2>1, <3>2 DEF LinkedAt, c
            <7> QED
              BY <1>1, <3>2, <5>3, <7>1 DEF OnePlace, c
          <6>2. following'[d[i]] = c[i + 1]
            BY <1>6, <4>1, <5>3, <6>1
          <6>3. d[i + 1] = c[i + 1]
            BY <1>2, <1>3, <3>2, <5>3
          <6> QED
            BY <5>1, <6>2, <6>3
        <5> QED
          BY <5>2, <5>3
      <4> QED
        BY <4>2, <4>3
    <3> QED
      BY <1>2, <1>3, <3>1, <3>2
  <2>5. Len(d) > 0
    BY <1>2, <1>3
  <2> QED
    BY <1>8, <2>2, <2>3, <2>4, <2>5 DEF LinkedAt
<1> QED
  BY <1>7, <1>9, <1>10, <1>11 DEF IInv

LEMMA EraseInv ==
  ASSUME IInv, NodesFinite, NEW l \in List, NEW x, Erase(l, x)
  PROVE  IInv'
<1> DEFINE c == content[l]
           n == Len(c)
<1>1. Types /\ OnePlace /\ (\A m \in List : LinkedAt(m)) /\ Null \notin Node
  BY DEF IInv, NodesFinite
<1>2. c \in Seq(Node) /\ n \in Nat /\ \A i \in 1..n : c[i] \in Node /\ c[i] # Null
  BY <1>1, Contents
<1>3. PICK k \in 1..n : c[k] = x /\ content' = [content EXCEPT ![l] = WithoutAt(c, k)]
  BY <1>1, Contents DEF Erase
<1> DEFINE d == WithoutAt(c, k)
<1>4. /\ d \in Seq(Node) /\ Len(d) = n - 1
      /\ \A i \in 1..n - 1 : d[i] = IF i < k THEN c[i] ELSE c[i + 1]
  BY <1>2, Removed
<1>5. /\ first' = [first EXCEPT ![l] = IF x = @ THEN following[x] ELSE @]
      /\ last' = [last EXCEPT ![l] = IF x = @ THEN prev[x] ELSE @]
      /\ count' = [count EXCEPT ![l] = @ - 1]
      /\ following' = Linked(following, prev[x], following[x])
      /\ prev' = Linked(prev, following[x], prev[x])
      /\ content' = [content EXCEPT ![l] = d]
  BY <1>3 DEF Erase
<1> HIDE DEF c, n, d
<1>6. /\ count[l] = n /\ x \in Node
      /\ following[x] = IF k = n THEN Null ELSE c[k + 1]
      /\ prev[x] = IF k = 1 THEN Null ELSE c[k - 1]
      /\ first[l] = c[1] /\ last[l] = c[n]
      /\ \A i \in 1..n : /\ following[c[i]] = IF i = n THEN Null ELSE c[i + 1]
                         /\ prev[c[i]] = IF i = 1 THEN Null ELSE c[i - 1]
  <2>1. LinkedAt(l) /\ n > 0
    BY <1>1, <1>2
  <2> QED
    BY <1>2, <1>3, <2>1 DEF LinkedAt, c, n
<1>7. \A i, j \in 1..n : c[i] = c[j] => i = j
  BY <1>1 DEF OnePlace, c, n
<1>8. /\ following' \in [Node -> Node \cup {Null}] /\ prev' \in [Node -> Node \cup {Null}]
      /\ \A z \in Node : following'[z] = IF z = prev[x] THEN following[x] ELSE following[z]
      /\ \A z \in Node : prev'[z] = IF z = following[x] THEN prev[x] ELSE prev[z]
  <2>1. /\ following \in [Node -> Node \cup {Null}] /\ prev \in [Node -> Node \cup {Null}]
        /\ following[x] \in Node \cup {Null} /\ prev[x] \in Node \cup {Null}
    BY <1>1, <1>6 DEF Types
  <2> QED
    BY <1>5, <2>1, LinkedType
<1>9. content'[l] = d /\ \A m \in List \ {l} : content'[m] = content[m]
  BY <1>1, <1>5 DEF Types
<1>10. Types'
  <2>1. following[x] \in Node \cup {Null} /\ prev[x] \in Node \cup {Null} /\ count[l] - 1 \in Nat
    BY <1>1, <1>2, <1>6 DEF Types
  <2> QED
    BY <1>1, <1>4, <1>5, <1>8, <2>1 DEF Types
<1>11. OnePlace'
  <2> SUFFICES ASSUME NEW m \in List, NEW o \in List,
                      NEW i \in 1..Len(content'[m]), NEW j \in 1..Len(content'[o]),
                      content'[m][i] = content'[o][j]
               PROVE  m = o /\ i = j
    BY DEF OnePlace
  <2>1. ASSUME NEW q \in List, NEW r \in 1..Len(content'[q])
        PROVE  \E h \in 1..Len(content[q]) :
                 /\ content'[q][r] = content[q][h]
                 /\ h = IF q = l /\ r >= k THEN r + 1 ELSE r
    <3>1. CASE q = l
      <4>1. r \in 1..n - 1 /\ d[r] = IF r < k THEN c[r] ELSE c[r + 1]
        BY <1>4, <1>9, <3>1
      <4>2. r \in 1..n /\ r + 1 \in 1..n
        BY <1>2, <4>1
      <4> QED
        BY <1>2, <1>9, <3>1, <4>1, <4>2 DEF c, n
    <3>2. CASE q # l
      BY <1>9, <3>2
    <3> QED
      BY <3>1, <3>2
  <2>2. PICK h \in 1..Len(content[m]) :
               /\ content'[m][i] = content[m][h]
               /\ h = IF m = l /\ i >= k THEN i + 1 ELSE i
    BY <2>1
  <2>3. PICK g \in 1..Len(content[o]) :
               /\ content'[o][j] = content[o][g]
               /\ g = IF o = l /\ j >= k THEN j + 1 ELSE j
    BY <2>1
  <2>4. content[m][h] = content[o][g]
    BY <2>2, <2>3
  <2>5. m = o /\ h = g
    BY <1>1, <2>4 DEF OnePlace
  <2>6. Len(content'[m]) \in Nat /\ Len(content'[o]) \in Nat
    BY <1>1, <1>2, <1>4, <1>9, Contents, LenProperties
  <2>7. i \in Nat /\ j \in Nat /\ k \in Nat
    BY <1>2, <2>6
  <2> QED
    BY <2>2, <2>3, <2>5, <2>7
<1>12. ASSUME NEW m \in List, m # l
       PROVE  LinkedAt(m)'
  <2>1. \A i \in 1..Len(content[m]) : /\ content[m][i] \in Node
                                      /\ content[m][i] # prev[x] /\ content[m][i] # following[x]
    <3>1. prev[x] = Null \/ \E i \in 1..n : prev[x] = c[i]
      BY <1>2, <1>6
    <3>2. following[x] = Null \/ \E i \in 1..n : following[x] = c[i]
      BY <1>2, <1>6
    <3>3. \A i \in 1..Len(content[m]) : content[m][i] \in Node /\ content[m][i] # Null
      BY <1>1, Contents
    <3>4. \A i \in 1..Len(content[m]), j \in 1..n : content[m][i] # c[j]
      BY <1>1, <1>12 DEF OnePlace, c, n
    <3> QED
      BY <3>1, <3>2, <3>3, <3>4
  <2>2. \A i \in 1..Len(content[m]) : /\ following'[content[m][i]] = following[content[m][i]]
                                      /\ prev'[content[m][i]] = prev[content[m][i]]
    BY <1>8, <2>1
  <2>3. count'[m] = count[m] /\ first'[m] = first[m] /\ last'[m] = last[m]
    BY <1>1, <1>5, <1>12 DEF Types
  <2> QED
    BY <1>1, <1>9, <1>12, <2>2, <2>3, Untouched
<1>13. LinkedAt(l)'
  <2>1. count'[l] = Len(d)
    BY <1>1, <1>4, <1>5, <1>6 DEF Types
  <2>2. /\ first'[l] = IF k = 1 THEN following[x] ELSE c[1]
        /\ last'[l] = IF k = n THEN prev[x] ELSE c[n]
    <3>1. 1 \in 1..n /\ n \in 1..n
      BY <1>2
    <3>2. (x = c[1] <=> k = 1) /\ (x = c[n] <=> k = n)
      BY <1>3, <1>7, <3>1
    <3> QED
      BY <1>1, <1>5, <1>6, <3>2 DEF Types
  <2>3. Len(d) = 0 => first'[l] = Null /\ last'[l] = Null
    BY <1>2, <1>4, <1>6, <2>2
  <2>4. Len(d) > 0 => first'[l] = d[1] /\ last'[l] = d[Len(d)]
    <3> SUFFICES ASSUME n - 1 > 0
                 PROVE  first'[l] = d[1] /\ last'[l] = d[n - 1]
      BY <1>4
    <3>1. 1 \in 1..n - 1 /\ n - 1 \in 1..n - 1
      BY <1>2
    <3>2. d[1] = IF 1 < k THEN c[1] ELSE c[2]
      BY <1>4, <3>1
    <3>3. d[n - 1] = IF n - 1 < k THEN c[n - 1] ELSE c[n]
      BY <1>2, <1>4, <3>1
    <3>4. k = 1 => k # n /\ k + 1 = 2
      BY <1>2
    <3>5. (n - 1 < k <=> k = n) /\ (1 < k <=> k # 1)
      BY <1>2
    <3> QED
      BY <1>6, <2>2, <3>2, <3>3, <3>4, <3>5
  <2>5. ASSUME NEW i \in 1..Len(d)
        PROVE  /\ following'[d[i]] = IF i = Len(d) THEN Null ELSE d[i + 1]
               /\ prev'[d[i]] = IF i = 1 THEN Null ELSE d[i - 1]
    <3>1. i \in 1..n - 1 /\ Len(d) = n - 1
      BY <1>4
    <3>2. CASE i < k
      <4>1. d[i] = c[i] /\ i \in 1..n /\ c[i] \in Node
        BY <1>2, <1>4, <3>1, <3>2
      <4>2. prev'[d[i]] = IF i = 1 THEN Null ELSE c[i - 1]
        <5>1. c[i] # following[x]
          <6>1. k # n => k + 1 \in 1..n /\ i # k + 1
            BY <1>2, <3>2
          <6> QED
            BY <1>2, <1>6, <1>7, <4>1, <6>1
        <5> QED
          BY <1>6, <1>8, <4>1, <5>1
      <4>3. i # 1 => d[i - 1] = c[i - 1]
        <5>1. i # 1 => i - 1 \in 1..n - 1 /\ i - 1 < k
          BY <1>2, <3>1, <3>2
        <5> QED
          BY <1>4, <5>1
      <4>4. CASE i = k - 1
        <5>1. following'[d[i]] = following[x]
          <6>1. prev[x] = c[i]
            BY <1>2, <1>6, <3>1, <4>4
          <6> QED
            BY <1>8, <4>1, <6>1
        <5>2. i = n - 1 <=> k = n
          BY <1>2, <4>4
        <5>3. k # n => d[i + 1] = c[k + 1]
          <6>1. i + 1 = k /\ ~(k < k) /\ (k # n => k \in 1..n - 1)
            BY <1>2, <4>4
          <6> QED
            BY <1>4, <6>1
        <5> QED
          BY <1>6, <3>1, <4>2, <4>3, <5>1, <5>2, <5>3
      <4>5. CASE i # k - 1
        <5>1. c[i] # prev[x]
          <6>1. k # 1 => k - 1 \in 1..n
            BY <1>2
          <6> QED
            BY <1>2, <1>6, <1>7, <4>1, <4>5, <6>1
        <5>2. i + 1 < k /\ i # n - 1 /\ i # n /\ i + 1 \in 1..n - 1
          BY <1>2, <3>1, <3>2, <4>5
        <5>3. following'[d[i]] = c[i + 1]
          BY <1>6, <1>8, <4>1, <5>1, <5>2
        <5>4. d[i + 1] = c[i + 1]
          BY <1>4, <5>2
        <5> QED
          BY <3>1, <4>2, <4>3, <5>2, <5>3, <5>4
      <4> QED
        BY <4>4, <4>5
    <3>3. CASE ~(i < k)
      <4> DEFINE h == i + 1
      <4>1. /\ h \in 1..n /\ h # 1 /\ h - 1 = i /\ h # k /\ i >= k
            /\ (h = n <=> i = n - 1)
        BY <1>2, <3>1, <3>3
      <4>2. d[i] = c[h] /\ c[h] \in Node
        BY <1>2, <1>4, <3>1, <3>3, <4>1
      <4> HIDE DEF h
      <4>3. following'[d[i]] = IF h = n THEN Null ELSE c[h + 1]
        <5>1. c[h] # prev[x]
          <6>1. k # 1 => k - 1 \in 1..n /\ h # k - 1
            BY <1>2, <4>1
          <6> QED
            BY <1>2, <1>6, <1>7, <4>1, <6>1
        <5> QED
          BY <1>6, <1>8, <4>1, <4>2, <5>1
      <4>4. h # n => d[i + 1] = c[h + 1]
        <5>1. h # n => h \in 1..n - 1 /\ ~(h < k) /\ i + 1 = h
          BY <1>2, <4>1
        <5> QED
          BY <1>4, <5>1
      <4>5. prev'[d[i]] = IF i = 1 THEN Null ELSE d[i - 1]
        <5>1. CASE i = k
          <6>1. following[x] = c[h]
            <7>1. k # n /\ k + 1 = h
              BY <1>2, <4>1, <5>1
            <7> QED
              BY <1>6, <7>1
          <6>2. prev'[d[i]] = prev[x]
            BY <1>8, <4>2, <6>1
          <6>3. i # 1 => d[i - 1] = c[k - 1]
            <7>1. i # 1 => i - 1 \in 1..n - 1 /\ i - 1 < k
              BY <1>2, <3>1, <5>1
            <7> QED
              BY <1>4, <5>1, <7>1
          <6> QED
            BY <1>6, <5>1, <6>2, <6>3
        <5>2. CASE i # k
          <6>1. c[h] # following[x]
            <7>1. k # n => k + 1 \in 1..n /\ h # k + 1
              BY <1>2, <4>1, <5>2
            <7> QED
              BY <1>2, <1>6, <1>7, <4>1, <7>1
          <6>2. prev'[d[i]] = c[i]
            BY <1>6, <1>8, <4>1, <4>2, <6>1
          <6>3. i # 1 /\ i - 1 \in 1..n - 1 /\ ~(i - 1 < k) /\ (i - 1) + 1 = i
            BY <1>2, <3>1, <4>1, <5>2
          <6>4. d[i - 1] = c[i]
            <7>1. d[i - 1] = c[(i - 1) + 1]
              BY <1>4, <6>3
            <7> QED
              BY <6>3, <7>1
          <6> QED
            BY <6>2, <6>3, <6>4
        <5> QED
          BY <5>1, <5>2
      <4> QED
        BY <3>1, <4>1, <4>3, <4>4, <4>5
    <3> QED
      BY <3>2, <3>3
  <2> QED
    BY <1>9, <2>1, <2>3, <2>4, <2>5 DEF LinkedAt
<1> QED
  BY <1>10, <1>11, <1>12, <1>13 DEF IInv

\* The lists p and q, which are l and o, become one in l.
Joined(l, o, p, q) ==
  /\ following' = Linked(following, last[p], first[q])
  /\ prev' = Linked(prev, first[q], last[p])
  /\ first' = Emptied([first EXCEPT ![l] = first[p]], o, Null)
  /\ last' = Emptied([last EXCEPT ![l] = last[q]], o, Null)
  /\ count' = Emptied([count EXCEPT ![l] = count[l] + count[o]], o, 0)
  /\ content' = [content EXCEPT ![l] = content[p] \o content[q], ![o] = <<>>]

LEMMA JoinInv ==
  ASSUME IInv, NodesFinite, NEW l \in List, NEW o \in List, l # o,
         NEW p \in {l, o}, NEW q \in {l, o}, p # q,
         Len(content[p]) > 0, Len(content[q]) > 0,
         Joined(l, o, p, q)
  PROVE  IInv'
<1> DEFINE a == content[p]
           b == content[q]
           d == a \o b
           s == Len(a)
           t == Len(b)
<1>1. Types /\ OnePlace /\ (\A m \in List : LinkedAt(m)) /\ Null \notin Node
      /\ p \in List /\ q \in List
  BY DEF IInv, NodesFinite
<1>2. /\ a \in Seq(Node) /\ b \in Seq(Node) /\ s \in Nat \ {0} /\ t \in Nat \ {0}
      /\ \A i \in 1..s : a[i] \in Node
      /\ \A i \in 1..t : b[i] \in Node
  BY <1>1, Contents
<1>3. /\ d \in Seq(Node) /\ Len(d) = s + t
      /\ \A i \in 1..s + t : d[i] = IF i <= s THEN a[i] ELSE b[i - s]
  <2> HIDE DEF a, b
  <2>1. a \in Seq(Node) /\ b \in Seq(Node)
    BY <1>2
  <2> QED
    BY <2>1, ConcatProperties
<1> HIDE DEF a, b, d, s, t
<1>4. /\ first[p] = a[1] /\ last[p] = a[s] /\ count[p] = s
      /\ first[q] = b[1] /\ last[q] = b[t] /\ count[q] = t
      /\ \A i \in 1..s : /\ following[a[i]] = IF i = s THEN Null ELSE a[i + 1]
                         /\ prev[a[i]] = IF i = 1 THEN Null ELSE a[i - 1]
      /\ \A i \in 1..t : /\ following[b[i]] = IF i = t THEN Null ELSE b[i + 1]
                         /\ prev[b[i]] = IF i = 1 THEN Null ELSE b[i - 1]
  BY <1>1 DEF LinkedAt, a, b, s, t
<1>5. /\ \A i, j \in 1..s : a[i] = a[j] => i = j
      /\ \A i, j \in 1..t : b[i] = b[j] => i = j
      /\ \A i \in 1..s, j \in 1..t : a[i] # b[j]
  BY <1>1 DEF OnePlace, a, b, s, t
<1>6. 1 \in 1..s /\ s \in 1..s /\ 1 \in 1..t /\ t \in 1..t
  BY <1>2
<1>7. /\ following' \in [Node -> Node \cup {Null}] /\ prev' \in [Node -> Node \cup {Null}]
      /\ \A z \in Node : following'[z] = IF z = a[s] THEN b[1] ELSE following[z]
      /\ \A z \in Node : prev'[z] = IF z = b[1] THEN a[s] ELSE prev[z]
  <2>1. a[s] \in Node /\ b[1] \in Node
    BY <1>2, <1>6
  <2>2. following' = Linked(following, a[s], b[1]) /\ prev' = Linked(prev, b[1], a[s])
    BY <1>4 DEF Joined
  <2>3. following \in [Node -> Node \cup {Null}] /\ prev \in [Node -> Node \cup {Null}]
    BY <1>1 DEF Types
  <2> QED
    BY <2>1, <2>2, <2>3, LinkedType
<1>8. /\ content'[l] = d /\ content'[o] = <<>>
      /\ first'[l] = a[1] /\ first'[o] = Null
      /\ last'[l] = b[t] /\ last'[o] = Null
      /\ count'[l] = s + t /\ count'[o] = 0
      /\ \A m \in List \ {l, o} : /\ content'[m] = content[m] /\ count'[m] = count[m]
                                  /\ first'[m] = first[m] /\ last'[m] = last[m]
  <2>1. count[l] + count[o] = s + t
    BY <1>2, <1>4
  <2> QED
    BY ZenonT(40), <1>1, <1>4, <2>1 DEF Joined, Types, Emptied, a, b, d
<1>9. Types'
  <2>1. <<>> \in Seq(Node)
    OBVIOUS
  <2>2. content' \in [List -> Seq(Node)]
    BY <1>1, <1>3, <2>1 DEF Joined, Types, a, b, d
  <2>3. /\ first[p] \in Node \cup {Null} /\ last[q] \in Node \cup {Null}
        /\ count[l] + count[o] \in Nat
    BY <1>1 DEF Types
  <2>4. first' \in [List -> Node \cup {Null}] /\ last' \in [List -> Node \cup {Null}]
        /\ count' \in [List -> Nat]
    BY <1>1, <2>3 DEF Joined, Types, Emptied
  <2> QED
    BY <1>7, <2>2, <2>4 DEF Types
<1>10. OnePlace'
  <2> SUFFICES ASSUME NEW m \in List, NEW r \in List,
                      NEW i \in 1..Len(content'[m]), NEW j \in 1..Len(content'[r]),
                      content'[m][i] = content'[r][j]
               PROVE  m = r /\ i = j
    BY DEF OnePlace
  <2>1. ASSUME NEW y \in List, NEW k \in 1..Len(content'[y])
        PROVE  \E g \in List : \E h \in 1..Len(content[g]) :
                 /\ content'[y][k] = content[g][h]
                 /\ \/ y = l /\ g = p /\ k = h
                    \/ y = l /\ g = q /\ k = s + h
                    \/ y \notin {l, o} /\ g = y /\ k = h
    <3>1. CASE y = l
      <4>1. k \in 1..s + t
        BY <1>3, <1>8, <3>1
      <4>2. CASE k <= s
        <5>1. k \in 1..s /\ d[k] = a[k]
          BY <1>2, <1>3, <4>1, <4>2
        <5> QED
          BY <1>1, <1>8, <3>1, <5>1 DEF a, s
      <4>3. CASE ~(k <= s)
        <5>1. k - s \in 1..t /\ k = s + (k - s)
          BY SMTT(20), <1>2, <4>1, <4>3
        <5>2. d[k] = b[k - s]
          BY <1>3, <4>1, <4>3
        <5> QED
          BY <1>1, <1>8, <3>1, <5>1, <5>2 DEF b, t
      <4> QED
        BY <4>2, <4>3
    <3>2. y # o
      <4>1. Len(<<>>) = 0 /\ ~(k \in 1..0)
        OBVIOUS
      <4> QED
        BY <1>8, <4>1
    <3>3. CASE y \notin {l, o}
      BY <1>8, <3>3
    <3> QED
      BY <3>1, <3>2, <3>3
  <2>2. PICK g \in List : \E h \in 1..Len(content[g]) :
               /\ content'[m][i] = content[g][h]
               /\ \/ m = l /\ g = p /\ i = h
                  \/ m = l /\ g = q /\ i = s + h
                  \/ m \notin {l, o} /\ g = m /\ i = h
    BY <2>1
  <2>3. PICK e \in List : \E f \in 1..Len(content[e]) :
               /\ content'[r][j] = content[e][f]
               /\ \/ r = l /\ e = p /\ j = f
                  \/ r = l /\ e = q /\ j = s + f
                  \/ r \notin {l, o} /\ e = r /\ j = f
    BY <2>1
  <2>4. PICK h \in 1..Len(content[g]) :
               /\ content'[m][i] = content[g][h]
               /\ \/ m = l /\ g = p /\ i = h
                  \/ m = l /\ g = q /\ i = s + h
                  \/ m \notin {l, o} /\ g = m /\ i = h
    BY <2>2
  <2>5. PICK f \in 1..Len(content[e]) :
               /\ content'[r][j] = content[e][f]
               /\ \/ r = l /\ e = p /\ j = f
                  \/ r = l /\ e = q /\ j = s + f
                  \/ r \notin {l, o} /\ e = r /\ j = f
    BY <2>3
  <2>6. content[g][h] = content[e][f]
    BY <2>4, <2>5
  <2>7. g = e /\ h = f
    <3>1. OnePlace
      BY <1>1
    <3>2. \A k \in 1..Len(content[g]), n \in 1..Len(content[e]) :
            content[g][k] = content[e][n] => g = e /\ k = n
      BY <3>1 DEF OnePlace
    <3> QED BY <2>6, <3>2
  <2> QED
    BY <2>4, <2>5, <2>7
<1>11. ASSUME NEW m \in List \ {l, o}
       PROVE  LinkedAt(m)'
  <2>1. \A i \in 1..Len(content[m]) : content[m][i] \in Node
    BY <1>1, Contents
  <2>2. \A i \in 1..Len(content[m]) : content[m][i] # a[s] /\ content[m][i] # b[1]
    BY <1>1, <1>6 DEF OnePlace, a, b, s, t
  <2>3. \A i \in 1..Len(content[m]) : /\ following'[content[m][i]] = following[content[m][i]]
                                      /\ prev'[content[m][i]] = prev[content[m][i]]
    BY <1>7, <2>1, <2>2
  <2> QED
    BY <1>1, <1>8, <2>3, Untouched
<1>12. LinkedAt(o)'
  <2>1. Len(<<>>) = 0 /\ ~(0 > 0) /\ \A i \in 1..0 : FALSE
    OBVIOUS
  <2> QED
    BY <1>8, <2>1 DEF LinkedAt
<1>13. LinkedAt(l)'
  <2>1. d[1] = a[1] /\ d[s + t] = b[t]
    <3>1. /\ 1 \in 1..s + t /\ 1 <= s /\ s + t \in 1..s + t /\ ~(s + t <= s)
          /\ (s + t) - s = t
      BY <1>2
    <3> QED
      BY <1>3, <3>1
  <2>2. ASSUME NEW i \in 1..s + t
        PROVE  /\ following'[d[i]] = IF i = s + t THEN Null ELSE d[i + 1]
               /\ prev'[d[i]] = IF i = 1 THEN Null ELSE d[i - 1]
    <3>1. CASE i <= s
      <4>1. i \in 1..s /\ d[i] = a[i] /\ a[i] \in Node /\ i # s + t
        BY <1>2, <1>3, <3>1
      <4>2. following'[d[i]] = d[i + 1]
        <5>1. CASE i = s
          <6>1. s + 1 \in 1..s + t /\ ~(s + 1 <= s) /\ (s + 1) - s = 1
            BY <1>2
          <6>2. d[s + 1] = b[1]
            BY <1>3, <6>1
          <6> QED
            BY <1>7, <4>1, <5>1, <6>2
        <5>2. CASE i # s
          <6>1. following'[d[i]] = a[i + 1]
            BY <1>4, <1>5, <1>6, <1>7, <4>1, <5>2
          <6>2. i + 1 \in 1..s + t /\ i + 1 <= s
            BY <1>2, <4>1, <5>2
          <6> QED
            BY <1>3, <6>1, <6>2
        <5> QED
          BY <5>1, <5>2
      <4>3. prev'[d[i]] = IF i = 1 THEN Null ELSE d[i - 1]
        <5>1. prev'[d[i]] = IF i = 1 THEN Null ELSE a[i - 1]
          BY <1>4, <1>5, <1>6, <1>7, <4>1
        <5>2. i # 1 => i - 1 \in 1..s + t /\ i - 1 <= s
          BY <1>2, <4>1
        <5> QED
          BY <1>3, <5>1, <5>2
      <4> QED
        BY <4>1, <4>2, <4>3
    <3>2. CASE ~(i <= s)
      <4> DEFINE k == i - s
      <4>1. k \in 1..t /\ d[i] = b[k] /\ i # 1 /\ (i = s + t <=> k = t)
        BY <1>2, <1>3, <3>2
      <4>2. k # t => d[i + 1] = b[k + 1]
        <5>1. k # t => i + 1 \in 1..s + t /\ ~(i + 1 <= s) /\ (i + 1) - s = k + 1
          BY <1>2, <3>2
        <5> QED
          BY <1>3, <5>1
      <4>3. d[i - 1] = IF k = 1 THEN a[s] ELSE b[k - 1]
        <5>1. CASE k = 1
          <6>1. i - 1 = s /\ s \in 1..s + t /\ s <= s
            BY <1>2, <5>1
          <6> QED
            BY <1>3, <5>1, <6>1
        <5>2. CASE k # 1
          <6>1. i - 1 \in 1..s + t /\ ~(i - 1 <= s) /\ (i - 1) - s = k - 1
            BY <1>2, <3>2, <5>2
          <6> QED
            BY <1>3, <5>2, <6>1
        <5> QED
          BY <5>1, <5>2
      <4> HIDE DEF k
      <4>4. following'[d[i]] = IF k = t THEN Null ELSE b[k + 1]
        <5>1. b[k] # a[s] /\ b[k] \in Node
          BY <1>2, <1>5, <1>6, <4>1
        <5> QED
          BY <1>4, <1>7, <4>1, <5>1
      <4>5. prev'[d[i]] = IF k = 1 THEN a[s] ELSE b[k - 1]
        <5>1. b[k] \in Node /\ (b[k] = b[1] <=> k = 1)
          BY <1>2, <1>5, <1>6, <4>1
        <5> QED
          BY <1>4, <1>7, <4>1, <5>1
      <4> QED
        BY <4>1, <4>2, <4>3, <4>4, <4>5
    <3> QED
      BY <3>1, <3>2
  <2>3. Len(d) > 0
    BY <1>2, <1>3
  <2>4. Len(d) = s + t /\ content'[l] = d
    BY <1>3, <1>8
  <2>5. \A i \in 1..Len(d) : /\ following'[d[i]] = IF i = Len(d) THEN Null ELSE d[i + 1]
                             /\ prev'[d[i]] = IF i = 1 THEN Null ELSE d[i - 1]
    BY <2>2, <2>4
  <2>6. first'[l] = d[1] /\ last'[l] = d[Len(d)] /\ count'[l] = Len(d)
    BY <1>8, <2>1, <2>4
  <2> QED
    BY <2>3, <2>4, <2>5, <2>6 DEF LinkedAt
<1> QED
  BY <1>9, <1>10, <1>11, <1>12, <1>13 DEF IInv

LEMMA SpliceAtEndInv ==
  ASSUME IInv, NodesFinite, NEW l \in List, NEW o \in List, SpliceAtEnd(l, o)
  PROVE  IInv'
<1>1. Types /\ OnePlace /\ (\A m \in List : LinkedAt(m)) /\ Null \notin Node /\ l # o
  BY DEF IInv, NodesFinite, SpliceAtEnd, MaySplice
<1>2. /\ Len(content[l]) \in Nat /\ count[l] = Len(content[l])
      /\ Len(content[o]) \in Nat /\ count[o] = Len(content[o])
      /\ content[o] \in Seq(Node) /\ content[l] \in Seq(Node)
  BY <1>1, Contents DEF LinkedAt
<1>3. CASE Len(content[l]) > 0
  <2>1. Len(content[o]) > 0
    BY <1>2, <1>3 DEF SpliceAtEnd, MaySplice
  <2>2. last[l] # Null /\ first[o] # Null
    BY <1>2, <1>3, <2>1, Ends
  <2>3. Joined(l, o, l, o)
    BY <1>1, <2>2 DEF SpliceAtEnd, Join, Joined, Types
  <2> QED
    BY <1>1, <1>3, <2>1, <2>3, JoinInv
<1>4. CASE Len(content[l]) = 0
  <2>1. last[l] = Null /\ content[l] = <<>>
    BY <1>1, <1>2, <1>4, EmptySeq DEF LinkedAt
  <2>2. content[l] \o content[o] = content[o]
    BY <1>2, <2>1, ConcatEmptySeq
  <2>3. /\ content' = [content EXCEPT ![l] = content[o], ![o] = <<>>]
        /\ first' = Emptied([first EXCEPT ![l] = first[o]], o, Null)
        /\ last' = Emptied([last EXCEPT ![l] = last[o]], o, Null)
        /\ count' = Emptied([count EXCEPT ![l] = count[o]], o, 0)
        /\ following' = following /\ prev' = prev
    <3>1. count[l] + count[o] = count[o]
      BY <1>2, <1>4
    <3> QED
      BY <1>1, <2>1, <2>2, <3>1 DEF SpliceAtEnd, Join, Types
  <2>4. /\ content'[l] = content[o] /\ content'[o] = <<>>
        /\ first'[l] = first[o] /\ first'[o] = Null
        /\ last'[l] = last[o] /\ last'[o] = Null
        /\ count'[l] = count[o] /\ count'[o] = 0
        /\ \A m \in List \ {l, o} : /\ content'[m] = content[m] /\ count'[m] = count[m]
                                    /\ first'[m] = first[m] /\ last'[m] = last[m]
    BY <1>1, <2>3 DEF Types, Emptied
  <2>5. Types'
    <3>1. <<>> \in Seq(Node)
      OBVIOUS
    <3> QED
      BY <1>1, <2>3, <3>1 DEF Types, Emptied
  <2>6. OnePlace'
    <3>1. Len(<<>>) = 0 /\ \A i \in 1..0 : FALSE
      OBVIOUS
    <3>2. \A m \in List : m # o => content'[m] = content[IF m = l THEN o ELSE m]
      BY <2>4
    <3> SUFFICES ASSUME NEW m \in List, NEW r \in List,
                        NEW i \in 1..Len(content'[m]), NEW j \in 1..Len(content'[r]),
                        content'[m][i] = content'[r][j]
                 PROVE  m = r /\ i = j
      BY DEF OnePlace
    <3>3. m # o /\ r # o
      BY <2>4, <3>1
    <3> QED
      BY <1>1, <2>4, <3>3 DEF OnePlace
  <2>7. ASSUME NEW m \in List
        PROVE  LinkedAt(m)'
    <3>1. CASE m = l
      BY <1>1, <2>3, <2>4, <3>1, TakenOver
    <3>2. CASE m = o
      <4>1. Len(<<>>) = 0 /\ ~(0 > 0) /\ \A i \in 1..0 : FALSE
        OBVIOUS
      <4> QED
        BY <2>4, <3>2, <4>1 DEF LinkedAt
    <3>3. CASE m \notin {l, o}
      BY <1>1, <2>3, <2>4, <3>3, Untouched
    <3> QED
      BY <3>1, <3>2, <3>3
  <2> QED
    BY <2>5, <2>6, <2>7 DEF IInv
<1> QED
  BY <1>2, <1>3, <1>4

LEMMA SpliceAtBeginInv ==
  ASSUME IInv, NodesFinite, NEW l \in List, NEW o \in List, SpliceAtBegin(l, o)
  PROVE  IInv'
<1>1. /\ Types /\ (\A m \in List : LinkedAt(m)) /\ l # o
      /\ first[l] # Null
  BY DEF IInv, SpliceAtBegin, MaySplice
<1>2. /\ Len(content[l]) \in Nat /\ count[l] = Len(content[l])
      /\ Len(content[o]) \in Nat /\ count[o] = Len(content[o])
  BY <1>1, Contents DEF LinkedAt
<1>3. Len(content[l]) > 0
  BY <1>1, <1>2 DEF LinkedAt
<1>4. Len(content[o]) > 0
  BY <1>2, <1>3 DEF SpliceAtBegin, MaySplice
<1>5. last[o] # Null
  BY <1>2, <1>4, Ends
<1>6. Joined(l, o, o, l)
  <2>1. [last EXCEPT ![l] = last[l]] = last
    BY <1>1 DEF Types
  <2> QED
    BY <1>1, <1>5, <2>1 DEF SpliceAtBegin, Join, Joined, Types
<1> QED
  BY <1>1, <1>3, <1>4, <1>6, JoinInv

LEMMA ClearListInv ==
  ASSUME IInv, NodesFinite, NEW l \in List, ClearList(l)
  PROVE  IInv'
<1>1. Types /\ OnePlace /\ (\A m \in List : LinkedAt(m))
  BY DEF IInv
<1>2. /\ content'[l] = <<>> /\ first'[l] = Null /\ last'[l] = Null /\ count'[l] = 0
      /\ \A m \in List \ {l} : /\ content'[m] = content[m] /\ count'[m] = count[m]
                               /\ first'[m] = first[m] /\ last'[m] = last[m]
      /\ following' = following /\ prev' = prev
  BY <1>1 DEF ClearList, Types
<1>3. <<>> \in Seq(Node) /\ Len(<<>>) = 0 /\ ~(0 > 0) /\ \A i \in 1..0 : FALSE
  OBVIOUS
<1>4. Types'
  BY <1>1, <1>3 DEF ClearList, Types
<1>5. OnePlace'
  <2> SUFFICES ASSUME NEW m \in List, NEW r \in List,
                      NEW i \in 1..Len(content'[m]), NEW j \in 1..Len(content'[r]),
                      content'[m][i] = content'[r][j]
               PROVE  m = r /\ i = j
    BY DEF OnePlace
  <2>1. m # l /\ r # l
    BY <1>2, <1>3
  <2> QED
    BY <1>1, <1>2, <2>1 DEF OnePlace
<1>6. ASSUME NEW m \in List
      PROVE  LinkedAt(m)'
  <2>1. CASE m = l
    BY <1>2, <1>3, <2>1 DEF LinkedAt
  <2>2. CASE m # l
    BY <1>1, <1>2, <2>2, Untouched
  <2> QED
    BY <2>1, <2>2
<1> QED
  BY <1>4, <1>5, <1>6 DEF IInv
-----------------------------------------------------------------------------
(***************************************************************************)
(* The theorems.                                                           *)
(***************************************************************************)
\* The invariant implies the property, the bound of the counts included.
LEMMA IInvImplies ==
  ASSUME IInv, NodesFinite
  PROVE  ListsLinked
<1>1. Types /\ OnePlace /\ \A l \in List : LinkedAt(l)
  BY DEF IInv
<1>2. ASSUME NEW l \in List
      PROVE  /\ count[l] \in 0..Cardinality(Node)
             /\ content[l] = <<>> <=> Len(content[l]) = 0
             /\ Len(content[l]) \in Nat /\ DOMAIN content[l] = 1..Len(content[l])
  <2>1. /\ content[l] \in Seq(Node) /\ Len(content[l]) \in Nat
        /\ DOMAIN content[l] = 1..Len(content[l])
        /\ \A i \in 1..Len(content[l]) : content[l][i] \in Node
    BY <1>1, Contents
  <2>2. content[l] = <<>> <=> Len(content[l]) = 0
    BY <2>1, EmptySeq
  <2>3. content[l] \in Injection(1..Len(content[l]), Node)
    <3>1. content[l] \in [1..Len(content[l]) -> Node]
      BY <2>1, LenProperties
    <3>2. \A i, j \in 1..Len(content[l]) : content[l][i] = content[l][j] => i = j
      BY <1>1 DEF OnePlace
    <3> QED
      BY <3>1, <3>2 DEF Injection, IsInjective
  <2>4. Cardinality(1..Len(content[l])) <= Cardinality(Node)
    BY <2>3, FS_Injection DEF NodesFinite
  <2>5. Cardinality(1..Len(content[l])) = Len(content[l])
    BY <2>1, FS_Interval
  <2>6. Cardinality(Node) \in Nat
    BY FS_CardinalityType DEF NodesFinite
  <2>7. count[l] = Len(content[l])
    BY <1>1 DEF LinkedAt
  <2> QED
    BY <2>1, <2>2, <2>4, <2>5, <2>6, <2>7
<1>3. ListsTypeOK
  BY <1>1, <1>2 DEF Types, ListsTypeOK
<1>4. ForwardExact
  <2> SUFFICES ASSUME NEW l \in List
               PROVE  /\ count[l] = Len(content[l])
                      /\ first[l] = IF content[l] = <<>> THEN Null ELSE content[l][1]
                      /\ \A i \in DOMAIN content[l] :
                           following[content[l][i]] = IF i = Len(content[l]) THEN Null
                                                 ELSE content[l][i + 1]
    BY DEF ForwardExact
  <2> QED
    BY <1>1, <1>2 DEF LinkedAt
<1>5. BackwardExact
  <2> SUFFICES ASSUME NEW l \in List
               PROVE  /\ last[l] = IF content[l] = <<>> THEN Null
                                   ELSE content[l][Len(content[l])]
                      /\ \A i \in DOMAIN content[l] :
                           prev[content[l][i]] = IF i = 1 THEN Null ELSE content[l][i - 1]
    BY DEF BackwardExact
  <2> QED
    BY <1>1, <1>2 DEF LinkedAt
<1> QED
  BY <1>3, <1>4, <1>5 DEF ListsLinked

LEMMA InitIInv ==
  ASSUME ListsInit
  PROVE  IInv
<1>1. <<>> \in Seq(Node) /\ Len(<<>>) = 0 /\ ~(0 > 0) /\ \A i \in 1..0 : FALSE
  OBVIOUS
<1>2. \A l \in List : /\ content[l] = <<>> /\ count[l] = 0
                      /\ first[l] = Null /\ last[l] = Null
  BY DEF ListsInit
<1>3. Types
  BY <1>1 DEF ListsInit, Types
<1>4. OnePlace
  BY <1>1, <1>2 DEF OnePlace
<1>5. \A l \in List : LinkedAt(l)
  BY <1>1, <1>2 DEF LinkedAt
<1> QED
  BY <1>3, <1>4, <1>5 DEF IInv

LEMMA NextIInv ==
  ASSUME IInv, NodesFinite, [ListsNext]_links
  PROVE  IInv'
<1>1. CASE UNCHANGED links
  BY <1>1 DEF links, IInv, Types, OnePlace, LinkedAt
<1>2. ASSUME NEW l \in List, NEW x \in Node, PushFront(l, x) \/ PushBack(l, x) \/ Erase(l, x)
      PROVE  IInv'
  BY <1>2, PushFrontInv, PushBackInv, EraseInv
<1>3. ASSUME NEW l \in List, NEW o \in List, SpliceAtEnd(l, o) \/ SpliceAtBegin(l, o)
      PROVE  IInv'
  BY <1>3, SpliceAtEndInv, SpliceAtBeginInv
<1>4. ASSUME NEW l \in List, PopFront(l) \/ PopBack(l) \/ ClearList(l)
      PROVE  IInv'
  BY <1>4, EraseInv, ClearListInv DEF PopFront, PopBack
<1> QED
  BY <1>1, <1>2, <1>3, <1>4 DEF ListsNext

(***************************************************************************)
(* After any pushes, erasures, pops, splices and clears the links of the   *)
(* nodes, the ends and the counts are those of lists with the content      *)
(* there should be, in both directions (IntrusiveList).                    *)
(***************************************************************************)
THEOREM ListsCorrect ==
  ASSUME NodesFinite
  PROVE  ListsSpec => []ListsLinked
<1>1. ListsInit => IInv
  BY InitIInv
<1>2. IInv /\ [ListsNext]_links => IInv'
  BY NextIInv
<1>3. IInv => ListsLinked
  BY IInvImplies
<1> QED
  BY <1>1, <1>2, <1>3, PTL DEF ListsSpec
=============================================================================
