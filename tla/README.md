# A TLA+ verification of the PC-tree library

A PC-tree stands for a set of cyclic orders of its leaves. `makeConsecutive(S)`
restricts it to the orders in which the leaves of `S` follow each other, or
says that there are none. This directory holds TLA+ models of the library,
TLC configurations that check them on small instances, and theorems checked by
TLAPS. Every definition is a translation of the C++ source; `PROJECT.json`
names the lines (`map`), the runs, the hazards they are aimed at, the theorems
and one mutant of the model for every checked property.

The library is sequential: there are no threads, no messages and nothing is
stored. What is hard about it is of another kind: one call is a long algorithm
on a pointer structure, driven by a work list whose order is up to the caller;
it goes too far and has to take itself back; what one step records is used
several steps later, after the nodes it refers to have been merged away; and
calls follow each other for as long as the user likes.

## Inventory

| component | state | operations | what is hard | what makes it correct |
|---|---|---|---|---|
| **Restriction** (`src/src/PCTree_restriction.cpp`, `PCTree.h`) | the "temp makeConsecutive variables" of `PCTree`, the label and `TempInfo` of every node | `makeConsecutive`: `resetTempData`, `markFull`, `findTerminalPath`, `createCentralNode` or `updateSingletonTerminalPath`, `updateTerminalPath` | order of marking, overshooting the apex, ends of full blocks redirected after every merge, a failing search | the answer is true iff an order remains; the tree then stands for exactly these, otherwise for what it stood for before |
| **Tree structure** (`PCNode.h`, `PCNode.cpp`) | parent (a pointer, or the index of a C-node), unordered sibling pair, two outer children, child count | `appendChild`, `insertBetween`, `detach`, `replaceWith`, `mergeIntoParent`, neighbor queries | siblings have no orientation; the parent may be known under a stale index | child lists, parents and counts agree; every inner node has three neighbors |
| **Labels** (`PCNode::checkTimestamp`, `getLabel`) | a timestamp per node and per forest | lazy clearing | a stale label looks like a new one | reads give what an eager reset would give |
| **Union-find** (`util/DisjointSets.h`) | `m_parents`, element and set counts, capacity | `makeSet`, `find`, `link`, `quickUnion`, `init` | `find` writes to the pointers it follows | a partition that only `link`/`quickUnion` coarsen, `find` returns its representative |
| **Root changes** (`PCTree::changeRoot`, `setRoot`) | `m_rootNode` | turning the edges of a path around | C-nodes must keep their ring | the same cyclic orders |
| **Construction** (`PCTree_construction.cpp`) | node counts, list of leaves, identities | `newNode`, `destroyNode`, `insertLeaves`, `replaceLeaf`, `destroyLeaf`, `changeNodeType`, `insertTree`, copying | trees with few leaves, degree-two nodes, ownership | a valid tree with the expected leaves |
| **Forest** (`PCTreeForest`) | trees, `m_cNodes`, `m_parents`, next identity, timestamp, reusable nodes | `makeTree`, `clear` | what survives `clear`, reuse of nodes | no tree sees another tree's nodes |
| **Intersection** (`PCTree_intersect.cpp`) | leaf mapping, detached subtrees | `intersect`, `findNodeRestrictions`, `restoreSubtrees` | subtrees taken out and put back in the right orientation, also after a failure | the orders of both trees |
| **Queries** (`PCTree_basic.cpp`) | none, or a copy | `isValidOrder`, `checkValid`, `getRestrictions`, `currentLeafOrder`, `possibleOrders` | round trips | agree with the set of orders |
| **Embeddings** (`PCNode::nextEmbedding`) | order of children | `firstEmbedding`, `nextEmbedding`, `randomEmbedding` | enumeration comes around | every order once |
| **Lists** (`util/IntrusiveList.h`) | ends and count; the links are in the nodes | push, erase, `splice`, `clear` | erased nodes keep their links | both directions show the same list |
| **Registered arrays** (`util/RegisteredArray.h`, `PCRegistry.h`) | per forest a list of arrays; per array its entry, its values, its default | creation, copy, move, `init`, growth with the forest | an entry points back to an object that moves; growth in jumps | every node has a place, and reads what was written or the default |
| **Iterators** (`PCTreeIterators.h`, `PCNode::children()`, `neighbors()`) | the place reached, a stack of pending nodes | walks over neighbors, children, trees | the walker changes what it walks over | everything is met once |
| **Printing, parsing, logging** | none | | formatting | not a subject here |

They interact by direct calls and shared pointers: `makeConsecutive` rewrites
the tree through `PCNode`'s operations; these find parents of C-node children
through the forest's `m_cNodes` and `m_parents` (the union-find), in which
`mergeIntoParent` links the index of a merged C-node to that of its parent;
labels are validated against the forest's timestamp; observers are called back
between the steps of a restriction and only read. `intersect` drives the
restriction of one tree by the structure of another and takes parts of the
former out in between; its arrays, like the user's, grow with the forest through
the registry.

## Modules

| module | models |
|---|---|
| `PCTreeShape` | the rooted ordered tree, `PCNode`'s operations and neighbor queries on it, `changeRoot`, `checkValid` |
| `NodeRings` | the same operations as a specification: each edits one list of children |
| `PCNodeLinks` | the code behind them: sibling pointers without direction, the methods of `PCNode`, the iterators; implements `NodeRings` |
| `CNodeParents` | how a node knows its parent (pointer or index of a C-node), the table of C-nodes, the counters, the list of reusable nodes |
| `DisjointSets` | the union-find structure, `find` one round per step |
| `PCTreeOrders` | the cyclic orders of the leaves that a tree stands for |
| `CircularOnes` | the promise to the user: a set of cyclic orders that requests filter |
| `PCTreeRestriction` | `makeConsecutive` as a state machine on a tree |
| `PCTreeCorrectness` | properties of the search and of the trees that the update makes |
| `PCTreePromise` | what a call does to the orders the tree stands for, and the refinement `PromiseKept` of `CircularOnes` |
| `Labels`, `EagerLabels` | labels and temporary data validated by timestamps; what the algorithms rely on, where a reset clears every node at once |
| `Intersection` | `intersect` on top of `PCTreeRestriction`: taking out, standing in, putting back |
| `Construction` | the calls that build, take apart and join trees of one forest |
| `TreeRestrictions` | `getRestrictions`, one node per step |
| `Embeddings`, `OrderEnumeration` | `firstEmbedding`, `nextEmbedding`, `randomEmbedding`, `possibleOrders`; the promise that a loop has every order once |
| `IntrusiveLists` | lists whose links are fields of the nodes |
| `RegisteredArrays` | forests, their registries, the arrays registered there |
| `MCTrees` | a notation for the trees that runs start from |
| `MC...` | one instance for TLC each, see the runs |
| `NodeParentsProofs` | the theorems about `DisjointSets` and `CNodeParents`, and the link between them |
| `LabelsProofs`, `TreeRestrictionsProofs` | the theorems about these modules |
| `ContainersProofs` | the theorems about `RegisteredArrays` and `IntrusiveLists`, whose names differ so that both can be extended |
| `PCTreeShapeProofs` | lemmas about the trees that `CheckValid` accepts, about forests, about the edits of `PCNode`, and about sequences without repetition |
| `PCTreeUpdateProofs`, `PCTreeCorrectnessProofs` | the invariants of labelling and updating; the search, and the theorems about `makeConsecutive` |
| `ConstructionProofs` | the theorems about `Construction` |

Two compositions are checked as such: `Intersection` extends the restriction and
takes its steps, and each of `PCNodeLinks`, `CNodeParents`, `DisjointSets` and
`Labels` shows that the layer above it may use an abstraction (child lists,
exact parents, partitions, eager resets).

### The tree

A tree is a record of `type`, `parent`, `kids` and `root`. `kids[x]` is the
child list from `m_child1` to `m_child2`; parents are exact (what
`getParent()` returns). The sibling pointers are abstracted to positions in
the list, which `PCNodeLinks` justifies. The code never relies on which of a sibling's two pointers is which,
except that some loops start in the direction that happens to come first
(`getNextNeighbor(nullptr, ..)` in `checkTPPartialCNode` and `changeRoot`). The
actions choose these directions freely (`mirrored`): the model has every
behaviour of the pointers and possibly more. `changeRoot`'s path and the two
directions of every node on it are chosen in one step, since the user calls it
as a whole; what its loop does edge by edge is written down for every node of
the way up at once (`WayUp`, `ChangeRoot`).

`CheckValid` is `checkValid(false)` for more than two leaves: inner nodes have
degree three. It is stronger than the library's assertions, which leave
`allow_small_deg` at its default `true` (`PCTree.h:561`) and accept inner nodes of any
degree; as a promise of `makeConsecutive` it says more, and the trees that the
restriction, the intersection and the queries start from satisfy it, but for
small trees of two leaves in the queries. Trees with a root
of degree two, which `destroyLeaf` can leave, are in `Construction` only. The traversal from the
root is `Levels`: everything in use must be met on the way down, within as many
levels as there are nodes.

`OrdersOf(t)` says what a tree means, independently of the algorithm: the
cyclic orders, as successor functions, in which the leaves beyond every edge
are consecutive and which pass the blocks around every C-node in the order of
its ring or its mirror image.

### The pointers of a node

`PCNodeLinks` has `m_sibling1`, `m_sibling2`, `m_child1`, `m_child2`, the count
and the parent of every node, and every method that writes them, statement by
statement where a statement reads what an earlier one wrote: `appendChild`,
`insertBetween`, `detach`, `replaceWith`, `mergeIntoParent`, `flip`,
`setChildOrder`, `changeRoot`. The iterators are functions of the links that go
as many rounds as `operator++` would. An assertion that fails clears `links.ok`.
`EditsTheList` is the refinement: the list read from `m_child1` on changes as
`NodeRings` allows, which is in terms of the operators of `PCTreeShape` that
every tree model uses. `changeRoot` passes nodes of at least `MinDegree`: with 2
an assertion fails, see the observations.

### makeConsecutive

`pc` follows the call: `idle`, `called`, `marking`, `searching`, `found`,
`merging`. The steps end where the code calls an observer or starts another
round of a loop:

- `MakeConsecutive` takes the request, `ReturnTrivial` or `StartMarking` goes
  on after `resetTempData`;
- `MarkLeafFull`, `MarkInnerFull`: one call of the inner `markFull` each, in
  the order in which the caller passed the leaves;
- `VisitPartial`: one round of `findTerminalPath`'s loop with all its exits,
  early stops and the failing checks; `FixApex` its end;
- `UpdateSingletonTerminalPath`, or `CreateCentralNode` and then `MergePNode`
  and `MergeCNode`, one node of the path each, `StartSecondArm`, `ReturnUpdated`;
- `UserChangesRoot` between two calls.

`temp` is the label and the `TempInfo` of every node together with the
variables of the `PCTree`, reset eagerly, as in `EagerLabels` (the code clears them by timestamp, which
`Labels` shows to be the same); what a call leaves there stays until the next one resets it, as in
the code. `work` has the locals. `client` is the user's side: the set asked
for, the latest answer, and a history variable with the tree before the call.

The branch of `makeFullNodesConsecutive` for no partial nodes is not modelled:
after a non-trivial request there always is one. Neither is the branch of
`markFull` for a leaf that becomes partial, which only its other callers
reach.

### intersect

`Intersection` has the variables of the restriction and its own. `stage` goes
from `new` over `reading` (the next node of the other tree) and `asking` (the
calls for it) to `restoring` and `returned`. Every call is the whole
state machine of `PCTreeRestriction`, so that what is taken out is taken out of a
tree as a real call leaves it.

- `StartReading` roots both trees beside the last leaf and fixes
  `fullNodeOrder`; `ReadNode` makes the requests of one node: pairs for a
  C-node, and all its leaves unless it is the last; `Ask` makes the next call.
- `TakeOut` cuts the full block out, puts one leaf, or two for a block of
  several nodes, in its place, and saves block, nodes, partner and `isFront`.
- `GiveUp` after an answer that says no, `AllAsked` at the end;
  then `EnterNode`, `PutBack`, `PassBy` are the rounds of the two loops of
  `restoreSubtrees`, with the counter of rounds that grows on the way.

The other tree is used up by the code; here its visited nodes simply stand for
the leaf that `mergeLeaves` would leave. The table entries of the C-nodes that
are taken out are in `CNodeParents` (`OutReserved`).

### DisjointSets

The instance `DisjointSets<>` of the forest: linking by index, path splitting,
no interleaving. `find` is split into rounds although nothing runs in between,
because the claim worth checking is about the rounds: it writes to an array it
has already read three locals from. `quickUnion` returns false when its arguments
are the same or have the same stored parent (`ReturnKnown`; the parent check is compiled in by
`DisjointSets.h:41`), before any `find` runs; else it runs the same rounds twice.
`rep` is a history variable that records what `link` decided; the properties
relate the pointers to it.

### CNodeParents

A child of a P-node, or of a leaf that is the root, points to its parent; a
child of a C-node has an index, which `getParent()` looks up in the union-find
structure and then in the table `m_cNodes`, so that `mergeIntoParent` need not
touch the children. The module has every operation that writes one of these
fields, with what it does to the table, the counters of the tree, the root and
the list of reusable nodes, which is threaded through the parent pointers of
destroyed nodes: `newNode` (new memory or reuse), `appendChild`,
`insertBetween`, `detach`, `replaceWith`, `mergeIntoParent` with the exchange of
indices, `destroyNode`, `changeNodeType`, `getParent` (it writes the index it
has found back), `setRoot`, `changeRoot`, the way `intersect()` unregisters a
subtree and registers it again, and `PCTreeForest::clear()`. Siblings are left
out. The union-find is seen through its `find`, which `DisjointSets` justifies:
`link` may keep either index, so both outcomes are explored. `up`, `place` and
`poolSize` are history variables that say what the fields should mean.

This is what justifies `parent` in `PCTreeShape` as the exact parent.

### Labels

`resetTempData()` only takes the next timestamp; `checkTimestamp()` clears a
node when it is first used in a call. Nodes start with timestamp 0, also when
they are used again with everything else left in them, and `clear()` sets the
forest back to 0: then every such node counts as current. `InCall` is the rule
that keeps this harmless: labels and temporary data are used in a call that has
reset them, so never at timestamp 0. A leaf keeps user data in the place of the
temporary data, which `changeType` has to end and construct anew. `clear()` is
the one of a forest with `autodelete` whose trees were all made by `makeTree()`,
so that the nodes of all of them are destroyed.

The refinement maps a node's label and data to what a reader would be shown;
`call`, shared by both specifications, records what each call was given and
returned, so that the refinement is about answers and not only about states.

### Construction

Trees of one forest, each call one step on `PCTreeShape`'s operations: the
constructor for a star, `insertLeaves`, `replaceLeaf`, `destroyLeaf`,
`changeNodeType`, `changeRoot` and `insertTree`. Parents are exact, as
`CNodeParents` shows. A node's registration (counts, list of leaves) is not a
variable: nodes are destroyed by `destroyNode` only, which unregisters them, so
`NothingLost` compares the nodes in use with those below the roots (`Whole`).
What `destroyNode` asserts, a detached node without children, is part of it.
The same predicate is what `StartsAssumption` asks of the forests to start from.
`Valid` is `checkValid()` with its default, which allows small degrees, and `Proper`
`checkValid(false)`. `insertTree` has the code's opening assertions as its guard, `Valid`
of both trees, and not the one at its end; a tree without leaves is not inserted into one that
has some, which `splice` cannot do. `changeRoot` has the same assertion, and that of the
`replaceSibling` it uses: no inner node that is turned around has fewer than three neighbors.
Orders are compared on the leaves that are in the
tree before and after; where a leaf is replaced, each new leaf must stand where
the old one stood.

### Queries and embeddings

`TreeRestrictions` is `getRestrictions` with its queue: `PassLeaf` the first
loop, in any order of `m_leaves`; `PassNode` one round of the second, in either
direction around the node. Lists of leaves are sets. `ok` collects the
assertions on the way.

`Embeddings` has the documented loop, `firstEmbedding` and then `nextEmbedding`
until it returns false, node by node along the walk over `allNodes()`: the
children of a node are pushed after the node was reordered, so the order in which the
nodes are advanced depends on the embedding. `Index` is a node's `m_id`. The
refinement `Enumerates` of `OrderEnumeration` asks that every order the tree
stands for comes exactly once before the loop ends.

### Containers

`IntrusiveLists` has all operations that change a list, with the links that an erased node keeps
and that the next insertion must overwrite. Splicing an empty list onto a filled
one follows a null pointer in the code and is left out (`MaySplice`); only an
`insertTree` of a tree without leaves would ask for it.

`RegisteredArrays` has the forests with their next id and their registry, and
the array objects with the iterator that says where they are registered: all
constructors, assignments and moves, `init`, the end of an array and of a
forest in either order, new nodes with and without `keep_ids`, `resize` by the
registry, `fill` and single writes, and the array with a default
(`setDefault`). The history variable `promised` has what a user may rely on when
reading a key: the value written last, or the default that the array had when the
key became one of its own.

## What is checked

Deadlock is checked in every run but `queries` and `random_embedding`, which end
when the query has returned: everywhere else the user can always make another
call, and in `intersection` a deadlock would be a call that is stuck.

| run | instance | states | properties |
|---|---|---|---|
| `calls_five` | star with 5 leaves, any sequence of calls in any order of leaves, root changes | 80 000 | `ValidTree`, `LabelsExact`, `PromiseKept` |
| `shapes` | five trees with 7 leaves, one call for every subset | 17 700 | `TerminalPathExact`, `LengthCounted`, `MergePointsExact`, `NoOrderLostOrAdded`, `AnswerExact`, `OffPathKept` |
| `intersection` | six trees of 6 leaves, each with 36 others | 36 600 | `IntersectionExact`, `RestoredWhole`, `IntersectReturns` |
| `construction` | 20 forests of up to 9 leaves in two trees, two calls | 740, and 33 000 transitions | `NothingLost`, `ValidityKept`, `OrdersKept` |
| `queries` | ten trees of 2 to 7 leaves, every fixed leaf or none | 5 600 | `AssertionsHold`, `ExportExact`, `Enumerates`, `CountExact`, `QueriesEnd` |
| `node_links` | 5 nodes, any sequence of methods | 137 up to renaming, 3 500 transitions | `AssertionsHold`, `WellLinked`, `IterationExact`, `EditsTheList` |
| `cnode_parents` | 4 nodes, 3 indices | 37 000 | `ParentExact`, `TableExact`, `OutReserved`, `PoolLinked`, `CountsExact` |
| `labels` | 2 nodes, 1 datum, 2 resets between `clear()`s | 23 000 | `StampsBehind`, `ClearsEagerly` |
| `disjoint_sets` | 4 elements, initial capacity 1 | 36 000 | `Inv`, `SetsCounted`, `FindReturnsRep`, `QuickUnionUnites`, `FindEnds` |
| `containers` | 2 forests, 2 arrays, 2 ids; or 4 nodes in 2 lists | 80 000 | `RegistrationsExact`, `KeysCovered`, `PromisesKept`, `ListsLinked` |
| `small_root` | as `construction` | | violation, see below |
| `random_embedding` | two trees with a C-node | | violation, see below |

Restriction:

- `ValidTree`: what `checkValid(false)` asserts, at idle and after every merge.
- `LabelsExact`: the full neighbors of every node are exactly those behind
  which everything is marked, whatever the order of the leaves; the list of
  partial nodes has each of them once.
- `TerminalPathExact`: a successful search has found exactly the edges with
  marked and other leaves on both sides, a declarative characterisation of the
  path that does not mention the work list.
- `LengthCounted`: `m_terminalPathLength` is the length of the two chains
  (the assertion in `LoggingObserver::terminalPathFound`) and the merges use
  up exactly that many nodes.
- `MergePointsExact`: the assertions of `updateTerminalPath`, and that what is
  around the central node is sorted into full, empty and the two paths.
- `NoOrderLostOrAdded`: after every single merge the tree stands for a set
  between the wanted orders and the former ones.
- `AnswerExact`: answer and final set, for one call; `PromiseKept`: the same
  for all sequences of calls, as a refinement of `CircularOnes` in which a call
  answers in one step. While a call runs, the abstract set is that of the tree
  before it.
- `OffPathKept`: nodes that are not on the path keep their children, up to one
  exchanged for another.

Intersection:

- `IntersectionExact`: the answer is true iff the two trees have an order in
  common, and the tree then stands for exactly the common ones.
- `RestoredWhole`: after either answer the tree is valid, has its leaves and no
  others, also in `m_leaves`, and no order it did not have; on the way, what is
  left is a valid tree, the full block is where `findNodeRestrictions` asserts it,
  and the assertions in the walk of `restoreSubtrees` hold.
- `IntersectReturns`: the call returns, with all calls of `makeConsecutive` in
  it and the walk that adds to its own queue and to its own counter.

The other modules:

- `NothingLost`: no call leaks a node or leaves it in two trees.
  `ValidityKept`: trees of at least two leaves whose inner nodes have three neighbors, the
  root perhaps two (the root that `small_root` is about), are such trees after any call. `OrdersKept`: what a tree
  says of the leaves that stay is the same after every call but a change of
  type, for both trees of an `insertTree`, and what comes in for a leaf comes to
  its place.
- `ExportExact`: the lists of leaves on the way are right, and at the end the
  orders that satisfy all restrictions are those of the tree, whichever node the
  queue ends at; with a fixed leaf, none of them contains it. `AssertionsHold`:
  the assertions of `getRestrictions`. `Enumerates`, `CountExact`: the loop has
  every order once, and `possibleOrders()` is their number. `QueriesEnd`.
- `AssertionsHold` of `node_links`: the assertions of the methods.
  `WellLinked`: each list can be read from either end, has as many nodes as are
  counted, and ends in null pointers. `IterationExact`: `getNextNeighbor`,
  `areNeighborsAdjacent` and the iterators say what the list says.
  `EditsTheList`: the refinement of `NodeRings`.
- `ParentExact`, `TableExact`: the stored parent resolves to the real one, and
  the table leads to nodes that are in use and to no other, after any sequence
  of merges, exchanges of indices, destruction and reuse. `OutReserved`: while a
  subtree is taken out, nothing else gets an index or table entry of its
  C-nodes (the assertion in `restoreSubtrees`). `PoolLinked`: every destroyed
  node is once on the list of reusable nodes, whose links are parent pointers.
  `CountsExact`: what `checkValid()` compares with a traversal.
- `ClearsEagerly`: reads give what an eager reset would give. `StampsBehind`:
  the assertion in `checkTimestamp`, over `clear()`.
- `Inv` of `disjoint_sets`: the pointers are the partition that the links made,
  go up in index, and a running `find` stays in the set of its argument.
  `SetsCounted`; `FindReturnsRep`, `QuickUnionUnites`: what the calls return and do
  to the partition, for `quickUnion` wherever it returns; `FindEnds`.
- `RegistrationsExact`: the entries of the registries are those of the living
  arrays, one each, and point back to them. `KeysCovered`: an array has a place
  for every node of its forest, the next one included by the time it is made.
  `PromisesKept`: a node reads as promised.
- `ListsLinked`: both link chains of a list, its ends and its count say the
  same, which is what was put in.

### Bounds, and why they are enough

With five leaves a tree has at most three inner nodes, and five identities
suffice for one call; there is one more than leaves, as the proofs assume for every number of leaves
(`RoomAssumption`). All sequences of calls from the constructor's tree are
explored, in any order of the leaves: all reachable trees with five leaves,
every root among the inner nodes. Paths of more than three nodes, empty C-nodes
in the middle of a path, two arms of equal and of different length, and leaves as roots need more
leaves; `MCShapes` has them as start trees, for every subset of leaves. In `Uneven`
the shorter arm goes on beyond the apex before the other arrives, so that the
length has to be corrected; a correction by two would take nine leaves. Larger trees only repeat these
situations: every round of the search and every merge looks at one node, its
neighbors and the ends recorded for it.

The six trees of `MCIntersection` are a star, a wheel and four with P- and C-nodes
below each other, roots that are leaves included; `OtherTrees` are the same with
their leaves arranged in six ways. Among the runs are empty and non-empty
intersections, failures after several subtrees have been taken out, subtrees
within subtrees, pairs of leaves that are turned by a later call, and walks that
start next to a pair. Six spare leaves are the most that can be needed at a time.

Ten trees in `MCQueries` have two leaves, one inner node, two to four, P- and
C-nodes, and leaves as roots. `MixedIds` puts the ids of inner nodes between
those of leaves, so that sorting children mixes them.

Five nodes in `MCPCNodeLinks` make lists of up to four, a node inside, at either
end or alone, and paths of four for `changeRoot`.

The state space is cut down in four ways. `LeavesAlike` and its like are symmetries because
leaves, nodes, arrays and forests are only compared for equality, and the requests are closed under
renaming them; in the restriction inner nodes are numbered and not permuted. `WithoutLeftovers`
hides `temp` when the tree is idle: the next call resets it before it reads
it, so states that differ in nothing else have the same futures; in
`MCContainers` it hides what is left of ended objects. No run with a liveness
property has a view or a symmetry. `OneCall` stops `MCShapes` after the first
call; longer sequences are `calls_five`'s matter. `MCContainers` takes the two
kinds of containers apart, since no operation uses both.

`MaxIds` bounds the indices made since the last `clear()`: with three, a
C-node can be merged into another one that is merged itself, or its index can
win and the loser be destroyed and allocated again. Four nodes make a chain of
merges with a child at its end. `MaxTimestamp` 2 lets a node be current,
outdated by one reset or by two, and reused after `clear()`. Two arrays on two
forests give every pair of registered, moved-from, uninitialised and ended ones;
with `TightTable` the storage is always full, so that every new node makes the
arrays grow. Four nodes in two
lists give every combination of empty, one-element and longer lists. The
theorems need none of these bounds.

`FewCalls` ends `MCConstruction` after two calls (the states after the second
one are checked, not extended), `MaxLeaves` bounds the leaves one call adds, and
`MaxOrders` the sets of leaves whose orders are compared, to six. The forests it
starts from have the cases the code distinguishes: two leaves, with an inner
node or a leaf as root, more leaves, with P- and C-nodes and a leaf as root,
alone or beside a second tree with two or more leaves and either kind of root.
In `SmallRoot` and `SmallOther` the root has two children, as `destroyLeaf` leaves it, in the tree that is
inserted into or in the inserted one: the branch of `insertTree` for a parent of degree
two then acts in a tree of more than two leaves, `destroyLeaf` takes the root away, and `changeRoot`
from there is left out by its guard.

### Fairness

A call is an ordinary function that, once entered, is not abandoned, so the
steps of a call are weakly fair; nothing is assumed of the user.
`DisjointSets!FairSpec` has this for the rounds of `find`, `MCQueries!SpecAll`
for the steps of a query. `IntersectionSpec` has it for the steps of `intersect`
and of the calls within, written as: it has returned, or takes steps for ever. This is
weak fairness with "not returned" in the place of `ENABLED Step`; the two are the
same because the run checks that no state before the return is a deadlock.

### Two disagreements between code and comments

`destroyLeaf` is documented to remove "a leaf and also any newly-introduced
inner degree-2 or -1 nodes" (`PCTree.h:280`). The run `small_root` shows a tree
whose inner root has three neighbors: after one of them is destroyed the
root has two, and stays, with more than two leaves in the tree. No assertion
notices: `checkValid()`, which `mergeLeaves` asserts (`PCTree.h:273`), allows small degrees unless it is
called with `false`. Merging two leaves at a root of degree three is enough to get such a
tree. `intersect()`, which uses `mergeLeaves`, first roots
the tree at the neighbor of a leaf that is never merged and stops before that
node, so it does not run into this. The other construction calls cope with such a root, as `ValidityKept`
and `OrdersKept` say, except `changeRoot`, which fails an assertion (see below). When a further child of that root is
destroyed, the branch for the root acts; its `setRoot` calls `checkValid()`
while the old root is still counted.

`randomEmbedding` is documented to reorder children "such that
`currentLeafOrder()` will represent a random admissible order" (`PCTree.h:596`).
`PCNode::randomEmbedding` (`PCNode.cpp:505`) shuffles the children of every node,
those of C-nodes too, where `firstEmbedding` and `nextEmbedding` only allow two
directions. The run `random_embedding` shows a tree with one C-node whose leaf
order is no longer one of those the tree stood for. Nothing else in the
repository calls it. (It would not get far in a tree with an inner root either: for
a leaf below another node it calls `setChildOrder` with an empty range, which
returns early only at degree zero and else writes to the null pointer after its loop.)

Smaller observations made while modelling, without a run of their own:

- Restriction. `findTerminalPath` stops early when two arms have met and only the
  way above the apex is left. The comment (`PCTree_restriction.cpp:452`) says of
  the `setApexCandidate` call there that it "should make no changes"; it corrects
  `m_terminalPathLength`, and `LengthCounted` needs that. The call is compiled only under `OGDF_DEBUG`,
  which this repository always defines (`util/defines.h:41`). Without it the
  tree would still come out right, since the length is only compared to 1, but
  `getTerminalPathLength()` and the observers would be given too large a number.
- Roots. `changeRoot` from an inner root of degree two fails the assertion in
  `replaceSibling` that a node is not its own sibling (`PCNode.cpp:234`).
- Construction. `insertTree` into a tree with fewer than two leaves may leave an inner
  node of degree one or two, or none at all, although both trees passed the assertions at its start; the
  one at its end notices this only when the result has at most two leaves and not
  the one inner node asked for. Of a tree
  without leaves into one with leaves, `insertTree` splices an empty list, which follows a
  null pointer; a tree with a leaf as root loses that leaf when it is inserted. It
  deletes the inserted tree; one made by `makeTree()` in a forest with
  `autodelete` is deleted again by the forest. `replaceLeaf` "converts" the leaf,
  but destroys it when the tree has at most two leaves, and then follows a parent
  that a root leaf lacks. `mergeLeaves` keeps the last of the leaves; the comment in it says the
  first.
- Forests. `clear()` (`PCTreeForest.cpp:56`) takes the next identity back to 0 but
  does not tell the registry; arrays stay as long as they were and keep their
  values. Copying with `keep_ids` (`PCTree_construction.cpp:64`) may give an
  identity that the forest has already given to another node.
- Arrays. `setDefault` (`RegisteredArray.h:674`) does not change places that were
  allocated in advance: nodes made later may get the old default there, unless
  `resize` puts the new one in. `fill(x)` covers unused places, too. `resize`
  shrinks whatever `shrink` says (`RegisteredArray.h:283`).
- Intersection. The documentation says that the state is undefined when
  `intersect` fails (`PCTree.h:485`); the code restores the tree fully, see
  `RestoredWhole`. The requests for the last node of the other tree may move the
  root away from the last leaf; nothing is taken out after them.
- Queries. A loop with `nextEmbedding` has every order, but not in the order
  documented, "lexicographically" (`PCTree.h:606`): the root is the fastest digit.
  In `isValidOrder` the assertion that two orders are left (`PCTree_basic.cpp:466`)
  fails for at most two leaves, and the one at the end of `getRestrictions`
  (`PCTree_basic.cpp:774`) for at most one. `neighbors()` of a node of degree one
  fails an assertion in `end()`.

## What is proved

The theorems hold for every value of the constants, without the bounds of the
runs, and each was checked by TLC first.

`NodeParentsProofs` proves of `DisjointSets`, for any number of elements and any positive
initial capacity (`SizesAssumption`):

- `InvHolds`: `Inv`, the conjunction of `SetsTypeOK`, `PartitionKept`,
  `OrderedByIndex` and `WalkInSet`, is inductive. `PartitionKept` alone is not:
  a round of `find` writes `grandParent` into `parents[set]`, and only
  `WalkInSet` says that these locals still belong to the argument's set;
  `ReturnSecond` links the root found by the first `find`, and only `WalkInSet`
  says it still is one. `OrderedByIndex` is what keeps a link from closing a
  cycle. There is a lemma for every group of actions; `JoinInv` is shared by
  `link` and `quickUnion`.
- `SetsTypeCorrect`, `PartitionCorrect`, `IndexOrder`, `WalkCorrect`: its parts.
- `FindCorrect`, `QuickUnionCorrect`: what the two calls return and do to the
  partition, from the lemma `WalkEndsAtRep`. For the early return of `quickUnion`, that equal
  stored parents mean equal sets is `PartitionKept`.
- `CountCorrect`: the counted number of sets is the number of roots (finite
  cardinalities).
- `PointersGoUp`: an action property.
- `RepsAreFinds`: the representatives start and change as the `find` of `CNodeParents`
  does. `Finds` is that module with `rep` for `find`; `link` must be called with two
  representatives, as `mergeIntoParent` does, and the loops of `find` change
  none. So `CNodeParents` may leave the pointers of the union-find out.

Of `CNodeParents` it proves for any finite set of nodes and any bound on the
indices (`NodesAssumption`) that `IInv` is inductive, and from it all five
properties of the run. Besides `TypeOK` and `PoolLinked`, `IInv` consists of
`RefsExact`: the two fields of a node are those of its real parent, and where
that is a C-node, the stored index leads by `find` to the index of the parent,
which is a representative; `IndicesOwned`: exactly the C-nodes that are in use or
taken out have an index, and no two the same one; `EntriesRight`: the table has
the C-nodes in use at their indices and nothing else, and the index of one that
is taken out is still a representative; and `FindIdempotent`, all that is needed
of the union-find. That parents have no cycles is not needed. `ParentExact`
alone is not inductive: a merge is right only because no third node owns either
of the two indices. There is one lemma for every action; `RegisterInv`,
`RefKept` and `PushKeepsPool` are shared by several. `CountsCorrect` has an
invariant of its own, with finite cardinalities.

`LabelsProofs` proves, for any sets of nodes and data and any bound, that
`TypeOK`, `StampsBehind` and `FreshStamps` (a node that was never allocated has
timestamp 0) are inductive together, and `EagerImplemented`: every step of
`Labels` is a step of `EagerLabels` or leaves it unchanged.

`ContainersProofs` proves of `RegisteredArrays`, for any sets of forests, entries, arrays and
values, and any way the tables grow as long as a table has room for its keys
(`SizesAssumption`, `NamesAssumption`; nothing is assumed of the users), in
three layers:

- `Inv`: types, `RegistrationsExact` and `SizesFollow` (a living array is as long
  as its registry says) are inductive together. Either half needs the other:
  the registry resizes what its entries point to, so an array that is not
  registered, or registered twice, would have the wrong length, and the moves
  and assignments rewrite entry and array in several writes.
  `TypeCorrect`, `RegistrationsCorrect` and `SizesCorrect` are its parts.
- `KeysFit`: the keys of a forest are below its next identity and that is covered by
  the size of its tables. With `Inv` it gives `KeysCorrect`.
- `StorageRight`: the place of every key, the unused ones included, has what the
  history variable says. It is needed for `PromisesCorrect`, since a key's
  promise is made before it is given to a node.

Of `IntrusiveLists` it proves `ListsCorrect`, that is `ListsLinked`, for any finite set of nodes and any
set of lists (`NodesFinite`). `IInv` says that no node is in two places of
the lists (`OnePlace`), and of every list that count, ends, and both links of every
node in it are right (`LinkedAt`). Neither direction of the links is inductive
alone: erasing a node reads `prev` to write `next` and the other way round. And
`OnePlace` is what keeps a push or a splice into one list from writing to a node
of another. Finiteness is only needed for the bound that `ListsTypeOK` gives for the
count. `JoinInv` is shared by the two directions of `splice`; the lemmas before it say element by
element what pushing, erasing and joining do to a sequence.

`PCTreeCorrectnessProofs` and `PCTreeUpdateProofs`, which it extends with the labels and
the update (`Labelled`, `FoundRight` and `MergeRight` below), prove of the calls of `makeConsecutive` and
`changeRoot`, in any number and order, `TreeStaysValid`, that is `ValidTree`,
`LabelsCorrect`, that is `LabelsExact`, `PathLengthCounted`, that is `LengthCounted`, and
`PathIsTerminal`, that is `TerminalPathExact`. The first three follow from the inductive
invariant `CallRight`. Nothing is assumed of the trees between the calls: that they are valid is
what the labels need, and that the labels are right is what the search needs to leave a valid
tree, so the two go together through all stages of a call:

- `Sturdy`, of the tree at every step: a tree without cycles in which
  parents and child lists agree, inner nodes have at least three neighbors, only the root has no parent, a root that is
  a leaf has one child, and nodes that are not in use are not linked. It is equivalent to
  `CheckValid` with all the leaves (`ValidIsSturdy`, `SturdyIsValid`), but is said node by node,
  so that an edit only has to be looked at where it happens.
- `Labelled`, while leaves are marked. It has what `LabelsExact` does not say: `ListedAreFull`
  (who is listed as a full neighbor is full, and all leaves behind it are marked),
  `FullAreListed` (a full node is listed by a neighbor that it does not list itself),
  `InnerLabelled` (a node is full, or the next to be, exactly when it has listed all neighbors
  but one) and `PartialsListed`. `LabelsExact` alone only holds between two leaves, when
  nothing is left to be told. That the lists are complete is `ListsComplete`: the
  edges behind which everything is marked are compared with the lists by an induction over edges
  (`FromBehind`).
- `SearchRight`, while the terminal path is searched. `WaitingRight`: who waits in the
  queue or has been dealt with is not full, and if it is empty a path has come up to it.
  `PredsRight`: `tpPred` leads to a child that has been dealt with. `CandidateRight`: the apex
  candidate is fixed when a second path meets it. `PathsJoin`: until
  then, whoever has been dealt with is on the way to the candidate or to a node that
  waits; so when the queue is empty the paths have met. `BasesRight`: `tpPartialPred` and `tpPartialHeight`
  name the partial node at which a path begins and the number of nodes on the way, on which
  `setApexCandidate` relies when it takes back what went too far up. `CountRight`: the length counts
  the nodes dealt with (`Counted`), and when the search has turned out to have gone too far up,
  those that are not beyond the candidate: empty nodes above it that the path through its base
  has reached (`Beyond`). Without it, a length of 1 would not mean that there is no second node,
  and the count could not be taken back in one subtraction. `BlocksRight`: partial C-nodes on the path know the ends of their full
  block, between which they are cut in two later.
- `FoundRight`, when the search is over: the apex, and below it a set of nodes that is closed
  under `tpPred` and in which every node is the `tpPred` of its parent, or `apexTPPred2` (`PathSet`).
- `MergeRight`, between two merges: the same of the central node and the nodes left, and that
  it has full neighbors to merge them next to (`EndsRight`).

`LengthCounted` speaks of the lists that `Chain` reads off `tpPred`, the invariant of a set `Q` of
nodes. `ChainGoesDown` and `ChainsCover` join the two: a chain that runs down a tree
has no repetition, ends, and two that start at different nodes without predecessor on the path
share no node and leave none of `Q` out (`TwoArms`).

`PathIsTerminal` needs more than `CallRight`: what the labels mean for the leaves has to
be known when the path is complete, and the labels are not marked in that stage. `PathInv`
adds it (`Settled`: the list of a node has exactly the neighbors behind which everything is
marked, and the label is the one its length calls for); it is
inductive because the search writes neither labels nor lists (`VisitKeeps`). The
rest is about a path that has been found. One direction: a node of the path that is not
the apex has marked and other leaves below it, because a partial node is there
(`PassedIsMixed`), and above it, up to the apex (`PassedIsTop`). The other: on each side of an edge with such leaves
on both sides there is a partial node (`PartialBehind`, an induction over edges), both
are on the path, so the path runs over the edge (`TopIsPassed`).

The steps that change the tree are taken apart into edits of a forest (hanging a node in, moving a
subtree, splitting neighbors off to a new node, merging a node into its parent), and for each
there is a lemma in `PCTreeShapeProofs` that says what is left to show to have a
`Sturdy` tree at the end; in the middle of a merge a node may have two neighbors or
one. The assumptions are that the start trees are valid (`StartsAssumption`), that
requests have no repetition (`RequestsAssumption`), that new roots are nodes
(`NewRootsAssumption`), and that identities for inner nodes do not run out (`RoomAssumption`: more
than leaves; `newNode` has no bound). The last one is needed for the two nodes
that an update makes before it destroys any: a valid tree has at most as many inner nodes as
leaves but two (`TwoFreeNodes`).

`ConstructionProofs` proves `NothingIsLost`, that is `NothingLost`, for any number of
trees, nodes and leaves per call. `Whole`, which it states, speaks of the nodes
found below the roots, by a recursive function; this is equivalent to `InOrder` (lemma
`WholeIs`), which is inductive: parents and child lists agree (`Arranged`), the parents have
no cycle, and the nodes in use without a parent are the roots, each of one tree.
That there is no cycle is written as: every nonempty set of nodes has one whose parent
is not in it (`Acyclic`). In this form it is easy to carry over to fewer
edges (`FewerEdges`), one more edge (`OneMoreEdge`) and the edges turned around
by `changeRoot` (`ChangeRootIs`), and it gives two kinds of induction, from the tops
(`FromTops`) and from the ends (`FromEnds`). There is a lemma for what each operation of
`PCNode` does to a forest (`DetachIs`, `ReplaceWithIs`, ...), whose conclusions
are about the nodes without parent (`Tops`): taking a node out adds one, putting it in
removes one, and at the end of every call only the roots are left. `InsertedIs` has the
cases of `insertTree`, `WithoutSmallNodeIs` those of `destroyLeaf`.

Its calls need what the code asserts when they begin, with the `checkValid()` of the code: `insertTree`
is covered on and of trees whose root `destroyLeaf` has left with two children.

On top of it, `ValidityIsKept` is `Spec => ValidityKept`. A valid tree is here one
with `ValidButRoot`: `Proper`, or it would be if its root had a third child. This is not an
invariant of `Construction`: calls may leave trees of
one leaf or none, and what later calls make of these may have inner nodes with one neighbor or two (see the
observations). So the theorem is, as the property, about one call. `Valid` counts leaves, inner nodes and degrees of one tree; the calls change
one edge after another and, in `insertTree`, two trees. The argument replaces it by
what is said node by node of the whole forest, by types and parents alone. `Firm`: an inner node
has two children, or it has a child, is below a leaf that is a root, and has only leaves
below it; and a leaf that is a root is above an inner node. If all trees are valid
and have two leaves, all nodes are `Firm` (`AllValidIsGrown`: a root with two children
is `Firm`, too); if all nodes are
(`Grown`), or if at most roots above nothing but leaves are an exception (`Sound`), all
trees are valid (`SoundIsValid`, from
`BranchingIsValid`, `StumpIs` and what counts the leaves below different children,
`LeavesBelowKids`). It is `Sound` that the calls establish (`CallsKeepSound`): for every call
there is a lemma for each of its cases, most by `Untouched` for the nodes whose
children and parent stay, and one step each for the others: `GrownByLeaves` for new
leaves, `LargeTreeReplaced` and `SmallTreeReplaced`, `SmallNodeSound` for what `destroyLeaf` does to a
node with one child left, `ChangedRootGrown` (the inner nodes that are turned around have three
neighbors by the guard, so two children are left), and `WithoutTopFirm` and
`InsertedGrown` for what `insertTree` takes from the inserted tree and hangs in.

`TreeRestrictionsProofs` proves of `getRestrictions`, for any valid tree with more than two
leaves (`Asked`) and either choice of the fixed leaf, `ExportAssertions`, that is
`AssertionsHold`, and `ExportLists`, that is `ListsExact` and `WithoutFixedLeaf`. The code keeps
counters, lists and a queue; what they have in common is who has told which neighbor that
it has leaves to pass, a relation `T` that `IInv` says exists:

- `Telling`: whoever has told a neighbor was told by all the others before, and two
  neighbors never tell each other. So a node is told at most once by each neighbor
  and tells only one (`ToldOnce`).
- `Counted`: `readyChildren` is the number of those that told a node, and by `RipeIsCounted` the
  comparison with the degree finds out whether all neighbors but one have.
- the queue is `Waiting(T)`: the inner nodes that could tell and have not. Here the leaves and
  the last node are the exceptions. One that is told by its last neighbor while it waits
  is not queued again (`QueueAfter`).
- `ListsRight`: the list of a node has the leaves behind it, seen from the neighbor
  it told, until that one takes them over. With `SomeLeafBehind` this makes an empty list the
  sign of a neighbor that is left, on which the code relies.
- `CentralRight`, of the last node if there is one.

When the node at the head of the queue has no neighbor left, nobody else waits, for that
node would have a list of leaves of its own, and no leaf is fixed, for every
leaf has told by then (`LastNode`, `BehindToldDone`). At the end, if nobody waits, all have told the
neighbor that is nearer to the fixed leaf (`AllHaveTold`, an induction over edges); without a
fixed leaf and a last node both ends of an edge would have told each other. An inner node
with two neighbors, as in a tree of two leaves, is ready as soon as one has told it, and
`CheckValid` does not accept it; such trees are left to TLC, as is what the
restrictions mean for the orders (`RestrictionsExact`).

How recursion is dealt with: the recursive functions of these modules
(`Levels`, `LeavesBelow`, `NodesBelow`, `WayUp`, `TopOf`) are described by their
defining equation, which follows once some function is shown to satisfy it
(`LevelsAre`, `BelowIs`, `NodesBelowIs`, `WayUpIs`, `TopOfIs`); inductions are over sets
of numbers or nodes, by a least element (`LeastOf`) or the absence of cycles.

Only model-checked: `MergePointsExact` and `OffPathKept`, which speak of the leaves behind
every neighbor of the central node between two merges, while the tree is rebuilt and its
leaves are seen from another node, `Intersection`, of `Construction` `OrdersKept`, of the queries what compares orders,
the embeddings, and `PCNodeLinks`. Liveness (`FindEnds`, `QueriesEnd`,
`IntersectReturns`) cannot be given to the prover, and neither can what compares sets of
cyclic orders, counted by recursion over data (`PromiseKept`, `NoOrderLostOrAdded`,
`OrdersKept`, `IntersectionExact`, `ExportExact`, `Enumerates`).

## Not modelled

- Ownership: `makeTree`, `autodelete`, destructors of trees and forests, copying a tree. They
  decide which C++ object frees which; identities of destroyed nodes are taken
  again in the models, memory itself is not modelled.
- `isValidOrder` (calls of `makeConsecutive` on a copy), `uniqueID`, parsing,
  printing, logging, profiling and debug macros, observers (they do not change
  the tree), vendored test libraries.
- The walks over trees other than those of `Embeddings` and `Intersection`: they visit the
  same nodes in another order.
- `RegisteredSet`, which wraps an array and a list, and functions of the registry
  that nothing in the library calls; `rotateChildOutside`, which has no caller.
- Options of `DisjointSets` the library does not use, `init(n)` and copying.
  Capacity 0 is excluded by the assumption: the array would never grow.
- `makeConsecutive`, `intersect` and the queries on a tree of more than two leaves with a root of
  degree two, as `destroyLeaf` may leave it.
- What calls do for trees of fewer than two leaves: `Construction` can get to such
  trees, but promises nothing for them, see the observations.

## Plan

Done: all modules of the table above, with their proofs where the table has
one. What is left:

1. Proofs: `MergePointsExact`, for which what the labels mean (`Settled`) has to be
   carried on through the merges; `WellLinked` of `PCNodeLinks`.
2. Ownership of trees in a forest: `makeTree`, `clear` and `insertTree` together,
   the destructor of a tree with its cutting down of small roots, copying.
3. Validity of `isValidOrder` against the orders, calls on trees with fewer
   than two leaves, and `makeConsecutive` on a tree whose root has two children.
