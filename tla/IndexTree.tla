------------------------------ MODULE IndexTree ------------------------------
(***************************************************************************)
(* The radix tree an index of the store is kept in                         *)
(* (packages/storage-filesystem/src: index-tree, index-pages).             *)
(*                                                                         *)
(* A tree files record ids under tuples.  A page is immutable and named by *)
(* the hash of its content, so a page stands here for its own address and  *)
(* a tree is a nested value.  A leaf holds up to PageEntries tuples, then  *)
(* splits on the digits of the tuples' digests; tuples whose digests are   *)
(* the same to the last digit go to a chain of leaves.  A tuple's ids stay *)
(* in its entry up to InlineIds of them, and beyond that in pages of their *)
(* own, which split on the digits of the ids' digests.                     *)
(***************************************************************************)
EXTENDS Naturals, Sequences, FiniteSets, Functions, SequencesExt

CONSTANTS
    Filing,       \* the pairs <<tuple, id>> a record may be filed as
    Digits,       \* the digits of a digest, in hexadecimal there
    MaxDepth,     \* how many digits a digest has: 64
    PageEntries,  \* INDEX_PAGE_ENTRIES: 32
    InlineIds,    \* INLINE_GROUP_IDS: 8
    digestTuple,  \* the digest of each tuple; tests make tuples collide
    idDigest,     \* the digest of each id
    None          \* null

VARIABLES
    tree,  \* the root of the index
    filed  \* filed[t]: the ids the deltas so far leave under tuple t

tvars == <<tree, filed>>

Tuples == {pair[1] : pair \in Filing}
Ids == {pair[2] : pair \in Filing}

\* Two ids never share a digest, so a group can always be split.
DigestsAssumption ==
    /\ IsInjective(idDigest)
    /\ \A i \in Ids : idDigest[i] \in [1 .. MaxDepth -> Digits]
    /\ \A t \in Tuples : digestTuple[t] \in [1 .. MaxDepth -> Digits]

-----------------------------------------------------------------------------
Branch(children) == [type |-> "branch", children |-> children]

Leaf(entries, next) == [type |-> "leaf", entries |-> entries, next |-> next]

Group(ids) == [type |-> "group", ids |-> ids]

\* The ids of a small group, in the leaf entry itself.
Inline(ids) == [type |-> "inline", ids |-> ids]

Child(page, digit) ==
    IF digit \in DOMAIN page.children THEN page.children[digit] ELSE None

\* The branch with another child in a digit's place, none if that was its last.
WithChild(page, digit, child) ==
    LET digits == IF child = None THEN DOMAIN page.children \ {digit}
                                  ELSE DOMAIN page.children \union {digit}
    IN IF digits = {} THEN None
       ELSE Branch([d \in digits |-> IF d = digit THEN child ELSE page.children[d]])

RECURSIVE GroupPages(_, _)
GroupPages(ids, depth) ==
    IF Cardinality(ids) <= PageEntries \/ depth = MaxDepth THEN Group(ids)
    ELSE LET route(i) == idDigest[i][depth + 1]
         IN Branch([d \in {route(i) : i \in ids} |->
                       GroupPages({i \in ids : route(i) = d}, depth + 1)])

Changed(ids, id, operation) ==
    IF operation = "put" THEN ids \union {id} ELSE ids \ {id}

RECURSIVE GroupUpdate(_, _, _, _)
GroupUpdate(root, id, operation, depth) ==
    IF root = None THEN IF operation = "remove" THEN None ELSE Group({id})
    ELSE IF root.type = "branch"
    THEN LET route == idDigest[id][depth + 1]
             old == Child(root, route)
             next == GroupUpdate(old, id, operation, depth + 1)
         IN IF next = old THEN root ELSE WithChild(root, route, next)
    ELSE LET ids == Changed(root.ids, id, operation)
         IN CASE ids = root.ids -> root
              [] ids = {} -> None
              [] OTHER -> GroupPages(ids, depth)

\* A group moves to pages when it outgrows its entry, and never moves back.
GroupChange(group, id, operation) ==
    IF group.type # "inline" THEN GroupUpdate(group, id, operation, 0)
    ELSE LET ids == Changed(group.ids, id, operation)
         IN CASE ids = {} -> None
              [] ids # {} /\ Cardinality(ids) <= InlineIds -> Inline(ids)
              [] OTHER -> GroupPages(ids, 0)

RECURSIVE GroupLookup(_)
GroupLookup(page) ==
    IF page.type = "branch"
    THEN UNION {GroupLookup(page.children[d]) : d \in DOMAIN page.children}
    ELSE page.ids

-----------------------------------------------------------------------------
\* Leaves for colliding tuples, every one full but the first.
RECURSIVE Chain(_, _)
Chain(order, entries) ==
    IF order = <<>> THEN None
    ELSE LET n == ((Len(order) - 1) % PageEntries) + 1
         IN Leaf([t \in Range(SubSeq(order, 1, n)) |-> entries[t]],
                 Chain(SubSeq(order, n + 1, Len(order)), entries))

RECURSIVE Split(_, _, _)
Split(order, entries, depth) ==
    IF Len(order) <= PageEntries
    THEN Leaf([t \in Range(order) |-> entries[t]], None)
    ELSE IF depth = MaxDepth THEN Chain(order, entries)
    ELSE LET route(t) == digestTuple[t][depth + 1]
         IN Branch([d \in {route(t) : t \in Range(order)} |->
                       Split(SelectSeq(order, LAMBDA t : route(t) = d), entries, depth + 1)])

InOrder(tuples) == SetToSortSeq(tuples, <)

\* Mutant: the last entry of a leaf takes the leaves chained behind it along.
LeafWithout(page, tuple) ==
    IF DOMAIN page.entries = {tuple} THEN None
    ELSE Leaf([t \in DOMAIN page.entries \ {tuple} |-> page.entries[t]], page.next)

\* The leaf once a tuple has no ids left.
WithoutEntry(page, tuple) ==
    IF DOMAIN page.entries = {tuple} THEN page.next
    ELSE Leaf([t \in DOMAIN page.entries \ {tuple} |-> page.entries[t]], page.next)

RECURSIVE Update(_, _, _, _, _)
Update(root, tuple, id, operation, depth) ==
    IF root = None
    THEN IF operation = "remove" THEN None ELSE Leaf([t \in {tuple} |-> Inline({id})], None)
    ELSE IF root.type = "branch"
    THEN LET route == digestTuple[tuple][depth + 1]
             old == Child(root, route)
             next == Update(old, tuple, id, operation, depth + 1)
         IN IF next = old THEN root ELSE WithChild(root, route, next)
    ELSE IF tuple \in DOMAIN root.entries
    THEN LET group == GroupChange(root.entries[tuple], id, operation)
         IN IF group = None THEN WithoutEntry(root, tuple)
            ELSE Leaf([root.entries EXCEPT ![tuple] = group], root.next)
    ELSE IF root.next # None
    THEN Leaf(root.entries, Update(root.next, tuple, id, operation, depth))
    ELSE IF operation = "remove" THEN root
    ELSE Split(Append(InOrder(DOMAIN root.entries), tuple),
               [t \in DOMAIN root.entries \union {tuple} |->
                   IF t = tuple THEN Inline({id}) ELSE root.entries[t]],
               depth)

\* The tree of a rebuild, made at once from every key.
Build(groups) ==
    LET used == {t \in Tuples : groups[t] # {}}
    IN IF used = {} THEN None
       ELSE Split(InOrder(used),
                  [t \in used |-> IF Cardinality(groups[t]) <= InlineIds
                                  THEN Inline(groups[t]) ELSE GroupPages(groups[t], 0)],
                  0)

RECURSIVE LookupAt(_, _, _)
LookupAt(root, tuple, depth) ==
    IF root = None THEN {}
    ELSE IF root.type = "branch"
    THEN LookupAt(Child(root, digestTuple[tuple][depth + 1]), tuple, depth + 1)
    ELSE (IF tuple \in DOMAIN root.entries THEN GroupLookup(root.entries[tuple]) ELSE {})
         \union LookupAt(root.next, tuple, depth)

Lookup(root, tuple) == LookupAt(root, tuple, 0)

-----------------------------------------------------------------------------
\* What a reader refuses a page for: validateIndexPage, checkNode and the
\* checks of groupLookup, on every page of a tree.
RECURSIVE GroupSound(_, _, _)
GroupSound(page, depth, prefix) ==
    \/ /\ page.type = "branch" /\ depth < MaxDepth /\ DOMAIN page.children # {}
       /\ \A d \in DOMAIN page.children : GroupSound(page.children[d], depth + 1, Append(prefix, d))
    \/ /\ page.type = "group" /\ Cardinality(page.ids) \in 1 .. PageEntries
       /\ \A i \in page.ids : IsPrefix(prefix, idDigest[i])

EntrySound(tuple, group, prefix) ==
    /\ IsPrefix(prefix, digestTuple[tuple])
    /\ IF group.type = "inline" THEN Cardinality(group.ids) \in 1 .. InlineIds
                                ELSE GroupSound(group, 0, <<>>)

RECURSIVE Sound(_, _, _)
Sound(page, depth, prefix) ==
    \/ /\ page.type = "branch" /\ depth < MaxDepth /\ DOMAIN page.children # {}
       /\ \A d \in DOMAIN page.children : Sound(page.children[d], depth + 1, Append(prefix, d))
    \/ /\ page.type = "leaf" /\ Cardinality(DOMAIN page.entries) \in 1 .. PageEntries
       /\ \A t \in DOMAIN page.entries : EntrySound(t, page.entries[t], prefix)
       /\ page.next # None =>
             /\ depth = MaxDepth /\ Sound(page.next, depth, prefix)
             /\ \A t \in DOMAIN page.entries : LookupAt(page.next, t, depth) = {}

-----------------------------------------------------------------------------
TInit == tree = None /\ filed = [t \in Tuples |-> {}]

\* One delta of a commit.  A delta may repeat what the tree holds already.
Apply(tuple, id, operation) ==
    /\ tree' = Update(tree, tuple, id, operation, 0)
    /\ filed' = [filed EXCEPT ![tuple] = Changed(@, id, operation)]

Rebuild == tree' = Build(filed) /\ UNCHANGED filed

TNext ==
    \/ \E pair \in Filing, operation \in {"put", "remove"} : Apply(pair[1], pair[2], operation)
    \/ Rebuild

\* Whatever puts, removals and rebuilds came before, over splits, chains of
\* colliding tuples and groups that outgrew their entry, the tree files under
\* every tuple exactly the ids left there, and no page of it is one that
\* createIndexTree or validateIndexPage would refuse.
TreeExact ==
    /\ \A t \in Tuples : Lookup(tree, t) = filed[t]
    /\ tree # None => Sound(tree, 0, <<>>)
==============================================================================
