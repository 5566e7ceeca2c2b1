------------------------------- MODULE JsiTree -------------------------------
(***************************************************************************)
(* The red-black trees that hold the properties of objects (jsiTree.c).    *)
(*                                                                         *)
(* A node is a number, NULL is 0.  A tree is a record of functions, one    *)
(* per field of Jsi_TreeEntry: kid holds left and right, so that the       *)
(* mirrored branches of the code are one definition with a side.  Keys are *)
(* numbers and compareProc is their order; the entry created for a key has *)
(* the key as its value too, so that a value that ends up under another    *)
(* key is seen.  A tree of strings keeps every entry where it is in memory *)
(* and swaps the positions of two nodes to delete one; a tree of words (or *)
(* of pointers to strings) swaps their keys and values.                    *)
(*                                                                         *)
(* Not modelled: trees keyed by structures, which only the self-test makes *)
(* (deletion lacks "n = pred" there), searches in preorder, which nothing  *)
(* asks for and which do not end, the walks, and trees with nonredblack or *)
(* internstr set, which nothing sets.                                      *)
(***************************************************************************)
EXTENDS Integers, Sequences, FiniteSets, SequencesExt

CONSTANT
    MaxKey    \* for the types of keys, "string" and "word", how many there are

VARIABLES
    keyType,      \* how keys are stored in this tree
    tree,         \* root, parent, kid, red, key, value of the nodes
    live,         \* the nodes that are allocated
    numEntries,
    dict,         \* the keys that were put in the tree and not deleted since
    search        \* a Jsi_TreeSearch, and the keys that it has given: its epoch
                  \* is fresh as long as it is the tree's

vars == <<keyType, tree, live, numEntries, dict, search>>

NULL == 0
KeyTypes == DOMAIN MaxKey
Keys == 1..MaxKey[keyType]
Nodes == 1..MaxKey[keyType]
Sides == {"left", "right"}
Other(side) == IF side = "left" THEN "right" ELSE "left"

-----------------------------------------------------------------------------
(* The helpers.  "s" is always the sibling, "g" the grandparent. *)

SideOf(t, n) == IF t.kid["left"][t.parent[n]] = n THEN "left" ELSE "right"
Sibling(t, n) == t.kid[Other(SideOf(t, n))][t.parent[n]]
Grandparent(t, n) == t.parent[t.parent[n]]
Uncle(t, n) == Sibling(t, t.parent[n])
Red(t, n) == n # NULL /\ t.red[n]
SetColor(t, n, red) == IF n = NULL THEN t ELSE [t EXCEPT !.red[n] = red]

ReplaceNode(t, old, new) ==
    LET p == t.parent[old]
        u == IF p = NULL THEN [t EXCEPT !.root = new]
             ELSE [t EXCEPT !.kid[SideOf(t, old)][p] = new]
    IN IF new = NULL THEN u ELSE [u EXCEPT !.parent[new] = p]

\* rotate_left is Rotate to the left, rotate_right to the right.
Rotate(t, n, side) ==
    LET r == t.kid[Other(side)][n]
        inner == t.kid[side][r]
        u == [ReplaceNode(t, n, r) EXCEPT !.kid[Other(side)][n] = inner,
                                          !.kid[side][r] = n, !.parent[n] = r]
    IN IF inner = NULL THEN u ELSE [u EXCEPT !.parent[inner] = n]

-----------------------------------------------------------------------------
(* Rebalancing after an insertion. *)

InsertCase5(t, n) ==
    LET g == Grandparent(t, n)
        u == SetColor(SetColor(t, t.parent[n], FALSE), g, TRUE)
    IN Rotate(u, g, Other(SideOf(t, n)))

InsertCase4(t, n) ==
    LET p == t.parent[n]
    IN IF SideOf(t, n) # SideOf(t, p)
       THEN InsertCase5(Rotate(t, p, SideOf(t, p)), p)
       ELSE InsertCase5(t, n)

RECURSIVE InsertCase1(_, _)
InsertCase3(t, n) ==
    LET g == Grandparent(t, n)
        u == Uncle(t, n)
    IN IF Red(t, u)
       THEN InsertCase1([t EXCEPT !.red[t.parent[n]] = FALSE, !.red[u] = FALSE,
                                  !.red[g] = TRUE], g)
       ELSE InsertCase4(t, n)

InsertCase1(t, n) ==
    CASE t.parent[n] = NULL -> SetColor(t, n, FALSE)
      [] t.parent[n] # NULL /\ ~Red(t, t.parent[n]) -> t
      [] t.parent[n] # NULL /\ Red(t, t.parent[n])  -> InsertCase3(t, n)

-----------------------------------------------------------------------------
(* Rebalancing before a deletion. *)

DeleteCase6(t, n) ==
    LET p == t.parent[n]
        s == Sibling(t, n)
        u == SetColor(SetColor(t, s, Red(t, p)), p, FALSE)
    IN Rotate(SetColor(u, t.kid[Other(SideOf(t, n))][s], FALSE), p, SideOf(t, n))

DeleteCase5(t, n) ==
    LET s == Sibling(t, n)
        near == t.kid[SideOf(t, n)][s]
        far == t.kid[Other(SideOf(t, n))][s]
    IN IF ~Red(t, s) /\ ~Red(t, far) /\ Red(t, near)
       THEN DeleteCase6(Rotate(SetColor(SetColor(t, s, TRUE), near, FALSE), s,
                               Other(SideOf(t, n))), n)
       ELSE DeleteCase6(t, n)

BlackFamily(t, s) == ~Red(t, s) /\ \A d \in Sides : ~Red(t, t.kid[d][s])

DeleteCase4(t, n) ==
    LET s == Sibling(t, n)
    IN IF Red(t, t.parent[n]) /\ BlackFamily(t, s)
       THEN SetColor(SetColor(t, s, TRUE), t.parent[n], FALSE)
       ELSE DeleteCase5(t, n)

RECURSIVE DeleteCase1(_, _)
DeleteCase3(t, n) ==
    LET s == Sibling(t, n)
    IN IF ~Red(t, t.parent[n]) /\ BlackFamily(t, s)
       THEN DeleteCase1(SetColor(t, s, TRUE), t.parent[n])
       ELSE DeleteCase4(t, n)

DeleteCase2(t, n) ==
    LET p == t.parent[n]
        s == Sibling(t, n)
    IN IF Red(t, s)
       THEN DeleteCase3(Rotate(SetColor(SetColor(t, p, TRUE), s, FALSE), p,
                               SideOf(t, n)), n)
       ELSE DeleteCase3(t, n)

DeleteCase1(t, n) == IF t.parent[n] = NULL THEN t ELSE DeleteCase2(t, n)

\* Faulty: the colour of the node removed is not looked at.
RemoveUnbalanced(t, n) ==
    LET child == IF t.kid["right"][n] = NULL THEN t.kid["left"][n]
                 ELSE t.kid["right"][n]
        v == ReplaceNode(t, n, child)
    IN IF v.parent[n] = NULL THEN SetColor(v, child, FALSE) ELSE v

DeleteOneChild(t, n) ==
    LET child == IF t.kid["right"][n] = NULL THEN t.kid["left"][n]
                 ELSE t.kid["right"][n]
        u == IF Red(t, n) THEN t ELSE DeleteCase1(SetColor(t, n, Red(t, child)), n)
        v == ReplaceNode(u, n, child)
    IN IF v.parent[n] = NULL THEN SetColor(v, child, FALSE) ELSE v

\* Swap the positions of n and of m, which is below n.
SwapNodes(t, n, m) ==
    LET np == t.parent[n]
        mp == t.parent[m]
        moved == [t EXCEPT
          !.red[n] = t.red[m], !.red[m] = t.red[n],
          !.parent[n] = IF mp = n THEN m ELSE mp,
          !.parent[m] = np,
          !.kid["left"][n] = t.kid["left"][m], !.kid["right"][n] = t.kid["right"][m],
          !.kid["left"][m]  = IF mp = n /\ t.kid["right"][n] # m THEN n
                              ELSE t.kid["left"][n],
          !.kid["right"][m] = IF mp = n /\ t.kid["right"][n] = m THEN n
                              ELSE t.kid["right"][n]]
        \* the back pointers: of the children, then of the parents
        down == [moved EXCEPT !.parent = [x \in Nodes |->
                   CASE x \in {moved.kid[d][m] : d \in Sides} -> m
                     [] x \in {moved.kid[d][n] : d \in Sides} -> n
                     [] OTHER -> moved.parent[x]]]
        up == [down EXCEPT !.kid[SideOf(t, m)][down.parent[n]] = n]
    IN IF np = NULL THEN [up EXCEPT !.root = m]
       ELSE [up EXCEPT !.kid[SideOf(t, n)][np] = m]

\* Swap the keys and the values of n and m.
SwapContents(t, n, m) ==
    [t EXCEPT !.key[n] = t.key[m], !.key[m] = t.key[n],
              !.value[n] = t.value[m], !.value[m] = t.value[n]]

RECURSIVE MaximumNode(_, _)
MaximumNode(t, n) ==
    IF t.kid["right"][n] = NULL THEN n ELSE MaximumNode(t, t.kid["right"][n])

\* A node that is deleted and the tree without it.
Removal(t, n) ==
    LET pred == MaximumNode(t, t.kid["left"][n])
    IN CASE \E d \in Sides : t.kid[d][n] = NULL ->
              [node |-> n, tree |-> DeleteOneChild(t, n)]
         [] keyType = "string" /\ \A d \in Sides : t.kid[d][n] # NULL ->
              [node |-> n, tree |-> DeleteOneChild(SwapNodes(t, n, pred), n)]
         [] keyType = "word" /\ \A d \in Sides : t.kid[d][n] # NULL ->
              [node |-> pred, tree |-> DeleteOneChild(SwapContents(t, n, pred), pred)]

-----------------------------------------------------------------------------
\* The node where a search for key ends and, when the key is not there, the
\* side on which it would be inserted.  Greater keys are to the left.
RECURSIVE Descend(_, _, _)
Descend(t, n, key) ==
    LET side == IF t.key[n] < key THEN "left" ELSE "right"
    IN IF t.key[n] = key \/ t.kid[side][n] = NULL THEN [node |-> n, side |-> side]
       ELSE Descend(t, t.kid[side][n], key)

EntryFind(t, key) ==
    IF t.root = NULL \/ t.key[Descend(t, t.root, key).node] # key THEN NULL
    ELSE Descend(t, t.root, key).node

Linked(t, n, key) ==
    LET leaf == [t EXCEPT !.kid["left"][n] = NULL, !.kid["right"][n] = NULL,
                          !.red[n] = TRUE, !.key[n] = key, !.value[n] = key]
        at == Descend(t, t.root, key)
    IN IF t.root = NULL THEN [leaf EXCEPT !.root = n, !.parent[n] = NULL]
       ELSE [leaf EXCEPT !.parent[n] = at.node, !.kid[at.side][at.node] = n]

-----------------------------------------------------------------------------
(* Searches: a stack of nodes (or a queue), refused once the tree changed. *)

NoSearch == [order |-> "none", ptrs |-> <<>>, current |-> NULL,
             fresh |-> TRUE, seen |-> <<>>]

Children(n) == SelectSeq(<<tree.kid["right"][n], tree.kid["left"][n]>>,
                         LAMBDA x : x # NULL)

\* searchAdd: the node found, and the search after it.
Found(s, n) == [node |-> n, search |-> s]

RECURSIVE InOrder(_), PostOrder(_)
InOrder(s) ==
    CASE s.current # NULL ->
           InOrder([s EXCEPT !.ptrs = Append(@, s.current),
                             !.current = tree.kid["right"][@]])
      [] s.current = NULL /\ s.ptrs = <<>> -> Found(s, NULL)
      [] s.current = NULL /\ s.ptrs # <<>> ->
           Found([s EXCEPT !.ptrs = Front(@),
                           !.current = tree.kid["left"][Last(s.ptrs)]], Last(s.ptrs))

PostOrder(s) ==
    IF s.ptrs = <<>> THEN Found(s, NULL)
    ELSE LET n == Last(s.ptrs)
         IN IF Children(n) = <<>> \/ s.current \in ToSet(Children(n))
            THEN Found([s EXCEPT !.ptrs = Front(@), !.current = n], n)
            ELSE PostOrder([s EXCEPT !.ptrs = @ \o Reverse(Children(n))])

LevelOrder(s) ==
    IF s.ptrs = <<>> THEN Found(s, NULL)
    ELSE Found([s EXCEPT !.ptrs = Tail(@) \o Children(Head(@))], Head(s.ptrs))

SearchAdd(s) ==
    CASE s.order = "inorder"    -> InOrder(s)
      [] s.order = "postorder"  -> PostOrder(s)
      [] s.order = "levelorder" -> LevelOrder(s)

\* A search that found a node goes on, one that found none is done.
Advance(f) ==
    search' = IF f.node = NULL THEN NoSearch
              ELSE [f.search EXCEPT !.seen = Append(@, tree.key[f.node])]

-----------------------------------------------------------------------------
Init ==
    /\ keyType \in KeyTypes
    /\ tree = [root |-> NULL, parent |-> [n \in Nodes |-> NULL],
               kid |-> [d \in Sides |-> [n \in Nodes |-> NULL]],
               red |-> [n \in Nodes |-> FALSE],
               key |-> [n \in Nodes |-> 0], value |-> [n \in Nodes |-> 0]]
    /\ live = {}
    /\ numEntries = 0
    /\ dict = {}
    /\ search = NoSearch

\* Faulty: an insertion or a deletion leaves the searches valid.
EpochStays == UNCHANGED search

\* epoch++: a search of the tree as it was will find nothing more, and what it
\* has found is not read again.
EpochMoves ==
    search' = IF search = NoSearch THEN search ELSE [NoSearch EXCEPT !.fresh = FALSE]

\* The new node: any memory will do, and the number of the key is taken when it
\* is free so that equal trees are equal states.
FreeNode(k) == IF k \notin live THEN k ELSE CHOOSE n \in Nodes \ live : TRUE

\* Jsi_TreeEntryCreate of a key that is not there, with its value.
EntryCreate(k) ==
    /\ EntryFind(tree, k) = NULL
    /\ LET n == FreeNode(k)
       IN /\ tree' = InsertCase1(Linked(tree, n, k), n)
          /\ live' = live \cup {n}
    /\ dict' = dict \cup {k}
    /\ numEntries' = numEntries + 1
    /\ EpochMoves
    /\ UNCHANGED keyType

\* The fields of a freed node are cleared: nothing may depend on them.
Cleared(t, n) ==
    [t EXCEPT !.parent[n] = NULL, !.kid["left"][n] = NULL, !.kid["right"][n] = NULL,
              !.red[n] = FALSE, !.key[n] = 0, !.value[n] = 0]

\* Jsi_TreeEntryDelete of the entry that was found for k.
EntryDelete(k) ==
    /\ EntryFind(tree, k) # NULL
    /\ LET r == Removal(tree, EntryFind(tree, k))
       IN /\ tree' = Cleared(r.tree, r.node)
          /\ live' = live \ {r.node}
    /\ dict' = dict \ {k}
    /\ numEntries' = numEntries - 1
    /\ EpochMoves
    /\ UNCHANGED keyType

SearchFirst(order) ==
    /\ search = NoSearch
    /\ tree.root # NULL
    /\ LET s == [NoSearch EXCEPT !.order = order, !.current = tree.root]
       IN Advance(SearchAdd(IF order = "inorder" THEN s
                            ELSE [s EXCEPT !.ptrs = <<tree.root>>]))
    /\ UNCHANGED <<keyType, tree, live, numEntries, dict>>

SearchNext ==
    /\ search # NoSearch
    /\ IF search.fresh THEN Advance(SearchAdd(search)) ELSE search' = NoSearch
    /\ UNCHANGED <<keyType, tree, live, numEntries, dict>>

Next ==
    \/ \E k \in Keys : EntryCreate(k) \/ EntryDelete(k)
    \/ \E o \in {"inorder", "postorder", "levelorder"} : SearchFirst(o)
    \/ SearchNext

Spec == Init /\ [][Next]_vars

-----------------------------------------------------------------------------
(* Properties. *)

\* The keys below n, smaller ones first, and the nodes there.
RECURSIVE KeyList(_), Below(_)
KeyList(n) ==
    IF n = NULL THEN <<>>
    ELSE KeyList(tree.kid["right"][n]) \o <<tree.key[n]>> \o KeyList(tree.kid["left"][n])
Below(n) ==
    IF n = NULL THEN {} ELSE {n} \cup UNION {Below(tree.kid[d][n]) : d \in Sides}

\* The black nodes on every way down from n, -1 when the ways differ.
RECURSIVE BlackHeight(_)
BlackHeight(n) ==
    LET l == BlackHeight(tree.kid["left"][n])
        r == BlackHeight(tree.kid["right"][n])
    IN CASE n = NULL -> 1
         [] n # NULL /\ (l # r \/ l = -1) -> -1
         [] OTHER -> l + (IF tree.red[n] THEN 0 ELSE 1)

(* After any sequence of insertions and deletions the tree is the          *)
(* dictionary of the keys inserted and not deleted, each with its own      *)
(* value: it is ordered, it reaches exactly the allocated nodes, its       *)
(* parent pointers are those of its child pointers, and numEntries counts  *)
(* it.  It is balanced: no red node has a red child and every way down has *)
(* as many black nodes.  In a tree of strings the entry of a key is the    *)
(* node it was when it was created, as the head of jsiTree.c promises.     *)
TreeSound ==
    /\ LET list == KeyList(tree.root)
       IN /\ ToSet(list) = dict
          /\ \A i \in 1..Len(list) - 1 : list[i] < list[i + 1]
    /\ Below(tree.root) = live
    /\ numEntries = Cardinality(dict)
    /\ tree.root = NULL \/ tree.parent[tree.root] = NULL
    /\ \A n \in live :
          /\ tree.value[n] = tree.key[n]
          /\ \A d \in Sides : tree.kid[d][n] # NULL => tree.parent[tree.kid[d][n]] = n
          /\ tree.red[n] => \A d \in Sides : ~Red(tree, tree.kid[d][n])
    /\ ~Red(tree, tree.root) /\ BlackHeight(tree.root) # -1
    /\ keyType = "string" => \A k \in dict : EntryFind(tree, k) = k

(* A search gives a key once and only keys of the tree, in order when it   *)
(* is in order; when it ends although the tree has not changed it has      *)
(* given every key; and it never looks at a node after the tree changed.   *)
SearchSound ==
    search # NoSearch =>
        /\ IsInjective(search.seen)
        /\ search.fresh =>
             /\ ToSet(search.seen) \subseteq dict
             /\ search.order = "inorder" => IsPrefix(search.seen, KeyList(tree.root))
             /\ SearchAdd(search).node = NULL => ToSet(search.seen) = dict
=============================================================================
