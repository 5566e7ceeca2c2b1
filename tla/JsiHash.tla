--------------------------------- MODULE JsiHash --------------------------------
(***************************************************************************)
(* Jsi_Hash (jsiHash.c): a table of buckets, each a chain of entries, that *)
(* grows fourfold, and the search that walks through it.                   *)
(*                                                                         *)
(* The order of the entries of a chain is left open.  A search keeps a     *)
(* pointer to the entry it will return next; what lies behind that entry   *)
(* in its chain is decided as the search goes.                             *)
(***************************************************************************)
EXTENDS Naturals, FiniteSets

CONSTANTS Keys, Values,
          Index(_, _),    \* the bucket of a key in a table of so many buckets
          StructKeys,     \* the keys are structs (keyType >= STRUCT_MINSIZE)
          StartBuckets,   \* JSI_SMALL_HASH_TABLE
          Multiplier,     \* REBUILD_MULTIPLIER
          MaxEntries,     \* bound on the entries allocated at once
          MaxBuckets,     \* bound on the size of the table
          None

Entries == 1..MaxEntries

ASSUME HashAssumption ==
  /\ StartBuckets \in Nat \ {0} /\ Multiplier \in Nat \ {0}
  /\ MaxEntries \in Nat /\ MaxBuckets \in Nat /\ StartBuckets <= MaxBuckets
  /\ StructKeys \in BOOLEAN
  /\ None \notin Keys \cup Values \cup Entries \cup {0}
  /\ \A k \in Keys, n \in 1..MaxBuckets : Index(k, n) \in 0..(n - 1)

VARIABLES
  numBuckets, rebuildSize, numEntries,
  live,       \* the entries that are allocated
  key,        \* the key of every entry
  chain,      \* the bucket every live entry is linked in
  data,       \* clientData
  search,     \* the state of a Jsi_HashSearch, and what it has returned
  answer,     \* what the last operation returned
  fault       \* what went wrong inside the table

tableVars == <<numBuckets, rebuildSize, numEntries, live, key, chain, data>>
vars == <<tableVars, search, answer, fault>>

Reply(op, k, res) == [op |-> op, key |-> k, res |-> res]

\* idx: nextIndex; next: nextEntryPtr; behind: the entries behind next in its
\* chain.  The rest is auxiliary: seen: the entries returned and still there; due:
\* those there from the start on; grown: the table was rebuilt under the search;
\* rash: its caller deleted an entry it had not got yet; twice, missed: an entry
\* was returned again, or never.
NoSearch == [on |-> FALSE, idx |-> 0, next |-> None, behind |-> {}, seen |-> {},
             due |-> {}, grown |-> FALSE, rash |-> FALSE,
             twice |-> FALSE, missed |-> FALSE]

Init ==
  /\ numBuckets = StartBuckets
  /\ rebuildSize = StartBuckets * Multiplier
  /\ numEntries = 0 /\ live = {}
  /\ key = [e \in Entries |-> None]
  /\ chain = [e \in Entries |-> 0]
  /\ data = [e \in Entries |-> None]
  /\ search = NoSearch
  /\ answer = Reply("none", None, None)
  /\ fault = "none"

-----------------------------------------------------------------------------
(* Lookup, creation and deletion.                                          *)

Chain(i) == {e \in live : chain[e] = i}

\* For struct keys the walk returns nothing whatever it meets (HashArrayFind), and
\* HashArrayCreate does not look at what its own walk found.
StructFound == {}
\* The walk along the chain of k.
Found(k) == IF StructKeys THEN StructFound
            ELSE {e \in Chain(Index(k, numBuckets)) : key[e] = k}

\* Faulty: the table is grown, the entries stay where they are.
Regrown(n, e) == chain[e]
\* The bucket of entry e when the table is rebuilt with n buckets.
Rehashed(n, e) == Index(key[e], n)

\* What may be allocated next; the memory of an entry that a search still points
\* to is not taken again.
Unused == Entries \ (live \cup {search.next})
NewEntries == {e \in Unused : \A f \in Unused : e <= f}

\* Entry e is linked in front of its chain; the table is rebuilt if full.
Grows == numEntries + 1 >= rebuildSize
AddEntry(e, k) ==
  /\ live' = live \cup {e}
  /\ key' = [key EXCEPT ![e] = k]
  /\ numEntries' = numEntries + 1
  /\ IF Grows
     THEN /\ 4 * numBuckets <= MaxBuckets
          /\ numBuckets' = 4 * numBuckets
          /\ rebuildSize' = 4 * rebuildSize
          /\ chain' = [x \in Entries |->
               IF x = e THEN Index(k, 4 * numBuckets)
               ELSE IF x \in live THEN Rehashed(4 * numBuckets, x) ELSE chain[x]]
     ELSE /\ chain' = [chain EXCEPT ![e] = Index(k, numBuckets)]
          /\ UNCHANGED <<numBuckets, rebuildSize>>

\* A rebuild relinks the chains: anything of next's new chain may follow it.
SearchAfterAdd ==
  IF ~(search.on /\ Grows) THEN UNCHANGED search
  ELSE \E B \in SUBSET {e \in live \ {search.next} :
                 search.next \in live /\ chain'[e] = chain'[search.next]} :
         search' = [search EXCEPT !.behind = B, !.grown = TRUE]

\* Jsi_HashEntryCreate, with or without a value set in the entry after it.
Put(k) ==
  /\ answer' = Reply("put", k, Found(k) = {})
  /\ \/ \E e \in Found(k) :
          /\ \/ UNCHANGED data
             \/ \E v \in Values : data' = [data EXCEPT ![e] = v]
          /\ UNCHANGED <<numBuckets, rebuildSize, numEntries, live, key,
                         chain, search>>
     \/ /\ Found(k) = {}
        /\ \E e \in NewEntries, v \in Values \cup {None} :
             AddEntry(e, k) /\ data' = [data EXCEPT ![e] = v]
        /\ SearchAfterAdd
  /\ UNCHANGED fault

\* Jsi_HashGet
Get(k) ==
  /\ \/ Found(k) = {} /\ answer' = Reply("get", k, None)
     \/ \E e \in Found(k) : answer' = Reply("get", k, data[e])
  /\ UNCHANGED <<tableVars, search, fault>>

\* Jsi_HashEntryFind
Has(k) ==
  /\ answer' = Reply("has", k, Found(k) # {})
  /\ UNCHANGED <<tableVars, search, fault>>

\* Faulty: the entry is unlinked but still counted.
StillCounted == numEntries
OneLess == numEntries - 1

\* Jsi_HashEntryDelete of a live entry, unlinked from the chain its hval leads to;
\* in a chain without it the code stops with Jsi_LogFatal (see ChainsSound).
Delete(e) ==
  /\ e \in live
  /\ answer' = Reply("remove", key[e], None)
  /\ chain[e] = Index(key[e], numBuckets)
  /\ live' = live \ {e}
  /\ numEntries' = OneLess
  /\ key' = [key EXCEPT ![e] = None]
  /\ chain' = [chain EXCEPT ![e] = 0]
  /\ data' = [data EXCEPT ![e] = None]
  /\ search' = [search EXCEPT !.behind = @ \ {e}, !.due = @ \ {e},
                              !.seen = @ \ {e},
                              !.rash = @ \/ (search.on /\ e \notin search.seen)]
  /\ UNCHANGED <<numBuckets, rebuildSize, fault>>

Size == /\ answer' = Reply("size", None, numEntries)
        /\ UNCHANGED <<tableVars, search, fault>>

-----------------------------------------------------------------------------
(* Jsi_HashEntryFirst and Jsi_HashEntryNext.                               *)

\* e is returned, and the search goes on with an entry of rest or a later bucket.
Returns(e, rest, idx) ==
  \E n \in IF rest = {} THEN {None} ELSE rest :
    search' = [search EXCEPT !.idx = idx, !.next = n, !.behind = rest \ {n},
                             !.seen = @ \cup {e}, !.twice = e \in search.seen]

First ==
  /\ ~search.on
  /\ search' = [NoSearch EXCEPT !.on = TRUE, !.due = live]
  /\ UNCHANGED <<tableVars, answer, fault>>

\* Faulty: the bucket a search starts with is left out.
SkipFirst == search.idx + 1
\* The next bucket to look at.
FromIndex == search.idx
Later == {i \in FromIndex..(numBuckets - 1) : Chain(i) # {}}

NextEntry ==
  /\ search.on
  /\ \/ /\ search.next # None /\ search.next \in live
        /\ Returns(search.next, search.behind, search.idx)
        /\ UNCHANGED fault
     \/ /\ search.next # None /\ search.next \notin live
        /\ fault' = "freed memory"
        /\ UNCHANGED search
     \/ /\ search.next = None /\ Later # {}
        /\ LET i == CHOOSE i \in Later : \A j \in Later : i <= j IN
           \E e \in Chain(i) : Returns(e, Chain(i) \ {e}, i + 1)
        /\ UNCHANGED fault
     \/ /\ search.next = None /\ Later = {}
        /\ search' = [NoSearch EXCEPT !.grown = search.grown,
                                      !.missed = ~(search.due \subseteq search.seen)]
        /\ UNCHANGED fault
  /\ UNCHANGED <<tableVars, answer>>

-----------------------------------------------------------------------------
Next == /\ fault = "none"
        /\ \/ \E k \in Keys : Put(k) \/ Get(k) \/ Has(k)
           \/ \E e \in Entries : Delete(e)
           \/ Size \/ First \/ NextEntry

Spec == Init /\ [][Next]_vars

-----------------------------------------------------------------------------
(* Properties.                                                             *)

\* The shape of the state.
TypeOK ==
  /\ numBuckets \in Nat \ {0} /\ rebuildSize \in Nat
  /\ numEntries \in Nat
  /\ live \subseteq Entries
  /\ key \in [Entries -> Keys \cup {None}]
  /\ chain \in [Entries -> Nat]
  /\ data \in [Entries -> Values \cup {None}]

\* Every entry is linked in the bucket where a lookup and the deletion of its key
\* go, through any number of rebuilds (so that Jsi_HashEntryDelete never meets a
\* malformed chain); the count is right, and a full table has been rebuilt.
ChainsSound ==
  /\ \A e \in live : key[e] \in Keys /\ chain[e] = Index(key[e], numBuckets)
  /\ numEntries = Cardinality(live)
  /\ numEntries < rebuildSize

\* No two entries have the same key.
KeysUnique == \A e, f \in live : key[e] = key[f] => e = f

\* The table is sound: chains and counts agree, and no key is entered twice (keys
\* that are structs are compared otherwise than they are hashed).
TableSound == ChainsSound /\ (~StructKeys => KeysUnique)

\* The map of Dict.tla, read off the table: its keys, and what is found under each.
KeysOf(L, ky) == {ky[e] : e \in L}
ValuesOf(L, ky, d) == [k \in Keys |->
  IF \E e \in L : ky[e] = k THEN d[CHOOSE e \in L : ky[e] = k] ELSE None]
Map == INSTANCE Dict WITH present <- KeysOf(live, key),
                          value   <- ValuesOf(live, key, data)

\* The table behaves like a map from keys to values: every creation, lookup, count
\* and deletion answers as the map would.
ImplementsDict == Map!Spec

\* If the table is not rebuilt while it runs, a search that came to its end has
\* returned every entry that was there from its start to its end, and none twice; and
\* it follows no pointer to a freed entry if its caller deleted none but those it
\* got.  (A rebuild may link an entry that was returned behind the next one.)
SearchSound == /\ search.missed \/ search.twice => search.grown
               /\ fault = "freed memory" => search.rash \/ search.grown

=============================================================================
