----------------------------- MODULE JsiHash_proofs -----------------------------
(***************************************************************************)
(* Proofs about the hash table, for every set of keys, every hash function *)
(* with buckets in range, and every size of the first table.               *)
(***************************************************************************)
EXTENDS JsiHash, FiniteSetTheorems, FunctionTheorems, WellFoundedInduction, TLAPS

\* The inductive invariant: deletion keeps the count right because the entry was
\* counted, creation keeps the keys unique because a key that is present is found
\* in its bucket, and its bucket exists because the table is as large as it says.
IInv == /\ TypeOK /\ ChainsSound
        /\ numBuckets <= MaxBuckets
        /\ ~StructKeys => KeysUnique

USE HashAssumption

LEMMA EntriesFinite ==
  \A S \in SUBSET Entries : IsFiniteSet(S) /\ Cardinality(S) \in Nat
<1>1. IsFiniteSet(Entries)
  BY FS_Interval DEF Entries
<1> QED
  BY <1>1, FS_Subset, FS_CardinalityType

LEMMA IndexInTable ==
  ASSUME NEW k \in Keys, NEW n \in Nat \ {0}, n <= MaxBuckets
  PROVE  Index(k, n) \in Nat
<1>1. n \in 1..MaxBuckets
  OBVIOUS
<1>2. Index(k, n) \in 0..(n - 1)
  BY <1>1
<1> QED
  BY <1>2

LEMMA InitIInv == Init => IInv
<1> SUFFICES ASSUME Init PROVE IInv
  OBVIOUS
<1>1. TypeOK
  BY DEF Init, TypeOK
<1>2. Cardinality(live) = 0
  BY FS_EmptySet DEF Init
<1>3. ChainsSound
  BY <1>2 DEF Init, ChainsSound
<1> QED
  BY <1>1, <1>3 DEF Init, IInv, KeysUnique

\* A new entry keeps the invariant, whether the table is rebuilt for it or not.
LEMMA AddIInv ==
  ASSUME IInv, NEW k \in Keys, NEW e \in Unused, Found(k) = {}, AddEntry(e, k),
         NEW v \in Values \cup {None}, data' = [data EXCEPT ![e] = v]
  PROVE  IInv'
<1> USE DEF IInv
<1>e. e \in Entries /\ e \notin live
  BY DEF Unused
<1>n. /\ numBuckets \in Nat \ {0} /\ rebuildSize \in Nat /\ numEntries \in Nat
      /\ live \subseteq Entries
  BY DEF TypeOK
<1>s. /\ \A x \in live : key[x] \in Keys /\ chain[x] = Index(key[x], numBuckets)
      /\ numEntries = Cardinality(live) /\ numEntries < rebuildSize
  BY DEF ChainsSound
<1>a. /\ live' = live \cup {e}
      /\ key' = [key EXCEPT ![e] = k]
      /\ numEntries' = numEntries + 1
  BY DEF AddEntry
<1>k. /\ key' \in [Entries -> Keys \cup {None}]
      /\ key'[e] = k /\ \A x \in live : key'[x] = key[x]
  BY <1>a, <1>e, <1>n DEF TypeOK
<1>1. Cardinality(live') = numEntries'
  <2>1. IsFiniteSet(live)
    BY EntriesFinite, <1>n
  <2> QED
    BY <2>1, FS_AddElement, <1>a, <1>s, <1>e
<1>2. /\ numBuckets' \in Nat \ {0} /\ numBuckets' <= MaxBuckets
      /\ rebuildSize' \in Nat /\ numEntries' < rebuildSize'
      /\ chain'[e] = Index(k, numBuckets')
      /\ \A x \in live : chain'[x] = Index(key[x], numBuckets')
      /\ chain' \in [Entries -> Nat]
  <2>1. CASE Grows
    <3>1. /\ numBuckets' = 4 * numBuckets /\ 4 * numBuckets <= MaxBuckets
          /\ rebuildSize' = 4 * rebuildSize
          /\ chain' = [x \in Entries |->
               IF x = e THEN Index(k, 4 * numBuckets)
               ELSE IF x \in live THEN Rehashed(4 * numBuckets, x) ELSE chain[x]]
      BY <2>1 DEF AddEntry
    <3>2. Index(k, 4 * numBuckets) \in Nat
      BY <3>1, <1>n, IndexInTable
    <3>3. \A x \in live : Index(key[x], 4 * numBuckets) \in Nat
      BY <3>1, <1>n, <1>s, IndexInTable
    <3>4. chain' \in [Entries -> Nat]
      BY <3>1, <3>2, <3>3 DEF Rehashed, TypeOK
    <3>5. /\ chain'[e] = Index(k, 4 * numBuckets)
          /\ \A x \in live : chain'[x] = Index(key[x], 4 * numBuckets)
      BY <3>1, <1>e, <1>n DEF Rehashed
    <3>6. /\ numBuckets' \in Nat \ {0} /\ numBuckets' <= MaxBuckets
          /\ rebuildSize' \in Nat /\ numEntries' < rebuildSize'
      BY <3>1, <1>n, <1>s, <1>a
    <3> QED
      BY <3>1, <3>4, <3>5, <3>6
  <2>2. CASE ~Grows
    <3>1. /\ numBuckets' = numBuckets /\ rebuildSize' = rebuildSize
          /\ chain' = [chain EXCEPT ![e] = Index(k, numBuckets)]
      BY <2>2 DEF AddEntry
    <3>2. numEntries' < rebuildSize'
      BY <2>2, <3>1, <1>n, <1>a DEF Grows
    <3>3. Index(k, numBuckets) \in Nat
      BY <1>n, IndexInTable
    <3>4. /\ chain' \in [Entries -> Nat]
          /\ chain'[e] = Index(k, numBuckets)
          /\ \A x \in live : chain'[x] = chain[x]
      BY <3>1, <3>3, <1>e, <1>n DEF TypeOK
    <3> QED
      BY <3>1, <3>2, <3>4, <1>n, <1>s
  <2> QED
    BY <2>1, <2>2
<1>3. TypeOK'
  <2>1. data' \in [Entries -> Values \cup {None}]
    BY <1>e DEF TypeOK
  <2> QED
    BY <2>1, <1>2, <1>k, <1>a, <1>n, <1>e DEF TypeOK
<1>4. ChainsSound'
  <2>1. \A x \in live' : key'[x] \in Keys /\ chain'[x] = Index(key'[x], numBuckets')
    BY <1>a, <1>k, <1>2, <1>s
  <2> QED
    BY <2>1, <1>1, <1>2 DEF ChainsSound
<1>5. ~StructKeys => KeysUnique'
  <2> SUFFICES ASSUME ~StructKeys, NEW x \in live', NEW y \in live', key'[x] = key'[y]
               PROVE  x = y
    BY DEF KeysUnique
  <2>1. \A z \in live : key[z] # k
    BY <1>s DEF Found, Chain
  <2>2. KeysUnique
    OBVIOUS
  <2> QED
    BY <2>1, <2>2, <1>a, <1>k DEF KeysUnique
<1> QED
  BY <1>2, <1>3, <1>4, <1>5

LEMMA PutIInv == ASSUME IInv, NEW k \in Keys, Put(k) PROVE IInv'
<1>1. CASE /\ UNCHANGED <<numBuckets, rebuildSize, numEntries, live, key, chain>>
           /\ \E e \in Found(k) : \/ UNCHANGED data
                                  \/ \E v \in Values : data' = [data EXCEPT ![e] = v]
  <2>1. data' \in [Entries -> Values \cup {None}]
    BY <1>1 DEF IInv, TypeOK
  <2>2. TypeOK'
    BY <1>1, <2>1 DEF IInv, TypeOK
  <2> QED
    BY <1>1, <2>2 DEF IInv, ChainsSound, KeysUnique
<1>2. CASE /\ Found(k) = {}
           /\ \E e \in NewEntries, v \in Values \cup {None} :
                AddEntry(e, k) /\ data' = [data EXCEPT ![e] = v]
  BY <1>2, AddIInv DEF NewEntries
<1> QED
  BY <1>1, <1>2 DEF Put

LEMMA DeleteIInv == ASSUME IInv, NEW e \in Entries, Delete(e) PROVE IInv'
<1> USE DEF IInv
<1>1. /\ e \in live /\ live' = live \ {e}
      /\ numEntries' = numEntries - 1
      /\ key' = [key EXCEPT ![e] = None]
      /\ chain' = [chain EXCEPT ![e] = 0]
      /\ data' = [data EXCEPT ![e] = None]
      /\ UNCHANGED <<numBuckets, rebuildSize>>
  BY DEF Delete, OneLess
<1>2. Cardinality(live') = numEntries' /\ numEntries' \in Nat
  <2>1. IsFiniteSet(live) /\ Cardinality(live) \in Nat
    BY EntriesFinite DEF TypeOK
  <2>2. Cardinality(live') = Cardinality(live) - 1
    BY <2>1, <1>1, FS_RemoveElement
  <2>3. IsFiniteSet(live') /\ Cardinality(live') \in Nat
    BY EntriesFinite, <1>1 DEF TypeOK
  <2> QED
    BY <2>2, <2>3, <1>1 DEF ChainsSound
<1>3. TypeOK'
  BY <1>1, <1>2 DEF TypeOK
<1>4. ChainsSound'
  <2>1. \A x \in live' : key'[x] = key[x] /\ chain'[x] = chain[x]
    BY <1>1 DEF TypeOK
  <2>2. numEntries' < rebuildSize'
    BY <1>1 DEF ChainsSound, TypeOK
  <2> QED
    BY <1>1, <1>2, <2>1, <2>2 DEF ChainsSound
<1>5. ~StructKeys => KeysUnique'
  BY <1>1 DEF KeysUnique, TypeOK
<1> QED
  BY <1>1, <1>3, <1>4, <1>5

LEMMA NextIInv == IInv /\ [Next]_vars => IInv'
<1> SUFFICES ASSUME IInv, [Next]_vars PROVE IInv'
  OBVIOUS
<1>1. ASSUME UNCHANGED tableVars PROVE IInv'
  BY <1>1 DEF IInv, TypeOK, ChainsSound, KeysUnique, tableVars
<1>2. ASSUME NEW k \in Keys, Put(k) PROVE IInv'
  BY <1>2, PutIInv
<1>3. ASSUME NEW k \in Keys, Get(k) \/ Has(k) PROVE IInv'
  BY <1>3, <1>1 DEF Get, Has
<1>4. ASSUME NEW e \in Entries, Delete(e) PROVE IInv'
  BY <1>4, DeleteIInv
<1>5. CASE Size \/ First \/ NextEntry
  BY <1>5, <1>1 DEF Size, First, NextEntry
<1>6. CASE UNCHANGED vars
  BY <1>6, <1>1 DEF vars
<1> QED
  BY <1>2, <1>3, <1>4, <1>5, <1>6 DEF Next

\* The state of a table keeps its types.
THEOREM TypeCorrect == Spec => []TypeOK
<1>1. IInv => TypeOK
  BY DEF IInv
<1> QED
  BY InitIInv, NextIInv, <1>1, PTL DEF Spec

\* Every entry stays linked where lookups and deletions of its key look for it, and
\* is counted, through any number of creations, deletions and rebuilds: in
\* Jsi_HashEntryDelete the chain is never malformed.
THEOREM AlwaysSound == Spec => []TableSound
<1>1. IInv => TableSound
  BY DEF IInv, TableSound
<1> QED
  BY InitIInv, NextIInv, <1>1, PTL DEF Spec

\* A table whose keys are strings or words has one entry for a key.
THEOREM OneEntryPerKey == ASSUME ~StructKeys PROVE Spec => []KeysUnique
<1>1. IInv => KeysUnique
  BY DEF IInv
<1> QED
  BY InitIInv, NextIInv, <1>1, PTL DEF Spec

-----------------------------------------------------------------------------
(* The table implements the map of Dict.tla.                               *)

\* What is found under the key of an entry is the value of that entry, if the keys
\* are unique.
LEMMA ValueOfEntry ==
  ASSUME NEW L, NEW ky, NEW d, NEW e \in L, ky[e] \in Keys,
         \A f \in L : ky[f] = ky[e] => f = e
  PROVE  ValuesOf(L, ky, d)[ky[e]] = d[e]
<1>1. (CHOOSE f \in L : ky[f] = ky[e]) = e
  OBVIOUS
<1> QED
  BY <1>1 DEF ValuesOf

LEMMA ValueOfAbsent ==
  ASSUME NEW L, NEW ky, NEW d, NEW k \in Keys, k \notin KeysOf(L, ky)
  PROVE  ValuesOf(L, ky, d)[k] = None
BY DEF ValuesOf, KeysOf

\* Table M, of keys kz and values dd, has the entries of L, of keys ky and values d,
\* except for those of key k; the keys of both are unique.
ChangedAt(k, L, ky, d, M, kz, dd) ==
  /\ \A e \in L : ky[e] # k => e \in M /\ kz[e] = ky[e] /\ dd[e] = d[e]
  /\ \A e \in M : kz[e] # k => e \in L /\ ky[e] = kz[e]
  /\ \A e, f \in L : ky[e] = ky[f] => e = f
  /\ \A e, f \in M : kz[e] = kz[f] => e = f

LEMMA ValuesExcept ==
  ASSUME NEW L, NEW ky, NEW d, NEW M, NEW kz, NEW dd, NEW k \in Keys,
         ChangedAt(k, L, ky, d, M, kz, dd)
  PROVE  ValuesOf(M, kz, dd) = [ValuesOf(L, ky, d) EXCEPT ![k] = ValuesOf(M, kz, dd)[k]]
<1> USE DEF ChangedAt
<1>1. ASSUME NEW j \in Keys, j # k
      PROVE  ValuesOf(M, kz, dd)[j] = ValuesOf(L, ky, d)[j]
  <2>1. CASE \E e \in L : ky[e] = j
    <3>1. PICK e \in L : ky[e] = j
      BY <2>1
    <3>2. e \in M /\ kz[e] = j /\ dd[e] = d[e]
      BY <3>1, <1>1
    <3>3. ValuesOf(L, ky, d)[j] = d[e]
      BY <3>1, ValueOfEntry
    <3>4. ValuesOf(M, kz, dd)[j] = dd[e]
      BY <3>2, ValueOfEntry
    <3> QED
      BY <3>2, <3>3, <3>4
  <2>2. CASE j \notin KeysOf(L, ky)
    <3>1. j \notin KeysOf(M, kz)
      BY <2>2, <1>1 DEF KeysOf
    <3> QED
      BY <2>2, <3>1, ValueOfAbsent
  <2> QED
    BY <2>1, <2>2 DEF KeysOf
<1>2. /\ ValuesOf(M, kz, dd) = [j \in Keys |-> ValuesOf(M, kz, dd)[j]]
      /\ ValuesOf(L, ky, d) = [j \in Keys |-> ValuesOf(L, ky, d)[j]]
  BY DEF ValuesOf
<1> QED
  BY <1>1, <1>2

\* In a sound table with unique keys a key is found if and only if it is there.
LEMMA FoundPresent ==
  ASSUME IInv, ~StructKeys, NEW k \in Keys
  PROVE  /\ \A e \in Found(k) : e \in live /\ key[e] = k
         /\ Found(k) = {} <=> k \notin KeysOf(live, key)
<1>1. \A e \in live : key[e] = k => e \in Found(k)
  BY DEF IInv, ChainsSound, Found, Chain
<1>2. \A e \in Found(k) : e \in live /\ key[e] = k
  BY DEF Found, Chain
<1> QED
  BY <1>1, <1>2 DEF KeysOf

LEMMA SizeIsCount ==
  ASSUME IInv, ~StructKeys
  PROVE  Cardinality(KeysOf(live, key)) = numEntries
<1> DEFINE K == KeysOf(live, key)
           f == [e \in live |-> key[e]]
<1>1. IsFiniteSet(live)
  BY EntriesFinite DEF IInv, TypeOK
<1>2. f \in [live -> K] /\ (\A a, b \in live : f[a] = f[b] => a = b)
  BY DEF IInv, KeysUnique, KeysOf
<1>3. \A t \in K : \E e \in live : f[e] = t
  BY DEF KeysOf
<1>4. f \in Bijection(live, K)
  <2> HIDE DEF f, K
  <2> QED
    BY <1>2, <1>3, Fun_IsBij
<1>5. ExistsBijection(live, K)
  BY <1>4, Fun_ExistsBij
<1>6. Cardinality(K) = Cardinality(live)
  <2> HIDE DEF K
  <2> QED
    BY <1>1, <1>5, FS_Bijection
<1> QED
  BY <1>6 DEF IInv, ChainsSound

LEMMA InitMap == Init => Map!Init
BY DEF Init, Map!Init, Map!Reply, Reply, KeysOf, ValuesOf

LEMMA PutMap ==
  ASSUME IInv, ~StructKeys, IInv', NEW k \in Keys, Put(k) PROVE Map!Put(k)
<1> DEFINE K == KeysOf(live, key)
           V == ValuesOf(live, key, data)
           K1 == KeysOf(live', key')
           V1 == ValuesOf(live', key', data')
<1>1. answer' = Map!Reply("put", k, k \notin K)
  BY FoundPresent DEF Put, Reply, Map!Reply
<1>2. /\ \A x \in live : key[x] \in Keys
      /\ \A x, y \in live : key[x] = key[y] => x = y
      /\ \A x \in live' : key'[x] \in Keys
      /\ \A x, y \in live' : key'[x] = key'[y] => x = y
      /\ live \subseteq Entries
      /\ data \in [Entries -> Values \cup {None}] /\ DOMAIN key = Entries
  BY DEF IInv, KeysUnique, ChainsSound, TypeOK
<1>3. ASSUME NEW e \in Found(k), UNCHANGED <<live, key>>,
             UNCHANGED data \/ \E v \in Values : data' = [data EXCEPT ![e] = v]
      PROVE  /\ K1 = K /\ k \in K
             /\ (\E v \in Values : V1 = [V EXCEPT ![k] = v]) \/ V1 = V
  <2>1. e \in live /\ key[e] = k
    BY FoundPresent
  <2>2. K1 = K /\ k \in K
    BY <1>3, <2>1 DEF KeysOf
  <2>3. ASSUME NEW v \in Values, data' = [data EXCEPT ![e] = v]
        PROVE  V1 = [V EXCEPT ![k] = v]
    <3>1. data'[e] = v /\ \A x \in live : key[x] # k => data'[x] = data[x]
      BY <2>3, <2>1, <1>2
    <3>2. key'[e] = k /\ e \in live'
      BY <1>3, <2>1
    <3>3. V1[k] = v
      BY <3>1, <3>2, <1>2, ValueOfEntry
    <3>4. ChangedAt(k, live, key, data, live', key', data')
      BY <1>3, <3>1, <1>2 DEF ChangedAt
    <3> QED
      BY <3>3, <3>4, ValuesExcept
  <2>4. ASSUME UNCHANGED data PROVE V1 = V
    BY <2>4, <1>3
  <2> HIDE DEF V, V1, K, K1
  <2> QED
    BY <2>2, <2>3, <2>4, <1>3
<1>4. ASSUME Found(k) = {}, NEW e \in Unused, NEW v \in Values \cup {None},
             AddEntry(e, k), data' = [data EXCEPT ![e] = v]
      PROVE  /\ K1 = K \cup {k} /\ k \notin K
             /\ V1 = [V EXCEPT ![k] = v]
  <2>1. k \notin K
    BY <1>4, FoundPresent
  <2>2. /\ live' = live \cup {e} /\ e \notin live
        /\ key'[e] = k /\ \A x \in live : key'[x] = key[x]
        /\ data'[e] = v /\ \A x \in live : data'[x] = data[x]
    <3>1. e \in Entries /\ e \notin live
      BY DEF Unused
    <3> QED
      BY <1>4, <3>1, <1>2 DEF AddEntry
  <2>3. K1 = K \cup {k}
    BY <2>2 DEF KeysOf
  <2>4. V1[k] = v
    BY <2>2, <1>2, ValueOfEntry
  <2>5. V1 = [V EXCEPT ![k] = v]
    <3>1. ChangedAt(k, live, key, data, live', key', data')
      BY <2>2, <1>2 DEF ChangedAt
    <3> QED
      BY <2>4, <3>1, ValuesExcept
  <2> QED
    BY <2>1, <2>3, <2>5
<1>5. CASE /\ UNCHANGED <<live, key>>
           /\ \E e \in Found(k) : \/ UNCHANGED data
                                  \/ \E v \in Values : data' = [data EXCEPT ![e] = v]
  <2>1. /\ K1 = K /\ k \in K
        /\ (\E v \in Values : V1 = [V EXCEPT ![k] = v]) \/ V1 = V
    BY <1>5, <1>3
  <2>2. K1 = K \cup {k}
    BY <2>1
  <2> QED
    BY <2>1, <2>2, <1>1 DEF Map!Put
<1>6. CASE /\ Found(k) = {}
           /\ \E e \in NewEntries, v \in Values \cup {None} :
                AddEntry(e, k) /\ data' = [data EXCEPT ![e] = v]
  <2>1. PICK v \in Values \cup {None} :
          K1 = K \cup {k} /\ k \notin K /\ V1 = [V EXCEPT ![k] = v]
    BY <1>6, <1>4 DEF NewEntries
  <2> QED
    BY <2>1, <1>1 DEF Map!Put
<1> QED
  BY <1>5, <1>6 DEF Put

LEMMA DeleteMap ==
  ASSUME IInv, ~StructKeys, IInv', NEW e \in Entries, Delete(e)
  PROVE  key[e] \in Keys /\ Map!Remove(key[e])
<1> DEFINE k == key[e]
           K == KeysOf(live, key)
           V == ValuesOf(live, key, data)
           K1 == KeysOf(live', key')
           V1 == ValuesOf(live', key', data')
<1>1. /\ e \in live /\ live' = live \ {e}
      /\ \A x \in live' : key'[x] = key[x] /\ data'[x] = data[x]
  BY DEF Delete, IInv, TypeOK
<1>2. /\ \A x \in live : key[x] \in Keys
      /\ \A x, y \in live : key[x] = key[y] => x = y
      /\ \A x, y \in live' : key'[x] = key'[y] => x = y
  BY DEF IInv, KeysUnique, ChainsSound
<1>3. k \in Keys /\ k \in K /\ K1 = K \ {k}
  BY <1>1, <1>2 DEF KeysOf
<1>4. V1[k] = None
  BY <1>3, ValueOfAbsent
<1>5. V1 = [V EXCEPT ![k] = None]
  <2>1. ChangedAt(k, live, key, data, live', key', data')
    BY <1>1, <1>2 DEF ChangedAt
  <2> QED
    BY <1>3, <1>4, <2>1, ValuesExcept
<1>6. answer' = Map!Reply("remove", k, None)
  BY DEF Delete, Reply, Map!Reply
<1> QED
  BY <1>3, <1>5, <1>6 DEF Map!Remove

LEMMA GetMap ==
  ASSUME IInv, ~StructKeys, NEW k \in Keys, Get(k) PROVE Map!Get(k)
<1> DEFINE K == KeysOf(live, key)
           V == ValuesOf(live, key, data)
<1>1. UNCHANGED <<live, key, data>>
  BY DEF Get, tableVars
<1>2. CASE Found(k) = {} /\ answer' = Reply("get", k, None)
  BY <1>1, <1>2, FoundPresent DEF Map!Get, Map!Reply, Reply
<1>3. ASSUME NEW e \in Found(k), answer' = Reply("get", k, data[e]) PROVE Map!Get(k)
  <2>1. e \in live /\ key[e] = k /\ k \in K
    BY FoundPresent DEF KeysOf
  <2>2. V[k] = data[e]
    BY <2>1, ValueOfEntry DEF IInv, KeysUnique
  <2> QED
    BY <1>1, <1>3, <2>1, <2>2 DEF Map!Get, Map!Reply, Reply
<1> QED
  BY <1>2, <1>3 DEF Get

LEMMA NextMap ==
  ASSUME IInv, ~StructKeys, IInv', [Next]_vars
  PROVE  [Map!Next]_<<KeysOf(live, key), ValuesOf(live, key, data), answer>>
<1>1. CASE UNCHANGED <<tableVars, answer>>
  BY <1>1 DEF tableVars
<1>2. ASSUME NEW k \in Keys, Put(k) \/ Get(k) \/ Has(k) PROVE Map!Next
  <2>1. CASE Put(k)
    BY <2>1, PutMap DEF Map!Next
  <2>2. CASE Get(k)
    BY <2>2, GetMap DEF Map!Next
  <2>3. CASE Has(k)
    BY <2>3, FoundPresent DEF Has, Reply, Map!Reply, Map!Has, Map!Next, tableVars
  <2> QED
    BY <1>2, <2>1, <2>2, <2>3
<1>3. ASSUME NEW e \in Entries, Delete(e) PROVE Map!Next
  BY <1>3, DeleteMap DEF Map!Next
<1>4. CASE Size
  <2>1. UNCHANGED <<KeysOf(live, key), ValuesOf(live, key, data)>>
    BY <1>4 DEF Size, tableVars
  <2>2. answer' = Map!Reply("size", None, Cardinality(KeysOf(live, key)))
    BY <1>4, SizeIsCount DEF Size, Reply, Map!Reply
  <2> QED
    BY <2>1, <2>2 DEF Map!Size, Map!Next, Map!Cardinality, Cardinality
<1>5. CASE First \/ NextEntry \/ UNCHANGED vars
  BY <1>5, <1>1 DEF First, NextEntry, vars
<1> QED
  BY <1>2, <1>3, <1>4, <1>5 DEF Next

\* A table of string or word keys is the map of Dict.tla: whatever was created,
\* removed and rebuilt, every lookup and count answers as the map would.
THEOREM TableIsMap == ASSUME ~StructKeys PROVE Spec => ImplementsDict
<1> SUFFICES ASSUME ~StructKeys PROVE Spec => Map!Spec
  BY DEF ImplementsDict
<1>1. IInv /\ IInv' /\ [Next]_vars
      => [Map!Next]_<<KeysOf(live, key), ValuesOf(live, key, data), answer>>
  BY NextMap
<1> QED
  BY InitIInv, NextIInv, InitMap, <1>1, PTL DEF Spec, Map!Spec

-----------------------------------------------------------------------------
(* A search, as long as the table is not rebuilt under it.                 *)

\* What the search will return before it looks at another bucket.
Rest == IF search.next = None THEN {} ELSE {search.next} \cup search.behind

SearchType ==
  search \in [on : BOOLEAN, idx : Nat, next : Entries \cup {None},
              behind : SUBSET Entries, seen : SUBSET Entries, due : SUBSET Entries,
              grown : BOOLEAN, rash : BOOLEAN, twice : BOOLEAN, missed : BOOLEAN]

\* What it returned lies in the buckets before the next one, and what it has not
\* returned is the rest of the last bucket it looked at, or lies in those to come.
OnItsWay ==
  /\ search.seen \cup search.due \cup search.behind \subseteq live
  /\ \A e \in Rest : e \notin search.seen /\ (e \in live => chain[e] + 1 = search.idx)
  /\ \A e \in search.seen : chain[e] < search.idx
  /\ \A e \in search.due \ search.seen : e \in Rest \/ chain[e] >= search.idx
  /\ search.next # None /\ search.next \notin live => search.rash = TRUE
  /\ search.next \notin search.behind
  /\ search.twice = FALSE /\ search.missed = FALSE

SearchInv ==
  /\ SearchType
  /\ fault = "none" \/ search.rash = TRUE \/ search.grown = TRUE
  /\ search.grown = FALSE =>
       /\ search.on = TRUE => OnItsWay
       /\ search.on = FALSE => search.twice = FALSE /\ search.missed = FALSE

\* Every set of numbers that is not empty has a least one.
LEMMA LeastOf ==
  ASSUME NEW S, S \subseteq Nat, S # {}
  PROVE  \E x \in S : \A y \in S : x <= y
<1> DEFINE R == OpToRel(<, Nat)
<1>1. \A x, y \in Nat : x < y => <<x, y>> \in R
  BY DEF OpToRel
<1>2. IsWellFoundedOn(R, Nat)
  BY NatLessThanWellFounded
<1> HIDE DEF R
<1>3. PICK x \in S : \A y \in S : ~(<<y, x>> \in R)
  BY <1>2, WFMin
<1>4. \A y \in S : ~(y < x)
  BY <1>1, <1>3
<1> QED
  BY <1>4

\* Steps that leave the search, and what it refers to, alone.
LEMMA SearchInvFrame ==
  ASSUME SearchInv, UNCHANGED <<live, chain, search, fault>>
  PROVE  SearchInv'
BY DEF SearchInv, SearchType, OnItsWay, Rest

LEMMA InitSearchInv == Init => SearchInv
<1> SUFFICES ASSUME Init PROVE SearchInv
  OBVIOUS
<1>1. search = NoSearch /\ fault = "none"
  BY DEF Init
<1>2. NoSearch \in [on : BOOLEAN, idx : Nat, next : Entries \cup {None},
              behind : SUBSET Entries, seen : SUBSET Entries, due : SUBSET Entries,
              grown : BOOLEAN, rash : BOOLEAN, twice : BOOLEAN, missed : BOOLEAN]
  BY DEF NoSearch
<1> QED
  BY <1>1, <1>2 DEF SearchInv, SearchType, NoSearch

\* A new entry is linked in front of its chain: the search never meets it there, or
\* the table is rebuilt.
LEMMA PutSearchInv == ASSUME IInv, SearchInv, NEW k \in Keys, Put(k) PROVE SearchInv'
<1>1. CASE UNCHANGED <<live, chain, search>>
  BY <1>1, SearchInvFrame DEF Put
<1>2. ASSUME Found(k) = {}, NEW e \in NewEntries, AddEntry(e, k), SearchAfterAdd
      PROVE  SearchInv'
  <2>1. /\ e \in Entries /\ e \notin live /\ e # search.next
        /\ live' = live \cup {e} /\ live \subseteq Entries
    BY <1>2 DEF NewEntries, Unused, AddEntry, IInv, TypeOK
  <2>2. fault' = fault
    BY DEF Put
  <2>3. CASE search.on /\ Grows
    <3>1. PICK B \in SUBSET Entries :
            search' = [search EXCEPT !.behind = B, !.grown = TRUE]
      BY <1>2, <2>1, <2>3 DEF SearchAfterAdd
    <3>2. SearchType' /\ search'.grown = TRUE
      BY <3>1 DEF SearchInv, SearchType
    <3> QED
      BY <3>2 DEF SearchInv
  <2>4. CASE ~search.on
    <3>1. search' = search
      BY <1>2, <2>4 DEF SearchAfterAdd
    <3> QED
      BY <2>2, <2>4, <3>1 DEF SearchInv, SearchType
  <2>5. CASE search.on /\ ~Grows
    <3>1. search' = search /\ chain' = [chain EXCEPT ![e] = Index(k, numBuckets)]
      BY <1>2, <2>5 DEF SearchAfterAdd, AddEntry
    <3>2. \A x \in live : chain'[x] = chain[x]
      BY <2>1, <3>1 DEF IInv, TypeOK
    <3>3. SearchType'
      BY <3>1 DEF SearchInv, SearchType
    <3>4. ASSUME search.grown = FALSE PROVE OnItsWay'
      <4>1. OnItsWay
        BY <2>5, <3>4 DEF SearchInv, SearchType
      <4>2. e \notin search.behind
        BY <2>1, <4>1 DEF OnItsWay
      <4>3. Rest' = Rest
        BY <3>1 DEF Rest
      <4>4. e \notin Rest
        BY <2>1, <4>2 DEF Rest
      <4> QED
        BY <2>1, <3>1, <3>2, <4>1, <4>2, <4>3, <4>4 DEF OnItsWay
    <3> QED
      BY <2>2, <2>5, <3>1, <3>3, <3>4 DEF SearchInv, SearchType
  <2> QED
    BY <2>3, <2>4, <2>5 DEF SearchInv, SearchType
<1> QED
  BY <1>1, <1>2 DEF Put

LEMMA DeleteSearchInv ==
  ASSUME IInv, SearchInv, NEW e \in Entries, Delete(e) PROVE SearchInv'
<1>1. /\ e \in live /\ live' = live \ {e}
      /\ chain' = [chain EXCEPT ![e] = 0]
      /\ search' = [search EXCEPT !.behind = @ \ {e}, !.due = @ \ {e},
                                  !.seen = @ \ {e},
                                  !.rash = @ \/ (search.on /\ e \notin search.seen)]
      /\ fault' = fault
  BY DEF Delete
<1>2. \A x \in live' : x # e /\ x \in live /\ chain'[x] = chain[x]
  BY <1>1 DEF IInv, TypeOK
<1>3. SearchType
  BY DEF SearchInv
<1>4. /\ search'.behind = search.behind \ {e} /\ search'.due = search.due \ {e}
      /\ search'.seen = search.seen \ {e} /\ search'.next = search.next
      /\ search'.idx = search.idx /\ search'.on = search.on
      /\ search'.grown = search.grown /\ search'.twice = search.twice
      /\ search'.missed = search.missed
  BY <1>1, <1>3 DEF SearchType
<1>5. /\ search.rash = TRUE => search'.rash = TRUE
      /\ search.on = TRUE /\ e \notin search.seen => search'.rash = TRUE
  BY <1>1, <1>3 DEF SearchType
<1>6. SearchType'
  <2>1. search.rash \/ (search.on /\ e \notin search.seen) \in BOOLEAN
    BY <1>3 DEF SearchType
  <2> QED
    BY <1>1, <1>3 DEF SearchType
<1>7. ASSUME search.grown = FALSE, search.on = TRUE PROVE OnItsWay'
  <2>1. OnItsWay
    BY <1>7 DEF SearchInv
  <2>2. /\ \A x \in Rest' : x \in Rest /\ (x \in live' => x # e)
        /\ \A x \in Rest : x # e => x \in Rest'
    BY <1>2, <1>4 DEF Rest
  <2>3. search'.next # None /\ search'.next \notin live' => search'.rash = TRUE
    <3>1. CASE search.next = e
      <4>1. e \in Rest
        BY <1>1, <3>1 DEF Rest, IInv, TypeOK
      <4> QED
        BY <4>1, <2>1, <1>5, <1>7 DEF OnItsWay
    <3>2. CASE search.next # e
      BY <3>2, <2>1, <1>1, <1>4, <1>5 DEF OnItsWay
    <3> QED
      BY <3>1, <3>2
  <2>4. search'.seen \cup search'.due \cup search'.behind \subseteq live'
    BY <1>1, <1>4, <2>1 DEF OnItsWay
  <2>5. /\ \A x \in Rest' : x \notin search'.seen /\ (x \in live' => chain'[x] + 1 = search'.idx)
        /\ \A x \in search'.seen : chain'[x] < search'.idx
    BY <1>2, <1>4, <2>1, <2>2, <2>4 DEF OnItsWay
  <2>6. \A x \in search'.due \ search'.seen : x \in Rest' \/ chain'[x] >= search'.idx
    BY <1>2, <1>4, <2>1, <2>2, <2>4 DEF OnItsWay
  <2> QED
    BY <1>4, <2>1, <2>3, <2>4, <2>5, <2>6 DEF OnItsWay
<1> QED
  BY <1>1, <1>4, <1>5, <1>6, <1>7 DEF SearchInv

LEMMA FirstSearchInv ==
  ASSUME IInv, SearchInv, First, fault = "none" PROVE SearchInv'
<1>1. /\ search' = [NoSearch EXCEPT !.on = TRUE, !.due = live]
      /\ UNCHANGED <<live, chain, fault>>
  BY DEF First, tableVars
<1>2. live \subseteq Entries /\ chain \in [Entries -> Nat]
  BY DEF IInv, TypeOK
<1>3. /\ search'.on = TRUE /\ search'.idx = 0 /\ search'.next = None
      /\ search'.behind = {} /\ search'.seen = {} /\ search'.due = live
      /\ search'.grown = FALSE /\ search'.rash = FALSE
      /\ search'.twice = FALSE /\ search'.missed = FALSE
  BY <1>1 DEF NoSearch
<1>4. SearchType'
  BY <1>1, <1>2 DEF SearchType, NoSearch
<1>5. Rest' = {}
  BY <1>3 DEF Rest
<1>6. OnItsWay'
  BY <1>1, <1>2, <1>3, <1>5 DEF OnItsWay
<1> QED
  BY <1>1, <1>3, <1>4, <1>6 DEF SearchInv

\* What a return leaves behind.
LEMMA Returned ==
  ASSUME NEW e, NEW rest, NEW idx, Returns(e, rest, idx), SearchType,
         e \in Entries, rest \in SUBSET Entries, idx \in Nat
  PROVE  /\ SearchType'
         /\ search'.idx = idx /\ Rest' = rest /\ search'.next \notin search'.behind
         /\ search'.behind \subseteq rest
         /\ search'.next # None => search'.next \in rest
         /\ search'.seen = search.seen \cup {e} /\ search'.due = search.due
         /\ search'.on = search.on /\ search'.grown = search.grown
         /\ search'.rash = search.rash /\ search'.missed = search.missed
         /\ e \notin search.seen => search'.twice = FALSE
<1>1. PICK n \in IF rest = {} THEN {None} ELSE rest :
        search' = [search EXCEPT !.idx = idx, !.next = n, !.behind = rest \ {n},
                                 !.seen = @ \cup {e}, !.twice = e \in search.seen]
  BY DEF Returns
<1>2. /\ search'.idx = idx /\ search'.next = n /\ search'.behind = rest \ {n}
      /\ search'.seen = search.seen \cup {e} /\ search'.due = search.due
      /\ search'.on = search.on /\ search'.grown = search.grown
      /\ search'.rash = search.rash /\ search'.missed = search.missed
  BY <1>1 DEF SearchType
<1>6. e \notin search.seen => search'.twice = FALSE
  <2>1. search'.twice = (e \in search.seen)
    BY <1>1 DEF SearchType
  <2>2. e \notin search.seen => (e \in search.seen) = FALSE
    OBVIOUS
  <2> QED
    BY <2>1, <2>2, Zenon
<1>3. SearchType'
  <2>1. n \in Entries \cup {None} /\ (e \in search.seen) \in BOOLEAN
    OBVIOUS
  <2> QED
    BY <1>1, <2>1 DEF SearchType
<1>4. None \notin rest
  BY DEF Entries
<1>5. Rest' = rest
  BY <1>2, <1>4 DEF Rest
<1> QED
  BY <1>2, <1>3, <1>4, <1>5, <1>6

\* The next entry is the first of what is left of the bucket looked at last, or the
\* first of the next bucket that has any.
LEMMA NextEntrySearchInv ==
  ASSUME IInv, SearchInv, NextEntry, fault = "none" PROVE SearchInv'
<1>1. /\ search.on = TRUE /\ UNCHANGED <<live, chain, numBuckets>> /\ SearchType
      /\ live \subseteq Entries /\ chain \in [Entries -> Nat] /\ numBuckets \in Nat
  BY DEF NextEntry, tableVars, SearchInv, SearchType, IInv, TypeOK
<1>2. search.grown = FALSE => OnItsWay
  BY <1>1 DEF SearchInv
<1>3. \A x \in live : chain[x] \in Nat /\ chain[x] <= numBuckets - 1
  <2>1. ASSUME NEW x \in live PROVE chain[x] \in Nat /\ chain[x] <= numBuckets - 1
    <3>1. numBuckets \in 1..MaxBuckets /\ numBuckets \in Nat /\ key[x] \in Keys
          /\ chain[x] = Index(key[x], numBuckets)
      BY DEF IInv, TypeOK, ChainsSound
    <3>2. Index(key[x], numBuckets) \in 0..(numBuckets - 1)
      BY <3>1
    <3> QED
      BY <3>1, <3>2
  <2> QED
    BY <2>1
<1>4. CASE search.next # None /\ search.next \in live /\ fault' = fault
           /\ Returns(search.next, search.behind, search.idx)
  <2>1. search.next \in Entries /\ search.behind \in SUBSET Entries /\ search.idx \in Nat
    BY <1>1, <1>4 DEF SearchType
  <2>2. /\ SearchType'
        /\ search'.idx = search.idx /\ Rest' = search.behind
        /\ search'.next \notin search'.behind /\ search'.behind \subseteq search.behind
        /\ search'.next # None => search'.next \in search.behind
        /\ search'.seen = search.seen \cup {search.next} /\ search'.due = search.due
        /\ search'.on = search.on /\ search'.grown = search.grown
        /\ search'.rash = search.rash /\ search'.missed = search.missed
        /\ search.next \notin search.seen => search'.twice = FALSE
    BY <1>1, <1>4, <2>1, Returned
  <2>3. ASSUME OnItsWay PROVE OnItsWay'
    <3>1. Rest = {search.next} \cup search.behind /\ search.next \notin search.seen
      BY <1>4, <2>3 DEF Rest, OnItsWay
    <3>2. /\ search'.seen \cup search'.due \cup search'.behind \subseteq live
          /\ search'.twice = FALSE /\ search'.missed = FALSE
      BY <1>4, <2>2, <2>3, <3>1 DEF OnItsWay
    <3>3. \A x \in search.behind : x \in live /\ x \in Rest /\ x # search.next
      BY <2>3, <3>1 DEF OnItsWay
    <3>4. \A x \in Rest' : x \notin search'.seen /\ chain[x] + 1 = search'.idx
      BY <2>2, <2>3, <3>3 DEF OnItsWay
    <3>5. \A x \in search'.seen : chain[x] < search'.idx
      <4>1. chain[search.next] < search.idx
        BY <1>1, <1>3, <1>4, <2>1, <2>3, <3>1 DEF OnItsWay
      <4> QED
        BY <2>2, <2>3, <4>1 DEF OnItsWay
    <3>6. \A x \in search'.due \ search'.seen : x \in Rest' \/ chain[x] >= search'.idx
      BY <2>2, <2>3, <3>1 DEF OnItsWay
    <3>7. search'.next # None => search'.next \in live
      BY <2>2, <3>3
    <3> QED
      BY <1>1, <2>2, <3>2, <3>4, <3>5, <3>6, <3>7 DEF OnItsWay
  <2> QED
    BY <1>1, <1>2, <1>4, <2>2, <2>3 DEF SearchInv
<1>5. CASE search.next # None /\ search.next \notin live /\ search' = search
  <2>1. search.grown = FALSE => search.rash = TRUE
    BY <1>2, <1>5 DEF OnItsWay
  <2>2. search.grown = FALSE => OnItsWay'
    BY <1>1, <1>2, <1>5 DEF OnItsWay, Rest
  <2> QED
    BY <1>1, <1>5, <2>1, <2>2 DEF SearchInv, SearchType
<1>6. ASSUME search.next = None, Later # {}, fault' = fault,
             NEW i, i = CHOOSE j \in Later : \A m \in Later : j <= m,
             NEW e \in Chain(i), Returns(e, Chain(i) \ {e}, i + 1)
      PROVE  SearchInv'
  <2>1. i \in Later /\ \A m \in Later : i <= m
    <3>1. Later \in SUBSET Nat
      BY <1>1 DEF Later, FromIndex, SearchType
    <3>2. \E j \in Later : \A m \in Later : j <= m
      BY <3>1, <1>6, LeastOf
    <3> QED
      BY <3>2, <1>6
  <2>2. i \in Nat /\ search.idx \in Nat /\ search.idx <= i
    BY <1>1, <2>1 DEF Later, FromIndex, SearchType
  <2>3. \A x \in live : chain[x] >= search.idx => chain[x] = i \/ chain[x] >= i + 1
    <3>1. ASSUME NEW x \in live, chain[x] >= search.idx PROVE chain[x] >= i
      <4>1. x \in Chain(chain[x])
        BY DEF Chain
      <4>2. chain[x] \in search.idx..(numBuckets - 1)
        BY <1>1, <1>3, <2>2, <3>1
      <4>3. chain[x] \in Later
        BY <4>1, <4>2 DEF Later, FromIndex
      <4> QED
        BY <2>1, <4>3
    <3> QED
      BY <1>3, <2>2, <3>1
  <2>4. /\ e \in live /\ chain[e] = i /\ e \in Entries
        /\ Chain(i) \ {e} \in SUBSET Entries /\ i + 1 \in Nat
    BY <1>1, <1>6, <2>2 DEF Chain
  <2>5. /\ SearchType'
        /\ search'.idx = i + 1 /\ Rest' = Chain(i) \ {e}
        /\ search'.next \notin search'.behind /\ search'.behind \subseteq Chain(i) \ {e}
        /\ search'.next # None => search'.next \in Chain(i) \ {e}
        /\ search'.seen = search.seen \cup {e} /\ search'.due = search.due
        /\ search'.on = search.on /\ search'.grown = search.grown
        /\ search'.rash = search.rash /\ search'.missed = search.missed
        /\ e \notin search.seen => search'.twice = FALSE
    <3> DEFINE rest == Chain(i) \ {e}
               j == i + 1
    <3>1. Returns(e, rest, j) /\ rest \in SUBSET Entries /\ j \in Nat
      BY <1>6, <2>4
    <3> HIDE DEF rest, j
    <3>2. /\ SearchType'
          /\ search'.idx = j /\ Rest' = rest
          /\ search'.next \notin search'.behind /\ search'.behind \subseteq rest
          /\ search'.next # None => search'.next \in rest
          /\ search'.seen = search.seen \cup {e} /\ search'.due = search.due
          /\ search'.on = search.on /\ search'.grown = search.grown
          /\ search'.rash = search.rash /\ search'.missed = search.missed
          /\ e \notin search.seen => search'.twice = FALSE
      BY <1>1, <2>4, <3>1, Returned
    <3> QED
      BY <3>2 DEF rest, j
  <2>6. ASSUME OnItsWay PROVE OnItsWay'
    <3>1. \A x \in Chain(i) : x \in live /\ chain[x] = i /\ x \notin search.seen
      BY <1>1, <2>2, <2>6 DEF Chain, OnItsWay
    <3>2. /\ search'.seen \cup search'.due \cup search'.behind \subseteq live
          /\ search'.twice = FALSE /\ search'.missed = FALSE
      BY <2>4, <2>5, <2>6, <3>1, <1>6 DEF OnItsWay
    <3>3. \A x \in Rest' : x \notin search'.seen /\ chain[x] + 1 = search'.idx
      BY <2>5, <3>1
    <3>4. \A x \in search'.seen : chain[x] < search'.idx
      <4>1. \A x \in search.seen : chain[x] < search.idx /\ chain[x] \in Nat
        BY <1>1, <2>6, <1>3 DEF OnItsWay
      <4>2. \A x \in search.seen : chain[x] < i + 1
        BY <2>2, <4>1
      <4> QED
        BY <2>2, <2>4, <2>5, <4>2
    <3>5. \A x \in search'.due \ search'.seen : x \in Rest' \/ chain[x] >= search'.idx
      <4>1. \A x \in search.due \ search.seen : x \in live /\ chain[x] >= search.idx
        BY <1>6, <2>6 DEF OnItsWay, Rest
      <4>2. \A x \in search.due \ search.seen : x \in Chain(i) \/ chain[x] >= i + 1
        BY <2>3, <4>1 DEF Chain
      <4> QED
        BY <2>5, <4>2
    <3>6. search'.next # None => search'.next \in live
      BY <2>5, <3>1
    <3> QED
      BY <1>1, <2>5, <3>2, <3>3, <3>4, <3>5, <3>6 DEF OnItsWay
  <2> QED
    BY <1>1, <1>2, <1>6, <2>5, <2>6 DEF SearchInv
<1>7. CASE /\ search.next = None /\ Later = {} /\ fault' = fault
           /\ search' = [NoSearch EXCEPT !.grown = search.grown,
                                         !.missed = ~(search.due \subseteq search.seen)]
  <2>1. /\ search'.on = FALSE /\ search'.grown = search.grown
        /\ search'.twice = FALSE
        /\ search.due \subseteq search.seen => search'.missed = FALSE
    BY <1>7 DEF NoSearch
  <2>2. SearchType'
    <3>1. search.grown \in BOOLEAN /\ (~(search.due \subseteq search.seen)) \in BOOLEAN
      BY <1>1 DEF SearchType
    <3> QED
      BY <1>7, <3>1 DEF SearchType, NoSearch
  <2>3. ASSUME OnItsWay PROVE search.due \subseteq search.seen
    <3> SUFFICES ASSUME NEW x \in search.due, x \notin search.seen PROVE FALSE
      OBVIOUS
    <3>1. x \in live /\ chain[x] >= search.idx
      BY <1>7, <2>3 DEF OnItsWay, Rest
    <3>2. chain[x] \in search.idx..(numBuckets - 1)
      BY <1>1, <1>3, <3>1 DEF SearchType
    <3>3. x \in Chain(chain[x])
      BY <3>1 DEF Chain
    <3> QED
      BY <1>7, <3>2, <3>3 DEF Later, FromIndex
  <2> QED
    BY <1>2, <1>7, <2>1, <2>2, <2>3 DEF SearchInv
<1> QED
  <2>1. CASE \E i : i = (CHOOSE j \in Later : \A m \in Later : j <= m)
                  /\ \E e \in Chain(i) : Returns(e, Chain(i) \ {e}, i + 1)
    BY <1>6, <2>1, <1>4, <1>5, <1>7 DEF NextEntry
  <2> QED
    BY <2>1, <1>4, <1>5, <1>6, <1>7 DEF NextEntry

\* A search under which the table is not rebuilt returns every entry that stays, and
\* none twice, and follows no pointer to a freed entry if its caller deleted only what
\* it got, in whichever buckets the hash function puts them.
THEOREM SearchesAreSound == Spec => []SearchSound
<1>1. ASSUME IInv, SearchInv, [Next]_vars PROVE SearchInv'
  <2>1. ASSUME NEW k \in Keys, Get(k) \/ Has(k) PROVE SearchInv'
    BY <1>1, <2>1, SearchInvFrame DEF Get, Has, tableVars
  <2>2. CASE Size \/ UNCHANGED vars
    BY <1>1, <2>2, SearchInvFrame DEF Size, tableVars, vars
  <2> QED
    BY <1>1, <2>1, <2>2, PutSearchInv, DeleteSearchInv, FirstSearchInv,
       NextEntrySearchInv DEF Next
<1>2. SearchInv => SearchSound
  BY DEF SearchInv, SearchType, OnItsWay, SearchSound
<1> QED
  BY InitIInv, NextIInv, InitSearchInv, <1>1, <1>2, PTL DEF Spec

=============================================================================
