----------------------------- MODULE SqliteDb_proofs -----------------------------
(***************************************************************************)
(* Proofs about the statements a database keeps and about transactions,    *)
(* for every set of texts, limits and sizes, any number of rows and calls  *)
(* and any depth of queries in queries.                                    *)
(***************************************************************************)
EXTENDS SqliteDb, SequenceTheorems, FiniteSetTheorems, TLAPS

USE SqliteAssumption

-----------------------------------------------------------------------------
(* Types of the cache. *)

StmtRec == [text : Suffixes, row : 0..Rows]
StmtFns == UNION {[D -> StmtRec] : D \in SUBSET Ids}
EntryFns == UNION {[D -> Ids] : D \in SUBSET Suffixes}

LEMMA StmtFnsIs ==
  ASSUME NEW f
  PROVE  f \in StmtFns <=> DOMAIN f \subseteq Ids /\ f \in [DOMAIN f -> StmtRec]
<1>1. ASSUME f \in StmtFns PROVE DOMAIN f \subseteq Ids /\ f \in [DOMAIN f -> StmtRec]
  <2>1. PICK D \in SUBSET Ids : f \in [D -> StmtRec]
    BY <1>1 DEF StmtFns
  <2> QED
    BY <2>1
<1>2. ASSUME DOMAIN f \subseteq Ids, f \in [DOMAIN f -> StmtRec] PROVE f \in StmtFns
  BY <1>2 DEF StmtFns
<1> QED
  BY <1>1, <1>2

LEMMA EntryFnsIs ==
  ASSUME NEW f
  PROVE  f \in EntryFns <=> DOMAIN f \subseteq Suffixes /\ f \in [DOMAIN f -> Ids]
<1>1. ASSUME f \in EntryFns PROVE DOMAIN f \subseteq Suffixes /\ f \in [DOMAIN f -> Ids]
  <2>1. PICK D \in SUBSET Suffixes : f \in [D -> Ids]
    BY <1>1 DEF EntryFns
  <2> QED
    BY <2>1
<1>2. ASSUME DOMAIN f \subseteq Suffixes, f \in [DOMAIN f -> Ids] PROVE f \in EntryFns
  BY <1>2 DEF EntryFns
<1> QED
  BY <1>1, <1>2

LEMMA CacheIs == Cache = [stmts : StmtFns, entries : EntryFns, list : Seq(Ids), max : Int]
  BY DEF Cache, StmtFns, EntryFns, StmtRec

LEMMA CacheFacts ==
  ASSUME NEW c \in Cache
  PROVE  /\ Live(c) \subseteq Ids /\ c.stmts \in [Live(c) -> StmtRec]
         /\ DOMAIN c.entries \subseteq Suffixes /\ c.entries \in [DOMAIN c.entries -> Ids]
         /\ c.list \in Seq(Ids) /\ c.max \in Int /\ Len(c.list) \in Nat
         /\ c.stmts \in StmtFns /\ c.entries \in EntryFns
<1>1. c.stmts \in StmtFns /\ c.entries \in EntryFns /\ c.list \in Seq(Ids) /\ c.max \in Int
  BY CacheIs
<1>2. Live(c) \subseteq Ids /\ c.stmts \in [Live(c) -> StmtRec]
  BY <1>1, StmtFnsIs DEF Live
<1>3. DOMAIN c.entries \subseteq Suffixes /\ c.entries \in [DOMAIN c.entries -> Ids]
  BY <1>1, EntryFnsIs
<1> QED
  BY <1>1, <1>2, <1>3

LEMMA ListedIn ==
  ASSUME NEW c \in Cache
  PROVE  Listed(c) \subseteq Ids
  BY CacheFacts DEF Listed

LEMMA WithoutStmts ==
  ASSUME NEW f \in StmtFns, NEW S
  PROVE  /\ Without(f, S) \in StmtFns /\ DOMAIN Without(f, S) = DOMAIN f \ S
         /\ \A x \in DOMAIN f \ S : Without(f, S)[x] = f[x]
<1>1. DOMAIN f \subseteq Ids /\ f \in [DOMAIN f -> StmtRec]
  BY StmtFnsIs
<1>2. /\ DOMAIN Without(f, S) = DOMAIN f \ S
      /\ \A x \in DOMAIN f \ S : Without(f, S)[x] = f[x]
      /\ Without(f, S) \in [DOMAIN f \ S -> StmtRec]
  BY <1>1 DEF Without
<1> QED
  BY <1>1, <1>2, StmtFnsIs

LEMMA WithoutEntries ==
  ASSUME NEW f \in EntryFns, NEW S
  PROVE  /\ Without(f, S) \in EntryFns /\ DOMAIN Without(f, S) = DOMAIN f \ S
         /\ \A x \in DOMAIN f \ S : Without(f, S)[x] = f[x]
<1>1. DOMAIN f \subseteq Suffixes /\ f \in [DOMAIN f -> Ids]
  BY EntryFnsIs
<1>2. /\ DOMAIN Without(f, S) = DOMAIN f \ S
      /\ \A x \in DOMAIN f \ S : Without(f, S)[x] = f[x]
      /\ Without(f, S) \in [DOMAIN f \ S -> Ids]
  BY <1>1 DEF Without
<1> QED
  BY <1>1, <1>2, EntryFnsIs

-----------------------------------------------------------------------------
(* What makes a cache sound while the statements H are in use. *)

Distinct(s) == \A i, j \in 1..Len(s) : i # j => s[i] # s[j]

Sound(c, H) ==
  /\ Distinct(c.list)
  /\ \A id \in Listed(c) : id \notin H
  /\ \A id \in Listed(c) : id \in Live(c)
  /\ \A id \in H : id \in Live(c)
  /\ \A id \in Listed(c) : c.stmts[id].row = 0
  /\ \A t \in DOMAIN c.entries : c.entries[t] \in Live(c) => c.stmts[c.entries[t]].text = t

\* The hash finds every statement; it finds nothing else; every statement is used or listed.
AllFound(c) == \A id \in Live(c) : c.stmts[id].text \in DOMAIN c.entries /\ c.entries[c.stmts[id].text] = id
NoneFreed(c) == \A t \in DOMAIN c.entries : c.entries[t] \in Live(c)
NoneLeft(c, H) == \A id \in Live(c) : id \in Listed(c) \/ id \in H

\* From c with H in use to d with G in use, all of it is kept.
Keeps(c, H, d, G) ==
  /\ d \in Cache
  /\ Sound(d, G)
  /\ AllFound(c) => AllFound(d)
  /\ NoneFreed(c) => NoneFreed(d)
  /\ NoneLeft(c, H) => NoneLeft(d, G)

\* The fields of a cache from which statements S were taken.
LEMMA FreeIs ==
  ASSUME NEW c \in Cache, NEW S
  PROVE  /\ Free(c, S) \in Cache /\ Live(Free(c, S)) = Live(c) \ S
         /\ Free(c, S).list = c.list /\ Free(c, S).max = c.max
         /\ \A id \in Live(c) \ S : Free(c, S).stmts[id] = c.stmts[id]
         /\ DOMAIN Free(c, S).entries = {t \in DOMAIN c.entries : c.entries[t] \notin S}
         /\ \A t \in DOMAIN Free(c, S).entries : Free(c, S).entries[t] = c.entries[t]
<1> DEFINE E == {t \in DOMAIN c.entries : c.entries[t] \in S}
           st == Without(c.stmts, S)
           en == Without(c.entries, E)
<1>1. c.stmts \in StmtFns /\ c.entries \in EntryFns
  BY CacheFacts
<1>2. st \in StmtFns /\ DOMAIN st = DOMAIN c.stmts \ S /\ \A x \in DOMAIN c.stmts \ S : st[x] = c.stmts[x]
  BY <1>1, WithoutStmts
<1>3. en \in EntryFns /\ DOMAIN en = DOMAIN c.entries \ E /\ \A x \in DOMAIN c.entries \ E : en[x] = c.entries[x]
  BY <1>1, WithoutEntries
<1>4. Free(c, S) = [c EXCEPT !.stmts = st, !.entries = en]
  BY DEF Free
<1> HIDE DEF st, en
<1>5. /\ Free(c, S) \in Cache /\ Free(c, S).stmts = st /\ Free(c, S).entries = en
      /\ Free(c, S).list = c.list /\ Free(c, S).max = c.max
  BY <1>2, <1>3, <1>4, CacheIs
<1> QED
  BY <1>2, <1>3, <1>5 DEF Live

LEMMA ListIs ==
  ASSUME NEW c \in Cache, NEW l \in Seq(Ids)
  PROVE  /\ [c EXCEPT !.list = l] \in Cache /\ [c EXCEPT !.list = l].list = l
         /\ [c EXCEPT !.list = l].stmts = c.stmts /\ [c EXCEPT !.list = l].entries = c.entries
         /\ [c EXCEPT !.list = l].max = c.max
  BY CacheIs

\* A statement in use is freed.
LEMMA FreeKeeps ==
  ASSUME NEW c \in Cache, NEW H, Sound(c, H), NEW id \in H
  PROVE  Keeps(c, H, Free(c, {id}), H \ {id})
<1> DEFINE d == Free(c, {id})
<1>1. /\ d \in Cache /\ Live(d) = Live(c) \ {id} /\ d.list = c.list
      /\ \A x \in Live(c) \ {id} : d.stmts[x] = c.stmts[x]
      /\ DOMAIN d.entries = {t \in DOMAIN c.entries : c.entries[t] \notin {id}}
      /\ \A t \in DOMAIN d.entries : d.entries[t] = c.entries[t]
  BY FreeIs
<1> HIDE DEF d
<1>2. Listed(d) = Listed(c)
  BY <1>1 DEF Listed
<1>3. Sound(d, H \ {id})
  BY <1>1, <1>2 DEF Sound
<1>4. AllFound(c) => AllFound(d)
  BY <1>1 DEF AllFound
<1>5. NoneFreed(c) => NoneFreed(d)
  BY <1>1 DEF NoneFreed
<1>6. NoneLeft(c, H) => NoneLeft(d, H \ {id})
  BY <1>1, <1>2 DEF NoneLeft
<1> QED
  BY <1>1, <1>3, <1>4, <1>5, <1>6 DEF Keeps, d

\* The surplus of the list goes.
LEMMA TrimKeeps ==
  ASSUME NEW c \in Cache, NEW H, Sound(c, H), c.max > 0
  PROVE  Keeps(c, H, Trim(c), H)
<1> DEFINE S == Surplus(c)
           n == Len(c.list)
           m == IF n > c.max THEN c.max ELSE n
           e == Free(c, S)
           l == SubSeq(c.list, 1, m)
           d == [e EXCEPT !.list = l]
<1>1. c.list \in Seq(Ids) /\ c.max \in Int /\ n \in Nat /\ (\A i \in 1..n : c.list[i] \in Ids)
  BY CacheFacts
<1>2. m \in 0..n /\ (\A j \in 1..n : j > c.max <=> j > m)
  BY <1>1
<1>3. /\ e \in Cache /\ Live(e) = Live(c) \ S /\ e.list = c.list
      /\ \A x \in Live(c) \ S : e.stmts[x] = c.stmts[x]
      /\ DOMAIN e.entries = {t \in DOMAIN c.entries : c.entries[t] \notin S}
      /\ \A t \in DOMAIN e.entries : e.entries[t] = c.entries[t]
  BY FreeIs
<1>4. Trim(c) = [e EXCEPT !.list = SubSeq(@, 1, IF Len(@) > c.max THEN c.max ELSE Len(@))]
  BY DEF Trim
<1>5. Trim(c) = d
  BY <1>3, <1>4
<1>6. S = {c.list[j] : j \in {k \in 1..n : k > m}}
  BY <1>2 DEF Surplus
<1> HIDE DEF m, e, S
<1>7. l \in Seq(Ids) /\ Len(l) = m /\ \A i \in 1..m : l[i] = c.list[i]
  BY <1>1, <1>2, SubSeqProperties
<1> HIDE DEF l
<1>8. /\ d \in Cache /\ d.list = l /\ Live(d) = Live(c) \ S /\ d.stmts = e.stmts /\ d.entries = e.entries
  BY <1>3, <1>7, ListIs DEF Live
<1> HIDE DEF d
<1>9. Listed(d) = {c.list[i] : i \in 1..m}
  BY <1>7, <1>8 DEF Listed
<1>10. Distinct(c.list)
  BY DEF Sound
<1>11. Listed(d) = Listed(c) \ S
  <2>1. \A i \in 1..m : c.list[i] \in Listed(c)
    BY <1>1, <1>2 DEF Listed
  <2>2. \A i \in 1..m, k \in 1..n : k > m => c.list[i] # c.list[k]
    BY <1>1, <1>2, <1>10 DEF Distinct
  <2>3. \A i \in 1..m : c.list[i] \notin S
    BY <1>6, <2>2
  <2>4. \A i \in 1..n : c.list[i] \notin S => i \in 1..m
    BY <1>2, <1>6
  <2>5. ASSUME NEW x \in Listed(c) \ S PROVE x \in Listed(d)
    <3>1. PICK i \in 1..n : x = c.list[i]
      BY <2>5 DEF Listed
    <3>2. i \in 1..m
      BY <2>4, <2>5, <3>1
    <3> QED
      BY <1>9, <3>1, <3>2
  <2>6. ASSUME NEW x \in Listed(d) PROVE x \in Listed(c) \ S
    <3>1. PICK i \in 1..m : x = c.list[i]
      BY <1>9, <2>6
    <3> QED
      BY <2>1, <2>3, <3>1
  <2> QED
    BY <2>5, <2>6
<1>12. Distinct(d.list)
  BY <1>1, <1>2, <1>7, <1>8, <1>10 DEF Distinct
<1>13. S \subseteq Listed(c)
  BY <1>6 DEF Listed
<1>14. \A x \in H : x \notin S
  BY <1>13 DEF Sound
<1>15. Sound(d, H)
  BY <1>3, <1>8, <1>11, <1>12, <1>14 DEF Sound
<1>16. AllFound(c) => AllFound(d)
  BY <1>3, <1>8 DEF AllFound
<1>17. NoneFreed(c) => NoneFreed(d)
  BY <1>3, <1>8 DEF NoneFreed
<1>18. NoneLeft(c, H) => NoneLeft(d, H)
  BY <1>8, <1>11 DEF NoneLeft
<1> QED
  BY <1>5, <1>8, <1>15, <1>16, <1>17, <1>18 DEF Keeps

\* A statement in use that is back at its first row is put on the list.
LEMMA PutKeeps ==
  ASSUME NEW c \in Cache, NEW H, Sound(c, H), NEW id \in H, c.stmts[id].row = 0
  PROVE  Keeps(c, H, [c EXCEPT !.list = <<id>> \o @], H \ {id})
<1> DEFINE l == <<id>> \o c.list
           n == Len(c.list)
           d == [c EXCEPT !.list = l]
<1>1. id \in Ids /\ c.list \in Seq(Ids) /\ n \in Nat
  BY CacheFacts DEF Sound
<1>2. l \in Seq(Ids) /\ Len(l) = n + 1 /\ l[1] = id /\ \A i \in 1..n : l[i + 1] = c.list[i]
  BY <1>1
<1>3. \A i \in 2..(n + 1) : l[i] = c.list[i - 1]
  BY <1>1, <1>2
<1> HIDE DEF l
<1>4. d \in Cache /\ d.list = l /\ d.stmts = c.stmts /\ d.entries = c.entries /\ Live(d) = Live(c)
  BY <1>2, ListIs DEF Live
<1>5. d = [c EXCEPT !.list = <<id>> \o @]
  BY DEF l
<1> HIDE DEF d
<1>6. Listed(d) = Listed(c) \cup {id}
  <2>1. \A i \in 1..(n + 1) : l[i] \in Listed(c) \cup {id}
    <3>1. TAKE i \in 1..(n + 1)
    <3>2. i = 1 \/ (i \in 2..(n + 1) /\ i - 1 \in 1..n)
      BY <1>1
    <3> QED
      BY <1>2, <1>3, <3>2 DEF Listed
  <2>2. id \in Listed(d)
    BY <1>1, <1>2, <1>4 DEF Listed
  <2>3. \A i \in 1..n : c.list[i] \in Listed(d)
    <3>1. TAKE i \in 1..n
    <3>2. i + 1 \in 1..(n + 1)
      BY <1>1
    <3> QED
      BY <1>2, <1>4, <3>2 DEF Listed
  <2>4. ASSUME NEW x \in Listed(d) PROVE x \in Listed(c) \cup {id}
    BY <1>2, <1>4, <2>1, <2>4 DEF Listed
  <2>5. ASSUME NEW x \in Listed(c) PROVE x \in Listed(d)
    BY <2>3, <2>5 DEF Listed
  <2> QED
    BY <2>2, <2>4, <2>5
<1>7. Distinct(d.list)
  <2>1. SUFFICES ASSUME NEW i \in 1..(n + 1), NEW j \in 1..(n + 1), i # j PROVE l[i] # l[j]
    BY <1>2, <1>4 DEF Distinct
  <2>2. \A k \in 2..(n + 1) : k - 1 \in 1..n /\ l[k] = c.list[k - 1] /\ l[k] \in Listed(c)
    BY <1>1, <1>3 DEF Listed
  <2>3. id \notin Listed(c) /\ Distinct(c.list)
    BY DEF Sound
  <2>4. CASE i = 1
    BY <1>1, <1>2, <2>1, <2>2, <2>3, <2>4
  <2>5. CASE j = 1
    BY <1>1, <1>2, <2>1, <2>2, <2>3, <2>5
  <2>6. CASE i \in 2..(n + 1) /\ j \in 2..(n + 1)
    <3>1. i - 1 # j - 1 /\ i - 1 \in 1..n /\ j - 1 \in 1..n
      BY <1>1, <2>1, <2>6
    <3>2. c.list[i - 1] # c.list[j - 1]
      BY <2>3, <3>1 DEF Distinct
    <3> QED
      BY <2>2, <2>6, <3>2
  <2> QED
    BY <1>1, <2>4, <2>5, <2>6
<1>8. Sound(d, H \ {id})
  BY <1>4, <1>6, <1>7 DEF Sound
<1>9. NoneLeft(c, H) => NoneLeft(d, H \ {id})
  BY <1>4, <1>6 DEF NoneLeft
<1>10. (AllFound(c) => AllFound(d)) /\ (NoneFreed(c) => NoneFreed(d))
  BY <1>4 DEF AllFound, NoneFreed
<1> QED
  BY <1>4, <1>5, <1>8, <1>9, <1>10 DEF Keeps

LEMMA KeepsTransitive ==
  ASSUME NEW c, NEW H, NEW d, NEW G, NEW e, NEW F, Keeps(c, H, d, G), Keeps(d, G, e, F)
  PROVE  Keeps(c, H, e, F)
  BY DEF Keeps

\* dbReleaseStmt of a statement in use that is back at its first row.
LEMMA ReleaseKeeps ==
  ASSUME NEW c \in Cache, NEW H, Sound(c, H), NEW id \in H, c.stmts[id].row = 0, NEW discard
  PROVE  Keeps(c, H, ReleaseStmt(c, id, discard), H \ {id})
<1> DEFINE d == [c EXCEPT !.list = <<id>> \o @]
<1>1. CASE c.max <= 0 \/ discard
  BY <1>1, FreeKeeps DEF ReleaseStmt
<1>2. CASE ~(c.max <= 0 \/ discard)
  <2>1. Keeps(c, H, d, H \ {id})
    BY PutKeeps
  <2>2. d.max = c.max /\ c.max \in Int
    BY CacheIs, CacheFacts
  <2>3. ReleaseStmt(c, id, discard) = Trim(d)
    BY <1>2 DEF ReleaseStmt
  <2> HIDE DEF d
  <2>4. d \in Cache /\ Sound(d, H \ {id}) /\ d.max > 0
    BY <1>2, <2>1, <2>2 DEF Keeps
  <2>5. Keeps(d, H \ {id}, Trim(d), H \ {id})
    BY <2>4, TrimKeeps
  <2> QED
    BY <2>1, <2>3, <2>5, KeepsTransitive
<1> QED
  BY <1>1, <1>2

\* A statement in use moves to another row.
MovedTo(c, id, r) == [c EXCEPT !.stmts[id].row = r]

LEMMA RowKeeps ==
  ASSUME NEW c \in Cache, NEW H, Sound(c, H), NEW id \in H, NEW r \in 0..Rows
  PROVE  /\ Keeps(c, H, MovedTo(c, id, r), H)
         /\ MovedTo(c, id, r).stmts[id].row = r
<1> DEFINE st == [c.stmts EXCEPT ![id].row = r]
           d == MovedTo(c, id, r)
<1>1. c.stmts \in StmtFns /\ Live(c) \subseteq Ids /\ c.stmts \in [Live(c) -> StmtRec] /\ DOMAIN c.stmts = Live(c)
  BY CacheFacts DEF Live
<1>2. id \in Live(c)
  BY DEF Sound
<1>3. /\ DOMAIN st = Live(c) /\ st[id].row = r /\ st[id].text = c.stmts[id].text
      /\ \A x \in Live(c) \ {id} : st[x] = c.stmts[x]
      /\ st \in [Live(c) -> StmtRec]
  BY <1>1, <1>2 DEF StmtRec
<1>4. st \in StmtFns
  BY <1>1, <1>3, StmtFnsIs
<1>5. d = [c EXCEPT !.stmts = st]
  BY CacheIs DEF MovedTo
<1> HIDE DEF st
<1>6. d \in Cache /\ d.stmts = st /\ d.entries = c.entries /\ d.list = c.list /\ Live(d) = Live(c)
  BY <1>3, <1>4, <1>5, CacheIs DEF Live
<1> HIDE DEF d
<1>7. Listed(d) = Listed(c) /\ id \notin Listed(c)
  BY <1>6 DEF Listed, Sound
<1>8. \A x \in Live(c) : st[x].text = c.stmts[x].text
  BY <1>3
<1>9. Sound(d, H)
  BY <1>3, <1>6, <1>7, <1>8 DEF Sound
<1>10. /\ AllFound(c) => AllFound(d)
       /\ NoneFreed(c) => NoneFreed(d)
       /\ NoneLeft(c, H) => NoneLeft(d, H)
  BY <1>6, <1>7, <1>8 DEF AllFound, NoneFreed, NoneLeft
<1> QED
  BY <1>3, <1>6, <1>9, <1>10 DEF Keeps, d

\* It is reset and released.
LEMMA ResetReleaseKeeps ==
  ASSUME NEW c \in Cache, NEW H, Sound(c, H), NEW id \in H, NEW discard
  PROVE  Keeps(c, H, ReleaseStmt(Reset(c, id), id, discard), H \ {id})
<1> DEFINE d == Reset(c, id)
<1>1. 0 \in 0..Rows
  OBVIOUS
<1>2. Keeps(c, H, d, H) /\ d.stmts[id].row = 0
  <2>1. d = MovedTo(c, id, 0)
    BY DEF Reset, MovedTo
  <2>2. Keeps(c, H, MovedTo(c, id, 0), H) /\ MovedTo(c, id, 0).stmts[id].row = 0
    BY <1>1, RowKeeps
  <2> QED
    BY <2>1, <2>2
<1> HIDE DEF d
<1>3. Keeps(d, H, ReleaseStmt(d, id, discard), H \ {id})
  BY <1>2, ReleaseKeeps DEF Keeps
<1> QED
  BY <1>2, <1>3, KeepsTransitive DEF d

\* A statement of the list comes into use.
LEMMA UnlinkKeeps ==
  ASSUME NEW c \in Cache, NEW H, Sound(c, H), NEW id \in Listed(c)
  PROVE  /\ Keeps(c, H, Unlink(c, id), H \cup {id})
         /\ Unlink(c, id).stmts = c.stmts
<1> DEFINE n == Len(c.list)
           i == CHOOSE j \in 1..n : c.list[j] = id
           a == SubSeq(c.list, 1, i - 1)
           b == SubSeq(c.list, i + 1, n)
           l == a \o b
           d == [c EXCEPT !.list = l]
<1>1. c.list \in Seq(Ids) /\ n \in Nat /\ (\A j \in 1..n : c.list[j] \in Ids)
  BY CacheFacts
<1>2. i \in 1..n /\ c.list[i] = id
  BY DEF Listed
<1>3. Unlink(c, id) = d
  BY DEF Unlink
<1> HIDE DEF i
<1>4. a \in Seq(Ids) /\ Len(a) = i - 1 /\ \A k \in 1..(i - 1) : a[k] = c.list[k]
  BY <1>1, <1>2, SubSeqProperties
<1>5. b \in Seq(Ids) /\ Len(b) = n - i /\ \A k \in 1..(n - i) : b[k] = c.list[i + k]
  <2>1. i + 1 \in 1..(n + 1) /\ n - (i + 1) + 1 = n - i /\ \A k \in 1..(n - i) : (i + 1) + k - 1 = i + k
    BY <1>1, <1>2
  <2> QED
    BY <1>1, <1>2, <2>1, SubSeqProperties
<1> HIDE DEF a, b
<1>6. l \in Seq(Ids) /\ Len(l) = n - 1
  <2>1. l \in Seq(Ids) /\ Len(l) = Len(a) + Len(b)
    BY <1>4, <1>5, ConcatProperties
  <2> QED
    BY <1>1, <1>2, <1>4, <1>5, <2>1
<1>7. \A k \in 1..(n - 1) : l[k] = c.list[IF k < i THEN k ELSE k + 1]
  <2>1. ASSUME NEW k \in 1..(n - 1) PROVE l[k] = c.list[IF k < i THEN k ELSE k + 1]
    <3>4. Len(a) + Len(b) = n - 1
      BY <1>1, <1>2, <1>4, <1>5
    <3>5. k \in 1..(Len(a) + Len(b))
      BY <3>4
    <3>1. l[k] = IF k <= Len(a) THEN a[k] ELSE b[k - Len(a)]
      BY <1>4, <1>5, <3>5, ConcatProperties
    <3>2. CASE k < i
      <4>1. k <= Len(a) /\ k \in 1..(i - 1)
        BY <1>1, <1>2, <1>4, <3>2
      <4> QED
        BY <1>4, <3>1, <3>2, <4>1
    <3>3. CASE ~(k < i)
      <4>1. ~(k <= Len(a)) /\ k - Len(a) \in 1..(n - i) /\ i + (k - Len(a)) = k + 1
        BY <1>1, <1>2, <1>4, <3>3
      <4> QED
        BY <1>5, <3>1, <3>3, <4>1
    <3> QED
      BY <3>2, <3>3
  <2> QED
    BY <2>1
<1> HIDE DEF l
<1>8. d \in Cache /\ d.list = l /\ d.stmts = c.stmts /\ d.entries = c.entries /\ Live(d) = Live(c)
  BY <1>6, ListIs DEF Live
<1> HIDE DEF d
<1>9. Distinct(c.list)
  BY DEF Sound
<1>10. Distinct(d.list)
  <2>1. SUFFICES ASSUME NEW k \in 1..(n - 1), NEW j \in 1..(n - 1), k # j PROVE l[k] # l[j]
    BY <1>6, <1>8 DEF Distinct
  <2> DEFINE kk == IF k < i THEN k ELSE k + 1
             jj == IF j < i THEN j ELSE j + 1
  <2>2. kk \in 1..n /\ jj \in 1..n /\ kk # jj
    BY <1>1, <1>2, <2>1
  <2>3. l[k] = c.list[kk] /\ l[j] = c.list[jj]
    BY <1>7
  <2> HIDE DEF kk, jj
  <2> QED
    BY <1>9, <2>2, <2>3 DEF Distinct
<1>11. Listed(d) = Listed(c) \ {id}
  <2>1. ASSUME NEW k \in 1..(n - 1) PROVE l[k] \in Listed(c) \ {id}
    <3> DEFINE kk == IF k < i THEN k ELSE k + 1
    <3>1. kk \in 1..n /\ kk # i
      BY <1>1, <1>2
    <3>2. l[k] = c.list[kk]
      BY <1>7
    <3> HIDE DEF kk
    <3> QED
      BY <1>2, <1>9, <3>1, <3>2 DEF Listed, Distinct
  <2>2. ASSUME NEW x \in Listed(c) \ {id} PROVE x \in Listed(d)
    <3>1. PICK j \in 1..n : x = c.list[j]
      BY <2>2 DEF Listed
    <3>2. j # i
      BY <1>2, <2>2, <3>1
    <3>3. CASE j < i
      <4>1. j \in 1..(n - 1) /\ l[j] = c.list[j]
        BY <1>1, <1>2, <1>7, <3>3
      <4> QED
        BY <1>6, <1>8, <3>1, <4>1 DEF Listed
    <3>4. CASE j > i
      <4>1. j - 1 \in 1..(n - 1) /\ l[j - 1] = c.list[j]
        BY <1>1, <1>2, <1>7, <3>4
      <4> QED
        BY <1>6, <1>8, <3>1, <4>1 DEF Listed
    <3> QED
      BY <1>2, <3>2, <3>3, <3>4
  <2>3. ASSUME NEW x \in Listed(d) PROVE x \in Listed(c) \ {id}
    BY <1>6, <1>8, <2>1, <2>3 DEF Listed
  <2> QED
    BY <2>2, <2>3
<1>12. id \in Live(c)
  BY DEF Sound
<1>13. Sound(d, H \cup {id})
  BY <1>8, <1>10, <1>11, <1>12 DEF Sound
<1>14. NoneLeft(c, H) => NoneLeft(d, H \cup {id})
  BY <1>8, <1>11 DEF NoneLeft
<1>15. (AllFound(c) => AllFound(d)) /\ (NoneFreed(c) => NoneFreed(d))
  BY <1>8 DEF AllFound, NoneFreed
<1> QED
  BY <1>3, <1>8, <1>13, <1>14, <1>15 DEF Keeps

\* A new statement comes into use.
LEMMA PrepareKeeps ==
  ASSUME NEW c \in Cache, NEW H, Sound(c, H), NEW id \in Unused(c),
         NEW t \in Suffixes, ~Known(c, t)
  PROVE  /\ Keeps(c, H, PrepareNew(c, t, id), H \cup {id})
         /\ PrepareNew(c, t, id).stmts[id].row = 0
<1> DEFINE st == [x \in Live(c) \cup {id} |-> IF x = id THEN [text |-> t, row |-> 0] ELSE c.stmts[x]]
           en == [x \in DOMAIN c.entries \cup {t} |-> IF x = t THEN id ELSE c.entries[x]]
           d == [c EXCEPT !.stmts = st, !.entries = en]
<1>1. id \in Ids /\ id \notin Live(c) /\ t \notin DOMAIN c.entries /\ \A x \in DOMAIN c.entries : c.entries[x] # id
  BY DEF Unused, Known
<1>2. /\ Live(c) \subseteq Ids /\ c.stmts \in [Live(c) -> StmtRec]
      /\ DOMAIN c.entries \subseteq Suffixes /\ c.entries \in [DOMAIN c.entries -> Ids]
  BY CacheFacts
<1>3. [text |-> t, row |-> 0] \in StmtRec
  BY DEF StmtRec
<1>4. /\ DOMAIN st = Live(c) \cup {id} /\ st \in [Live(c) \cup {id} -> StmtRec]
      /\ st[id].text = t /\ st[id].row = 0 /\ \A x \in Live(c) : st[x] = c.stmts[x]
  BY <1>1, <1>2, <1>3
<1>5. /\ DOMAIN en = DOMAIN c.entries \cup {t} /\ en \in [DOMAIN c.entries \cup {t} -> Ids]
      /\ en[t] = id /\ \A x \in DOMAIN c.entries : en[x] = c.entries[x]
  BY <1>1, <1>2
<1>6. st \in StmtFns /\ en \in EntryFns
  <2>1. st \in StmtFns
    BY <1>1, <1>2, <1>4, StmtFnsIs
  <2>2. en \in EntryFns
    BY <1>2, <1>5, EntryFnsIs
  <2> QED
    BY <2>1, <2>2
<1>7. PrepareNew(c, t, id) = d
  BY DEF PrepareNew
<1> HIDE DEF st, en
<1>8. d \in Cache /\ d.stmts = st /\ d.entries = en /\ d.list = c.list /\ Live(d) = Live(c) \cup {id}
  BY <1>4, <1>6, CacheIs DEF Live
<1> HIDE DEF d
<1>9. Listed(d) = Listed(c) /\ id \notin Listed(c)
  BY <1>1, <1>8 DEF Listed, Sound
<1>10. Sound(d, H \cup {id})
  <2>1. Distinct(d.list) /\ \A x \in Listed(d) : x \notin H \cup {id} /\ x \in Live(d)
    BY <1>8, <1>9 DEF Sound
  <2>2. \A x \in H \cup {id} : x \in Live(d)
    BY <1>8 DEF Sound
  <2>3. \A x \in Listed(d) : d.stmts[x].row = 0
    BY <1>4, <1>8, <1>9 DEF Sound
  <2>4. \A x \in DOMAIN d.entries : d.entries[x] \in Live(d) => d.stmts[d.entries[x]].text = x
    BY <1>1, <1>4, <1>5, <1>8 DEF Sound
  <2> QED
    BY <2>1, <2>2, <2>3, <2>4 DEF Sound
<1>11. AllFound(c) => AllFound(d)
  BY <1>1, <1>4, <1>5, <1>8 DEF AllFound
<1>12. NoneFreed(c) => NoneFreed(d)
  BY <1>1, <1>4, <1>5, <1>8 DEF NoneFreed
<1>13. NoneLeft(c, H) => NoneLeft(d, H \cup {id})
  BY <1>8, <1>9 DEF NoneLeft
<1> QED
  BY <1>4, <1>7, <1>8, <1>10, <1>11, <1>12, <1>13 DEF Keeps

\* dbPrepareStmt: a statement that is sound to hand out comes into use.
LEMMA FoundKeeps ==
  ASSUME NEW c \in Cache, NEW H, Sound(c, H), NEW t \in Suffixes,
         HandedOut(c, t) = "none", ~Known(c, t) => Unused(c) # {}
  PROVE  /\ Keeps(c, H, Found(c, t), H \cup {IdOf(c, t)})
         /\ IdOf(c, t) \in Ids /\ IdOf(c, t) \notin H
         /\ Found(c, t).stmts[IdOf(c, t)].row = 0
<1>1. CASE Known(c, t)
  <2>1. c.entries[t] \in Listed(c)
    BY <1>1 DEF HandedOut
  <2>2. Found(c, t) = Unlink(c, c.entries[t]) /\ IdOf(c, t) = c.entries[t]
    BY <1>1 DEF Found, IdOf
  <2>3. c.entries[t] \in Ids /\ c.entries[t] \notin H /\ c.stmts[c.entries[t]].row = 0
    BY <2>1, ListedIn DEF Sound
  <2>4. /\ Keeps(c, H, Unlink(c, c.entries[t]), H \cup {c.entries[t]})
        /\ Unlink(c, c.entries[t]).stmts = c.stmts
    BY <2>1, UnlinkKeeps
  <2> QED
    BY <2>2, <2>3, <2>4
<1>2. CASE ~Known(c, t)
  <2>1. Fresh(c) \in Unused(c)
    BY <1>2 DEF Fresh
  <2>2. Found(c, t) = PrepareNew(c, t, Fresh(c)) /\ IdOf(c, t) = Fresh(c)
    BY <1>2 DEF Found, IdOf
  <2>3. Fresh(c) \in Ids /\ Fresh(c) \notin H
    BY <2>1 DEF Unused, Sound
  <2> QED
    BY <1>2, <2>1, <2>2, <2>3, PrepareKeeps
<1> QED
  BY <1>1, <1>2

\* The list is emptied.
LEMMA FlushKeeps ==
  ASSUME NEW c \in Cache, NEW H, Sound(c, H)
  PROVE  /\ FlushStmtCache(c) \in Cache /\ Sound(FlushStmtCache(c), H)
         /\ AllFound(c) => AllFound(FlushStmtCache(c))
         /\ NoneLeft(c, H) => NoneLeft(FlushStmtCache(c), H)
<1> DEFINE st == Without(c.stmts, Listed(c))
           d == [c EXCEPT !.stmts = st, !.list = <<>>]
<1>1. FlushStmtCache(c) = d
  BY DEF FlushStmtCache
<1>2. st \in StmtFns /\ DOMAIN st = Live(c) \ Listed(c) /\ \A x \in Live(c) \ Listed(c) : st[x] = c.stmts[x]
  BY CacheFacts, WithoutStmts DEF Live
<1> HIDE DEF st
<1>3. <<>> \in Seq(Ids)
  OBVIOUS
<1>4. /\ d \in Cache /\ d.stmts = st /\ d.list = <<>> /\ d.entries = c.entries
      /\ Live(d) = Live(c) \ Listed(c)
  BY <1>2, <1>3, CacheIs DEF Live
<1> HIDE DEF d
<1>5. Listed(d) = {} /\ Distinct(d.list)
  BY <1>4 DEF Listed, Distinct
<1>6. Sound(d, H)
  BY <1>2, <1>4, <1>5 DEF Sound
<1>7. (AllFound(c) => AllFound(d)) /\ (NoneLeft(c, H) => NoneLeft(d, H))
  BY <1>2, <1>4, <1>5 DEF AllFound, NoneLeft
<1> QED
  BY <1>1, <1>4, <1>6, <1>7

\* The limit of the list changes.
LEMMA SizeKeeps ==
  ASSUME NEW c \in Cache, NEW H, Sound(c, H), NEW n \in Int
  PROVE  Keeps(c, H, [c EXCEPT !.max = n], H)
<1> DEFINE d == [c EXCEPT !.max = n]
<1>1. d \in Cache /\ d.stmts = c.stmts /\ d.list = c.list /\ d.entries = c.entries
  BY CacheIs
<1> HIDE DEF d
<1>2. Listed(d) = Listed(c) /\ Live(d) = Live(c)
  BY <1>1 DEF Listed, Live
<1>3. Sound(d, H) /\ (AllFound(c) => AllFound(d))
  BY <1>1, <1>2 DEF Sound, AllFound
<1>4. (NoneFreed(c) => NoneFreed(d)) /\ (NoneLeft(c, H) => NoneLeft(d, H))
  BY <1>1, <1>2 DEF NoneFreed, NoneLeft
<1> QED
  BY <1>1, <1>3, <1>4 DEF Keeps, d

-----------------------------------------------------------------------------
(* Texts.                                                                      *)

LEMMA SuffixFacts ==
  /\ <<>> \in Suffixes /\ RecordText \in Suffixes /\ Texts \subseteq Suffixes
  /\ \A t \in Suffixes : t \in Seq(Statements) /\ (t # <<>> => Tail(t) \in Suffixes)
<1> DEFINE T == Texts \cup {RecordText}
<1>1. T \subseteq Seq(Statements)
  <2>1. "write" \in Statements
    BY DEF Statements
  <2>2. RecordText \in Seq(Statements)
    BY <2>1 DEF RecordText
  <2>3. Texts \subseteq Seq(Statements)
    BY DEF Statements
  <2> QED
    BY <2>2, <2>3
<1>2. \A t \in T : \A i \in 1..(Len(t) + 1) : SubSeq(t, i, Len(t)) \in Suffixes
  BY DEF Suffixes
<1>3. ASSUME NEW t \in T PROVE t \in Suffixes /\ <<>> \in Suffixes
  <2>1. t \in Seq(Statements) /\ Len(t) \in Nat
    BY <1>1
  <2>2. SubSeq(t, 1, Len(t)) = t /\ SubSeq(t, Len(t) + 1, Len(t)) = <<>>
    BY <2>1
  <2>3. 1 \in 1..(Len(t) + 1) /\ Len(t) + 1 \in 1..(Len(t) + 1)
    BY <2>1
  <2> QED
    BY <1>2, <2>2, <2>3
<1>4. ASSUME NEW t \in Suffixes PROVE t \in Seq(Statements) /\ (t # <<>> => Tail(t) \in Suffixes)
  <2>5. PICK u \in T : \E i \in 1..(Len(u) + 1) : t = SubSeq(u, i, Len(u))
    BY <1>4 DEF Suffixes
  <2>1. PICK i \in 1..(Len(u) + 1) : t = SubSeq(u, i, Len(u))
    BY <2>5
  <2>2. u \in Seq(Statements) /\ Len(u) \in Nat
    BY <1>1
  <2>3. t \in Seq(Statements) /\ Len(t) = Len(u) - i + 1 /\ \A k \in 1..(Len(u) - i + 1) : t[k] = u[i + k - 1]
    BY <2>1, <2>2, SubSeqProperties
  <2>4. ASSUME t # <<>> PROVE Tail(t) \in Suffixes
    <3>1. Len(t) > 0 /\ i \in 1..Len(u) /\ i + 1 \in 1..(Len(u) + 1)
      BY <2>2, <2>3, <2>4
    <3> DEFINE v == SubSeq(u, i + 1, Len(u))
    <3>2. v \in Seq(Statements) /\ Len(v) = Len(u) - i /\ \A k \in 1..(Len(u) - i) : v[k] = u[i + k]
      <4>1. Len(u) - (i + 1) + 1 = Len(u) - i /\ \A k \in 1..(Len(u) - i) : (i + 1) + k - 1 = i + k
        BY <2>2, <3>1
      <4>2. (i + 1) - 1 <= Len(u) /\ Len(u) \in (i + 1) - 1 .. Len(u)
        BY <2>2, <3>1
      <4>3. /\ v \in Seq(Statements) /\ Len(v) = Len(u) - (i + 1) + 1
            /\ \A k \in 1..(Len(u) - (i + 1) + 1) : v[k] = u[(i + 1) + k - 1]
        BY <2>2, <3>1, <4>2, SubSeqProperties
      <4> QED
        BY <4>1, <4>3
    <3>3. v \in Suffixes
      BY <1>2, <3>1
    <3> HIDE DEF v
    <3>4. Tail(t) \in Seq(Statements) /\ Len(Tail(t)) = Len(u) - i
      BY <2>2, <2>3, <3>1, HeadTailProperties
    <3>5. \A k \in 1..(Len(u) - i) : Tail(t)[k] = t[k + 1]
      BY <2>2, <2>3, <3>1, HeadTailProperties
    <3>6. \A k \in 1..(Len(u) - i) : Tail(t)[k] = v[k]
      <4>1. TAKE k \in 1..(Len(u) - i)
      <4>2. k + 1 \in 1..(Len(u) - i + 1) /\ i + (k + 1) - 1 = i + k
        BY <2>2, <3>1
      <4> QED
        BY <2>3, <3>2, <3>5, <4>2
    <3>7. Tail(t) = v
      BY <3>2, <3>4, <3>6, SeqEqual
    <3> QED
      BY <3>3, <3>7
  <2> QED
    BY <2>3, <2>4
<1>5. RecordText \in T
  OBVIOUS
<1> QED
  BY <1>3, <1>4, <1>5

-----------------------------------------------------------------------------
(* Active calls.                                                               *)

Using == {"bind", "step", "hook", "run", "fail", "callback"}
Shape(f) ==
  /\ f \in Frame
  /\ f.at = "body" <=> f.kind = "transaction"
  /\ f.kind = "transaction" => f.id = 0
  /\ f.at \in Using => f.id # 0

Shaped(fs) == fs \in Seq(Frame) /\ \A i \in 1..Len(fs) : Shape(fs[i])
HeldBy(fs) == {fs[i].id : i \in 1..Len(fs)} \ {0}
Own(fs) == \A i, j \in 1..Len(fs) : i # j /\ fs[i].id # 0 => fs[i].id # fs[j].id
LastOf(fs) == fs[Len(fs)]
ButLast(fs) == SubSeq(fs, 1, Len(fs) - 1)
WithLast(fs, f) == [fs EXCEPT ![Len(fs)] = f]

Open(fs) == {i \in 1..Len(fs) : fs[i].kind = "transaction"}

LEMMA OpenFinite ==
  ASSUME NEW fs \in Seq(Frame)
  PROVE  IsFiniteSet(Open(fs)) /\ Cardinality(Open(fs)) \in Nat
<1>1. Len(fs) \in Nat /\ Open(fs) \subseteq 1..Len(fs)
  BY DEF Open
<1>2. IsFiniteSet(1..Len(fs))
  BY <1>1, FS_Interval
<1>3. IsFiniteSet(Open(fs))
  BY <1>1, <1>2, FS_Subset
<1> QED
  BY <1>3, FS_CardinalityType

\* A call begins.
LEMMA FramesAppend ==
  ASSUME NEW fs, Shaped(fs), NEW f, Shape(f), f.id = 0
  PROVE  /\ Shaped(Append(fs, f)) /\ HeldBy(Append(fs, f)) = HeldBy(fs)
         /\ Own(fs) => Own(Append(fs, f))
         /\ Cardinality(Open(Append(fs, f))) =
              Cardinality(Open(fs)) + (IF f.kind = "transaction" THEN 1 ELSE 0)
<1> DEFINE n == Len(fs)
           gs == Append(fs, f)
<1>1. fs \in Seq(Frame) /\ n \in Nat /\ f \in Frame
  BY DEF Shaped, Shape
<1>2. gs \in Seq(Frame) /\ Len(gs) = n + 1 /\ gs[n + 1] = f /\ \A i \in 1..n : gs[i] = fs[i]
  BY <1>1, AppendProperties
<1> HIDE DEF gs
<1>3. 1..(n + 1) = 1..n \cup {n + 1} /\ n + 1 \notin 1..n
  BY <1>1
<1>4. Shaped(gs)
  BY <1>2, <1>3 DEF Shaped
<1>5. HeldBy(gs) = HeldBy(fs)
  BY <1>2, <1>3 DEF HeldBy
<1>6. ASSUME Own(fs) PROVE Own(gs)
  <2>1. SUFFICES ASSUME NEW i \in 1..(n + 1), NEW j \in 1..(n + 1), i # j, gs[i].id # 0
                 PROVE  gs[i].id # gs[j].id
    BY <1>2 DEF Own
  <2>2. i \in 1..n
    BY <1>2, <1>3, <2>1
  <2> QED
    BY <1>2, <1>3, <1>6, <2>1, <2>2 DEF Own
<1>7. Open(gs) = IF f.kind = "transaction" THEN Open(fs) \cup {n + 1} ELSE Open(fs)
  BY <1>2, <1>3 DEF Open
<1>8. n + 1 \notin Open(fs)
  BY <1>3 DEF Open
<1>9. Cardinality(Open(gs)) = Cardinality(Open(fs)) + (IF f.kind = "transaction" THEN 1 ELSE 0)
  <2>1. IsFiniteSet(Open(fs)) /\ Cardinality(Open(fs)) \in Nat
    BY <1>1, OpenFinite
  <2>2. Cardinality(Open(fs) \cup {n + 1}) = Cardinality(Open(fs)) + 1
    BY <1>8, <2>1, FS_AddElement
  <2> QED
    BY <1>7, <2>1, <2>2
<1> QED
  BY <1>4, <1>5, <1>6, <1>9 DEF gs

LEMMA LastFacts ==
  ASSUME NEW fs, Shaped(fs), fs # <<>>
  PROVE  /\ fs \in Seq(Frame) /\ Len(fs) \in Nat /\ Len(fs) \in 1..Len(fs)
         /\ LastOf(fs) \in Frame /\ Shape(LastOf(fs))
         /\ LastOf(fs).id # 0 => LastOf(fs).id \in HeldBy(fs)
  BY DEF Shaped, LastOf, HeldBy

\* The innermost call moves on.
LEMMA FramesWithLast ==
  ASSUME NEW fs, Shaped(fs), fs # <<>>, NEW f, Shape(f), f.kind = LastOf(fs).kind
  PROVE  /\ Shaped(WithLast(fs, f)) /\ WithLast(fs, f) # <<>>
         /\ Own(fs) /\ f.id \in {0, LastOf(fs).id} =>
              /\ Own(WithLast(fs, f))
              /\ HeldBy(WithLast(fs, f)) = (HeldBy(fs) \ {LastOf(fs).id}) \cup ({f.id} \ {0})
         /\ Own(fs) /\ LastOf(fs).id = 0 /\ f.id # 0 /\ f.id \notin HeldBy(fs) =>
              /\ Own(WithLast(fs, f))
              /\ HeldBy(WithLast(fs, f)) = HeldBy(fs) \cup {f.id}
         /\ Open(WithLast(fs, f)) = Open(fs)
<1> DEFINE n == Len(fs)
           gs == WithLast(fs, f)
           G == (HeldBy(fs) \ {LastOf(fs).id}) \cup ({f.id} \ {0})
<1>1. fs \in Seq(Frame) /\ n \in Nat /\ n \in 1..n /\ f \in Frame
  BY LastFacts DEF Shape
<1>2. gs \in Seq(Frame) /\ Len(gs) = n /\ gs[n] = f /\ \A i \in 1..n \ {n} : gs[i] = fs[i]
  BY <1>1 DEF WithLast
<1>3. fs[n] = LastOf(fs)
  BY DEF LastOf
<1> HIDE DEF gs
<1>4. Shaped(gs)
  BY <1>1, <1>2 DEF Shaped
<1>5. gs # <<>>
  BY <1>1, <1>2
<1>6. Open(gs) = Open(fs)
  BY <1>1, <1>2, <1>3 DEF Open
<1>7. ASSUME Own(fs), f.id = 0 \/ f.id = fs[n].id \/ f.id \notin HeldBy(fs) PROVE Own(gs)
  <2>1. SUFFICES ASSUME NEW i \in 1..n, NEW j \in 1..n, i # j, gs[i].id # 0
                 PROVE  gs[i].id # gs[j].id
    BY <1>2 DEF Own
  <2>2. \A k \in 1..n \ {n} : fs[k].id # 0 => fs[k].id # fs[n].id /\ fs[k].id \in HeldBy(fs)
    BY <1>1, <1>7 DEF Own, HeldBy
  <2>3. CASE i = n
    BY <1>2, <1>7, <2>1, <2>2, <2>3
  <2>4. CASE j = n
    BY <1>2, <1>7, <2>1, <2>2, <2>4
  <2>5. CASE i # n /\ j # n
    BY <1>2, <1>7, <2>1, <2>5 DEF Own
  <2> QED
    BY <2>3, <2>4, <2>5
<1>8. ASSUME Own(fs) PROVE HeldBy(gs) = G
  <2>1. \A k \in 1..n \ {n} : gs[k].id # 0 => gs[k].id \in HeldBy(fs) \ {fs[n].id}
    BY <1>1, <1>2, <1>8 DEF Own, HeldBy
  <2>2. \A x \in HeldBy(gs) : x \in G
    BY <1>2, <1>3, <2>1 DEF HeldBy
  <2>3. ASSUME NEW x \in HeldBy(fs) \ {fs[n].id} PROVE x \in HeldBy(gs)
    <3>1. PICK k \in 1..n : x = fs[k].id /\ x # 0
      BY <2>3 DEF HeldBy
    <3>2. k # n
      BY <2>3, <3>1
    <3> QED
      BY <1>2, <3>1, <3>2 DEF HeldBy
  <2>4. f.id # 0 => f.id \in HeldBy(gs)
    BY <1>1, <1>2 DEF HeldBy
  <2> QED
    BY <1>3, <2>2, <2>3, <2>4
<1>9. LastOf(fs).id = 0 => HeldBy(fs) \ {LastOf(fs).id} = HeldBy(fs)
  BY DEF HeldBy
<1> QED
  BY <1>3, <1>4, <1>5, <1>6, <1>7, <1>8, <1>9 DEF gs

\* The innermost call returns.
LEMMA FramesButLast ==
  ASSUME NEW fs, Shaped(fs), fs # <<>>
  PROVE  /\ Shaped(ButLast(fs))
         /\ Own(fs) => Own(ButLast(fs)) /\ HeldBy(ButLast(fs)) = HeldBy(fs) \ {LastOf(fs).id}
         /\ Cardinality(Open(ButLast(fs))) =
              Cardinality(Open(fs)) - (IF LastOf(fs).kind = "transaction" THEN 1 ELSE 0)
<1> DEFINE n == Len(fs)
           gs == ButLast(fs)
<1>1. fs \in Seq(Frame) /\ n \in Nat /\ n \in 1..n
  BY LastFacts
<1>2. gs \in Seq(Frame) /\ Len(gs) = n - 1 /\ \A i \in 1..(n - 1) : gs[i] = fs[i]
  <2>1. gs = SubSeq(fs, 1, n - 1)
    BY DEF ButLast
  <2> HIDE DEF gs
  <2>4. n - 1 \in Int /\ \A i \in 1..(n - 1) : fs[i] \in Frame
    BY <1>1
  <2>2. gs \in Seq(Frame) /\ Len(gs) = (n - 1) - 1 + 1 /\ \A i \in 1..((n - 1) - 1 + 1) : gs[i] = fs[1 + i - 1]
    <3>1. Len(gs) = IF 1 <= n - 1 THEN (n - 1) - 1 + 1 ELSE 0
      BY <2>1, <2>4, SubSeqProperties
    <3>2. gs \in Seq(Frame) /\ \A i \in 1..((n - 1) - 1 + 1) : gs[i] = fs[1 + i - 1]
      BY <2>1, <2>4, SubSeqProperties
    <3>3. n \in Nat /\ n >= 1
      BY <1>1
    <3> HIDE DEF n
    <3> QED
      BY <3>1, <3>2, <3>3
  <2>3. (n - 1) - 1 + 1 = n - 1 /\ \A i \in 1..(n - 1) : 1 + i - 1 = i
    BY <1>1
  <2> QED
    BY <2>2, <2>3
<1>3. fs[n] = LastOf(fs)
  BY DEF LastOf
<1> HIDE DEF gs
<1>4. 1..(n - 1) = 1..n \ {n}
  BY <1>1
<1>5. Shaped(gs)
  BY <1>2, <1>4 DEF Shaped
<1>6. ASSUME Own(fs) PROVE Own(gs)
  BY <1>2, <1>4, <1>6 DEF Own
<1>7. ASSUME Own(fs) PROVE HeldBy(gs) = HeldBy(fs) \ {LastOf(fs).id}
  <2>1. \A k \in 1..n \ {n} : fs[k].id # 0 => fs[k].id # fs[n].id /\ fs[k].id \in HeldBy(fs)
    BY <1>1, <1>7 DEF Own, HeldBy
  <2>2. \A x \in HeldBy(gs) : x \in HeldBy(fs) \ {fs[n].id}
    BY <1>2, <1>4, <2>1 DEF HeldBy
  <2>3. ASSUME NEW x \in HeldBy(fs) \ {fs[n].id} PROVE x \in HeldBy(gs)
    <3>1. PICK k \in 1..n : x = fs[k].id /\ x # 0
      BY <2>3 DEF HeldBy
    <3>2. k \in 1..n \ {n}
      BY <2>3, <3>1
    <3> QED
      BY <1>2, <1>4, <3>1, <3>2 DEF HeldBy
  <2> QED
    BY <1>3, <2>2, <2>3
<1>8. Cardinality(Open(gs)) = Cardinality(Open(fs)) - (IF fs[n].kind = "transaction" THEN 1 ELSE 0)
  <2>1. IsFiniteSet(Open(fs)) /\ Cardinality(Open(fs)) \in Nat
    BY <1>1, OpenFinite
  <2>2. Open(gs) = Open(fs) \ {n}
    BY <1>2, <1>4 DEF Open
  <2>3. CASE fs[n].kind = "transaction"
    <3>1. n \in Open(fs)
      BY <1>1, <2>3 DEF Open
    <3>2. Cardinality(Open(fs) \ {n}) = Cardinality(Open(fs)) - 1
      BY <2>1, <3>1, FS_RemoveElement
    <3> QED
      BY <2>2, <2>3, <3>2
  <2>4. CASE fs[n].kind # "transaction"
    <3>1. Open(gs) = Open(fs)
      BY <2>2, <2>4 DEF Open
    <3> QED
      BY <2>1, <2>4, <3>1
  <2> QED
    BY <2>3, <2>4
<1> QED
  BY <1>3, <1>5, <1>6, <1>7, <1>8 DEF gs

-----------------------------------------------------------------------------
(* The connection.  Only the outermost transaction can be one that BEGIN       *)
(* opened, so that the latest savepoint is the innermost transaction.          *)

TxRec == [kind : {"begin", "savepoint"}, saved : SUBSET Nat]
Store == [data : SUBSET Nat, tx : Seq(TxRec)]
Ranked(s) == \A i \in 2..Len(s.tx) : s.tx[i].kind = "savepoint"
Commands == {"BEGIN", "SAVEPOINT", "COMMIT", "ROLLBACK", "RELEASE", "ROLLBACK TO"}

LEMMA LatestSavepoint ==
  ASSUME NEW s \in Store, Ranked(s), Savepoints(s) # {}
  PROVE  /\ Max(Savepoints(s)) = Len(s.tx) /\ Len(s.tx) \in Nat \ {0}
<1> DEFINE n == Len(s.tx)
           P == Savepoints(s)
<1>1. n \in Nat /\ P \subseteq 1..n
  BY DEF Savepoints, Store
<1>2. n # 0
  BY <1>1
<1>3. n \in P
  <2>1. CASE n = 1
    <3>1. P \subseteq {1}
      BY <1>1, <2>1
    <3> QED
      BY <2>1, <3>1
  <2>2. CASE n # 1
    <3>1. n \in 2..n /\ n \in 1..n
      <4>1. n \in Nat
        BY <1>1
      <4> HIDE DEF n, P
      <4> QED
        BY <1>2, <2>2, <4>1
    <3> QED
      BY <3>1 DEF Ranked, Savepoints
  <2> QED
    BY <2>1, <2>2
<1> HIDE DEF P
<1>4. \A y \in P : n >= y
  BY <1>1
<1>5. ASSUME NEW x \in P, \A y \in P : x >= y PROVE x = n
  <2>1. x >= n /\ x \in 1..n
    BY <1>1, <1>3, <1>5
  <2> QED
    BY <1>1, <2>1
<1>6. Max(P) = n
  BY <1>3, <1>4, <1>5 DEF Max
<1> QED
  BY <1>1, <1>2, <1>6 DEF P

LEMMA OpenedIs ==
  ASSUME NEW s \in Store, NEW kind \in {"begin", "savepoint"}
  PROVE  LET r == Opened(s, kind)
             n == Len(s.tx) IN
         /\ r \in Store /\ r.data = s.data /\ n \in Nat /\ Len(r.tx) = n + 1
         /\ r.tx[n + 1].kind = kind /\ r.tx[n + 1].saved = s.data
         /\ \A i \in 1..n : r.tx[i] = s.tx[i]
<1> DEFINE n == Len(s.tx)
           e == [kind |-> kind, saved |-> s.data]
           l == Append(s.tx, e)
           r == Opened(s, kind)
<1>1. s.tx \in Seq(TxRec) /\ n \in Nat /\ e \in TxRec /\ s.data \in SUBSET Nat
  BY DEF Store, TxRec
<1>2. l \in Seq(TxRec) /\ Len(l) = n + 1 /\ l[n + 1] = e /\ \A i \in 1..n : l[i] = s.tx[i]
  BY <1>1, AppendProperties
<1>3. r = [s EXCEPT !.tx = l]
  BY DEF Opened
<1> HIDE DEF l
<1>4. r \in Store /\ r.data = s.data /\ r.tx = l
  BY <1>1, <1>2, <1>3 DEF Store
<1> QED
  BY <1>1, <1>2, <1>4

LEMMA ClosedIs ==
  ASSUME NEW s \in Store, NEW i \in 1..Len(s.tx)
  PROVE  LET r == Closed(s, i) IN
         /\ r \in Store /\ r.data = s.data /\ Len(r.tx) = i - 1
         /\ \A k \in 1..(i - 1) : r.tx[k] = s.tx[k]
<1> DEFINE l == SubSeq(s.tx, 1, i - 1)
           r == Closed(s, i)
<1>1. s.tx \in Seq(TxRec) /\ Len(s.tx) \in Nat /\ i \in Nat /\ i >= 1 /\ i <= Len(s.tx)
  BY DEF Store
<1>2. i - 1 \in Int /\ \A k \in 1..(i - 1) : s.tx[k] \in TxRec
  BY <1>1
<1>3. l \in Seq(TxRec) /\ Len(l) = IF 1 <= i - 1 THEN (i - 1) - 1 + 1 ELSE 0
  BY <1>2, SubSeqProperties
<1>4. \A k \in 1..((i - 1) - 1 + 1) : l[k] = s.tx[1 + k - 1]
  BY <1>2, SubSeqProperties
<1>5. r = [s EXCEPT !.tx = l]
  BY DEF Closed
<1> HIDE DEF l
<1>6. Len(l) = i - 1 /\ \A k \in 1..(i - 1) : l[k] = s.tx[k]
  BY <1>1, <1>3, <1>4
<1>7. r \in Store /\ r.data = s.data /\ r.tx = l
  BY <1>3, <1>5 DEF Store
<1> QED
  BY <1>6, <1>7

LEMMA RolledIs ==
  ASSUME NEW s \in Store
  PROVE  /\ Rolled(s) \in Store /\ Rolled(s).tx = <<>> /\ Len(Rolled(s).tx) = 0
         /\ Rolled(s).data = IF s.tx = <<>> THEN s.data ELSE s.tx[1].saved
         /\ Durable(s) = Rolled(s).data
<1>1. s.tx \in Seq(TxRec) /\ s.data \in SUBSET Nat
  BY DEF Store
<1>2. CASE s.tx = <<>>
  BY <1>2 DEF Rolled, Durable
<1>3. CASE s.tx # <<>>
  <2>1. s.tx[1] \in TxRec
    BY <1>1, <1>3
  <2>2. s.tx[1].saved \in SUBSET Nat
    BY <2>1 DEF TxRec
  <2>3. Rolled(s) = [data |-> s.tx[1].saved, tx |-> <<>>]
    BY <1>3 DEF Rolled
  <2>4. <<>> \in Seq(TxRec)
    OBVIOUS
  <2> QED
    BY <1>3, <2>2, <2>3, <2>4 DEF Store, Durable
<1> QED
  BY <1>2, <1>3

\* Other data, the same transactions.
LEMMA DataIs ==
  ASSUME NEW s \in Store, NEW d \in SUBSET Nat
  PROVE  /\ [s EXCEPT !.data = d] \in Store
         /\ [s EXCEPT !.data = d].data = d /\ [s EXCEPT !.data = d].tx = s.tx
  BY DEF Store

\* What a command comes to.
LEMMA RunSqlIs ==
  ASSUME NEW s \in Store, Ranked(s), NEW cmd \in Commands, NEW o \in RunSql(cmd, s)
  PROVE  LET n == Len(s.tx) IN
         /\ o.ok \in BOOLEAN /\ o.store \in Store /\ Ranked(o.store) /\ n \in Nat
         /\ ~o.ok => o.store = s
         /\ o.ok /\ cmd = "BEGIN" => s.tx = <<>> /\ o.store = Opened(s, "begin")
         /\ ~o.ok /\ cmd = "BEGIN" => s.tx # <<>>
         /\ cmd = "SAVEPOINT" => o.ok /\ o.store = Opened(s, "savepoint")
         /\ o.ok /\ cmd = "COMMIT" => n # 0 /\ o.store = Closed(s, 1)
         /\ o.ok /\ cmd = "ROLLBACK" => s.tx # <<>> /\ o.store = Rolled(s)
         /\ ~o.ok /\ cmd = "ROLLBACK" => s.tx = <<>>
         /\ o.ok /\ cmd = "RELEASE" => n # 0 /\ o.store = Closed(s, n)
         /\ ~o.ok /\ cmd = "RELEASE" => n \in {0, 1}
         /\ o.ok /\ cmd = "ROLLBACK TO" =>
              n # 0 /\ o.store = [Closed(s, n) EXCEPT !.data = s.tx[n].saved]
         /\ ~o.ok /\ cmd = "ROLLBACK TO" => n \in {0, 1}
<1> DEFINE n == Len(s.tx)
           i == Max(Savepoints(s))
<1>1. s.tx \in Seq(TxRec) /\ n \in Nat /\ (s.tx = <<>> <=> n = 0) /\ (n # 0 => 1 \in 1..n /\ n \in 1..n)
  BY DEF Store
<1>2. Savepoints(s) # {} => i = n /\ n # 0
  BY LatestSavepoint
<1>3. Savepoints(s) = {} => n \in {0, 1}
  <2>1. ASSUME n \notin {0, 1} PROVE 2 \in Savepoints(s)
    <3>1. 2 \in 2..n /\ 2 \in 1..n
      <4>1. n \in Nat
        BY <1>1
      <4> HIDE DEF n
      <4> QED
        BY <2>1, <4>1
    <3> QED
      BY <3>1 DEF Ranked, Savepoints
  <2> QED
    BY <2>1
<1>4. \A k \in {"begin", "savepoint"} :
        /\ Opened(s, k) \in Store
        /\ k = "savepoint" \/ n = 0 => Ranked(Opened(s, k))
  <2>1. ASSUME NEW k \in {"begin", "savepoint"}
        PROVE  Opened(s, k) \in Store /\ (k = "savepoint" \/ n = 0 => Ranked(Opened(s, k)))
    <3> DEFINE r == Opened(s, k)
    <3>1. /\ r \in Store /\ Len(r.tx) = n + 1 /\ r.tx[n + 1].kind = k
          /\ \A j \in 1..n : r.tx[j] = s.tx[j]
      BY OpenedIs
    <3>2. n \in Nat
      BY <1>1
    <3> HIDE DEF r
    <3>3. ASSUME k = "savepoint" \/ n = 0, NEW j \in 2..(n + 1) PROVE r.tx[j].kind = "savepoint"
      <4>1. CASE j = n + 1
        BY <3>1, <3>2, <3>3, <4>1
      <4>2. CASE j \in 2..n /\ j \in 1..n
        BY <3>1, <4>2 DEF Ranked
      <4> QED
        BY <3>2, <4>1, <4>2
    <3>4. k = "savepoint" \/ n = 0 => Ranked(r)
      BY <3>1, <3>3 DEF Ranked
    <3> QED
      BY <3>1, <3>4 DEF r
  <2> QED
    BY <2>1
<1>5. \A k \in 1..n : Closed(s, k) \in Store /\ Ranked(Closed(s, k)) /\ Closed(s, k).data = s.data
  <2>1. ASSUME NEW k \in 1..n PROVE Closed(s, k) \in Store /\ Ranked(Closed(s, k)) /\ Closed(s, k).data = s.data
    <3> DEFINE r == Closed(s, k)
    <3>1. /\ r \in Store /\ Len(r.tx) = k - 1 /\ r.data = s.data
          /\ \A j \in 1..(k - 1) : r.tx[j] = s.tx[j]
      BY ClosedIs
    <3>2. n \in Nat
      BY <1>1
    <3> HIDE DEF r
    <3>3. \A j \in 2..(k - 1) : j \in 1..(k - 1) /\ j \in 2..n
      BY <3>2
    <3> QED
      BY <3>1, <3>3 DEF Ranked, r
  <2> QED
    BY <2>1
<1>6. Rolled(s) \in Store /\ Ranked(Rolled(s))
  BY RolledIs DEF Ranked
<1>7. \A ok \in BOOLEAN : \A r : Outcome(ok, r).ok = ok /\ Outcome(ok, r).store = r
  BY DEF Outcome
<1> HIDE DEF i
<1>8. CASE cmd = "BEGIN"
  <2>1. o \in IF s.tx = <<>> THEN {Outcome(TRUE, Opened(s, "begin"))} ELSE {Outcome(FALSE, s)}
    BY <1>8 DEF RunSql
  <2> QED
    BY <1>1, <1>4, <1>7, <1>8, <2>1
<1>9. CASE cmd = "SAVEPOINT"
  <2>1. o = Outcome(TRUE, Opened(s, "savepoint"))
    BY <1>9 DEF RunSql
  <2> QED
    BY <1>1, <1>4, <1>7, <1>9, <2>1
<1>10. CASE cmd = "COMMIT"
  <2>1. o \in IF s.tx = <<>> THEN {Outcome(FALSE, s)} ELSE {Outcome(FALSE, s), Outcome(TRUE, Closed(s, 1))}
    BY <1>10 DEF RunSql
  <2>2. n # 0 => Closed(s, 1) \in Store /\ Ranked(Closed(s, 1))
    BY <1>1, <1>5
  <2>3. CASE o = Outcome(FALSE, s)
    <3>1. o.ok = FALSE /\ o.store = s
      BY <1>7, <2>3
    <3> QED
      BY <1>1, <1>10, <3>1
  <2>4. CASE s.tx # <<>> /\ o = Outcome(TRUE, Closed(s, 1))
    <3>1. o.ok = TRUE /\ o.store = Closed(s, 1)
      BY <1>7, <2>4
    <3> QED
      BY <1>1, <1>10, <2>2, <2>4, <3>1
  <2> QED
    BY <2>1, <2>3, <2>4
<1>11. CASE cmd = "ROLLBACK"
  <2>1. o \in IF s.tx = <<>> THEN {Outcome(FALSE, s)} ELSE {Outcome(TRUE, Rolled(s))}
    BY <1>11 DEF RunSql
  <2> QED
    BY <1>1, <1>6, <1>7, <1>11, <2>1
<1>12. CASE cmd = "RELEASE"
  <2>1. \/ Savepoints(s) = {} /\ o = Outcome(FALSE, s)
        \/ Savepoints(s) # {} /\ o = Outcome(TRUE, Closed(s, i))
        \/ Savepoints(s) # {} /\ i = 1 /\ o = Outcome(FALSE, s)
    BY <1>12 DEF RunSql, i
  <2>2. n # 0 => Closed(s, n) \in Store /\ Ranked(Closed(s, n))
    BY <1>1, <1>5
  <2>3. CASE o = Outcome(FALSE, s) /\ n \in {0, 1}
    <3>1. o.ok = FALSE /\ o.store = s
      BY <1>7, <2>3
    <3> QED
      BY <1>1, <1>12, <2>3, <3>1
  <2>4. CASE n # 0 /\ o = Outcome(TRUE, Closed(s, n))
    <3>1. o.ok = TRUE /\ o.store = Closed(s, n)
      BY <1>7, <2>4
    <3> QED
      BY <1>1, <1>12, <2>2, <2>4, <3>1
  <2> QED
    BY <1>2, <1>3, <2>1, <2>3, <2>4
<1>13. CASE cmd = "ROLLBACK TO"
  <2>1. \/ Savepoints(s) = {} /\ o = Outcome(FALSE, s)
        \/ Savepoints(s) # {} /\ o = Outcome(TRUE, [Closed(s, i) EXCEPT !.data = s.tx[i].saved])
    BY <1>13 DEF RunSql, i
  <2>2. ASSUME n # 0 PROVE LET r == [Closed(s, n) EXCEPT !.data = s.tx[n].saved] IN r \in Store /\ Ranked(r)
    <3> DEFINE c == Closed(s, n)
    <3>1. c \in Store /\ Ranked(c)
      BY <1>1, <1>5, <2>2
    <3>2. s.tx[n] \in TxRec
      BY <1>1, <2>2
    <3>3. s.tx[n].saved \in SUBSET Nat
      BY <3>2 DEF TxRec
    <3> HIDE DEF c
    <3>4. [c EXCEPT !.data = s.tx[n].saved] \in Store /\ [c EXCEPT !.data = s.tx[n].saved].tx = c.tx
      BY <3>1, <3>3, DataIs
    <3>5. Ranked([c EXCEPT !.data = s.tx[n].saved])
      BY <3>1, <3>4 DEF Ranked
    <3> QED
      BY <3>4, <3>5 DEF c
  <2>3. CASE Savepoints(s) = {} /\ o = Outcome(FALSE, s)
    BY <1>1, <1>3, <1>7, <1>13, <2>3
  <2>4. CASE Savepoints(s) # {} /\ o = Outcome(TRUE, [Closed(s, i) EXCEPT !.data = s.tx[i].saved])
    <3>1. n # 0 /\ o = Outcome(TRUE, [Closed(s, n) EXCEPT !.data = s.tx[n].saved])
      BY <1>2, <2>4
    <3>2. o.ok = TRUE /\ o.store = [Closed(s, n) EXCEPT !.data = s.tx[n].saved]
      BY <1>7, <3>1
    <3> QED
      BY <1>1, <1>13, <2>2, <3>1, <3>2
  <2> QED
    BY <2>1, <2>3, <2>4
<1> QED
  BY <1>8, <1>9, <1>10, <1>11, <1>12, <1>13 DEF Commands

\* A transaction is opened, or not.
LEMMA OpeningIs ==
  ASSUME NEW s, NEW cmd \in {"BEGIN", "SAVEPOINT"}, NEW o \in RunSql(cmd, s)
  PROVE  /\ o.ok \in BOOLEAN /\ (~o.ok => o.store = s)
         /\ o.ok => \E kind \in {"begin", "savepoint"} : o.store = Opened(s, kind)
<1>1. \A ok \in BOOLEAN : \A r : Outcome(ok, r).ok = ok /\ Outcome(ok, r).store = r
  BY DEF Outcome
<1>2. CASE cmd = "BEGIN"
  <2>1. o = Outcome(TRUE, Opened(s, "begin")) \/ o = Outcome(FALSE, s)
    BY <1>2 DEF RunSql
  <2> QED
    BY <1>1, <2>1
<1>3. CASE cmd = "SAVEPOINT"
  <2>1. o = Outcome(TRUE, Opened(s, "savepoint"))
    BY <1>3 DEF RunSql
  <2> QED
    BY <1>1, <2>1
<1> QED
  BY <1>2, <1>3

-----------------------------------------------------------------------------
(* The invariant.  CallsInv: the counter of transactions is the number of the   *)
(* active ones.  StmtsInv: the cache is sound while no fault occurred.          *)

CallsInv ==
  /\ Shaped(frames)
  /\ nTransaction = Cardinality(Open(frames))
  /\ db \in {"freed", "leaked"} => frames = <<>>

StmtsInv ==
  fault = "none" =>
    /\ Sound(cache, Held) /\ Own(frames)
    /\ db \notin {"freed", "leaked"} => AllFound(cache)
    /\ "flush" \notin did => NoneFreed(cache)
    /\ "left" \notin did => NoneLeft(cache, Held)

CacheType == cache \in Cache /\ did \subseteq {"flush", "left", "confused"}
             /\ fault \in {"none", "freed", "shared", "null"}
StoreInv == store \in Store /\ Ranked(store) /\ writes \in Nat
MiscType == db \in {"open", "closed", "kept", "freed", "leaked"} /\ calls \in 0..MaxCalls /\ thrown \in BOOLEAN

Inv == CallsInv /\ StmtsInv /\ CacheSafe /\ CacheType /\ StoreInv /\ MiscType

LEMMA HeldIs == Held = HeldBy(frames)
  BY DEF Held, HeldBy

\* The innermost call.
LEMMA TopFacts ==
  ASSUME CallsInv, frames # <<>>
  PROVE  /\ Top \in Frame /\ Shape(Top) /\ Top = LastOf(frames)
         /\ Top.id # 0 => Top.id \in Held
         /\ Top.id \in 0..MaxStmts /\ Top.text \in Suffixes
         /\ db \notin {"freed", "leaked"}
         /\ Top.at # "body" => Top.kind = "exec"
         /\ Top.at \in Using => Top.id # 0
<1>1. Shaped(frames)
  BY DEF CallsInv
<1>2. Top = LastOf(frames)
  BY DEF Top, LastOf
<1>3. Top \in Frame /\ Shape(Top) /\ (Top.id # 0 => Top.id \in Held)
  BY <1>1, <1>2, LastFacts, HeldIs
<1>4. Top.kind \in {"exec", "transaction"} /\ Top.id \in 0..MaxStmts /\ Top.text \in Suffixes
  BY <1>3 DEF Frame
<1>5. db \notin {"freed", "leaked"}
  BY DEF CallsInv
<1> QED
  BY <1>2, <1>3, <1>4, <1>5 DEF Shape

\* A step that keeps the cache.
LEMMA KeepsStep ==
  ASSUME StmtsInv, fault = "none", Keeps(cache, Held, cache', Held'), Own(frames'),
         fault' = "none", did \subseteq did', db' = db
  PROVE  StmtsInv' /\ CacheSafe' /\ cache' \in Cache
<1>1. Sound(cache', Held') /\ cache' \in Cache
  BY DEF Keeps
<1>2. db' \notin {"freed", "leaked"} => AllFound(cache')
  BY DEF StmtsInv, Keeps
<1>3. "flush" \notin did' => NoneFreed(cache')
  BY DEF StmtsInv, Keeps
<1>4. "left" \notin did' => NoneLeft(cache', Held')
  BY DEF StmtsInv, Keeps
<1>5. StmtsInv'
  BY <1>1, <1>2, <1>3, <1>4 DEF StmtsInv
<1>6. CacheSafe'
  BY DEF CacheSafe
<1> QED
  BY <1>1, <1>5, <1>6

\* One that leaves it, and the statements in use, alone.
LEMMA SameStep ==
  ASSUME StmtsInv, fault = "none", cache' = cache, Held' = Held, Own(frames'),
         fault' = "none", did \subseteq did',
         db' = db \/ db \notin {"freed", "leaked"}
  PROVE  StmtsInv' /\ CacheSafe'
<1>1. StmtsInv'
  BY DEF StmtsInv
<1>2. CacheSafe'
  BY DEF CacheSafe
<1> QED
  BY <1>1, <1>2

\* The innermost call moves on with the statement it has.
LEMMA MoveStep ==
  ASSUME CallsInv, frames # <<>>, fault = "none", StmtsInv, NEW f, Shape(f),
         f.kind = Top.kind, f.id \in {0, Top.id}, SetTop(f), nTransaction' = nTransaction, db' = db
  PROVE  /\ CallsInv' /\ Own(frames')
         /\ Held' = (Held \ {Top.id}) \cup ({f.id} \ {0})
         /\ f.id = Top.id => Held' = Held
<1>1. Shaped(frames) /\ Own(frames) /\ Top = LastOf(frames)
  BY TopFacts DEF CallsInv, StmtsInv
<1>2. frames' = WithLast(frames, f)
  BY DEF SetTop, WithLast
<1>3. /\ Shaped(frames') /\ frames' # <<>> /\ Open(frames') = Open(frames) /\ Own(frames')
      /\ HeldBy(frames') = (HeldBy(frames) \ {Top.id}) \cup ({f.id} \ {0})
  BY <1>1, <1>2, FramesWithLast
<1>4. Held' = HeldBy(frames') /\ Held = HeldBy(frames)
  BY DEF Held, HeldBy
<1>5. f.id = Top.id => Held' = Held
  <2>1. Top.id # 0 => Top.id \in Held
    BY TopFacts
  <2>2. 0 \notin Held
    BY DEF Held
  <2> QED
    BY <1>3, <1>4, <2>1, <2>2
<1>6. CallsInv'
  BY <1>3 DEF CallsInv
<1> QED
  BY <1>3, <1>4, <1>5, <1>6

\* A query returns.
LEMMA ReturnStep ==
  ASSUME CallsInv, StmtsInv, CacheType, frames # <<>>, fault = "none", Top.kind = "exec",
         NEW c, NEW f, f.id \in {0, Top.id},
         Keeps(cache, Held, c, (Held \ {Top.id}) \cup ({f.id} \ {0})), Return(c, f),
         nTransaction' = nTransaction, db' = db, fault' = fault
  PROVE  CallsInv' /\ StmtsInv' /\ CacheSafe' /\ CacheType'
<1> DEFINE G == (Held \ {Top.id}) \cup ({f.id} \ {0})
<1>1. Shaped(frames) /\ Own(frames) /\ Top = LastOf(frames) /\ Sound(cache, Held)
  BY TopFacts DEF CallsInv, StmtsInv
<1>2. frames' = ButLast(frames)
  BY DEF Return, Rest, ButLast
<1>3. /\ Shaped(frames') /\ Own(frames') /\ HeldBy(frames') = HeldBy(frames) \ {Top.id}
      /\ Cardinality(Open(frames')) = Cardinality(Open(frames)) - (IF Top.kind = "transaction" THEN 1 ELSE 0)
  BY <1>1, <1>2, FramesButLast
<1>4. Held' = Held \ {Top.id}
  <2>1. Held' = HeldBy(frames') /\ Held = HeldBy(frames)
    BY DEF Held, HeldBy
  <2> QED
    BY <1>3, <2>1
<1>5. CallsInv'
  <2>1. Cardinality(Open(frames)) \in Nat
    BY <1>1, OpenFinite DEF Shaped
  <2>2. db \notin {"freed", "leaked"}
    BY TopFacts
  <2>3. Cardinality(Open(frames')) = Cardinality(Open(frames))
    BY <1>3, <2>1
  <2> QED
    BY <1>3, <2>2, <2>3 DEF CallsInv
<1>6. did \subseteq did' /\ did' \subseteq {"flush", "left", "confused"}
  BY DEF Return, CacheType
<1>7. CASE f.id = 0
  <2>1. cache' = c
    BY <1>7 DEF Return, EvalFinalize
  <2>2. G = Held'
    BY <1>4, <1>7
  <2>3. StmtsInv' /\ CacheSafe' /\ cache' \in Cache
    BY <1>3, <1>6, <2>1, <2>2, KeepsStep
  <2> QED
    BY <1>5, <1>6, <2>3 DEF CacheType
<1>8. CASE f.id # 0 /\ Finalizes(f.mode)
  <2>1. cache' = ReleaseStmt(Reset(c, f.id), f.id, f.nocache)
    BY <1>8 DEF Return, EvalFinalize
  <2>2. f.id \in G /\ G \ {f.id} = Held' /\ c \in Cache /\ Sound(c, G)
    BY <1>4, <1>8 DEF Keeps
  <2> HIDE DEF G
  <2>3. Keeps(c, G, cache', Held')
    BY <2>1, <2>2, ResetReleaseKeeps
  <2>4. Keeps(cache, Held, cache', Held')
    BY <2>3, KeepsTransitive DEF G
  <2>5. StmtsInv' /\ CacheSafe' /\ cache' \in Cache
    BY <1>3, <1>6, <2>4, KeepsStep
  <2> QED
    BY <1>5, <1>6, <2>5 DEF CacheType
<1>9. CASE f.id # 0 /\ ~Finalizes(f.mode)
  <2>1. cache' = c /\ "left" \in did'
    BY <1>9 DEF Return
  <2>2. c \in Cache /\ Sound(c, G) /\ Held' \subseteq G
    BY <1>4 DEF Keeps
  <2>3. Sound(c, Held')
    BY <2>2 DEF Sound
  <2>4. /\ db \notin {"freed", "leaked"} => AllFound(c)
        /\ "flush" \notin did => NoneFreed(c)
    BY DEF StmtsInv, Keeps
  <2>5. StmtsInv'
    BY <1>3, <1>6, <2>1, <2>3, <2>4 DEF StmtsInv
  <2>6. CacheSafe'
    BY DEF CacheSafe
  <2> QED
    BY <1>5, <1>6, <2>1, <2>2, <2>5, <2>6 DEF CacheType
<1> QED
  BY <1>7, <1>8, <1>9

\* A query returns that changed nothing.
LEMMA ReturnAsItIs ==
  ASSUME CallsInv, StmtsInv, CacheType, frames # <<>>, fault = "none", Top.kind = "exec",
         NEW f, f.id = Top.id, Return(cache, f),
         nTransaction' = nTransaction, db' = db, fault' = fault
  PROVE  CallsInv' /\ StmtsInv' /\ CacheSafe' /\ CacheType'
<1>1. Top.id # 0 => Top.id \in Held
  BY TopFacts
<1>2. 0 \notin Held
  BY DEF Held
<1>3. (Held \ {Top.id}) \cup ({f.id} \ {0}) = Held
  BY <1>1, <1>2
<1>4. Keeps(cache, Held, cache, Held)
  BY DEF Keeps, StmtsInv, CacheType
<1> QED
  BY <1>3, <1>4, ReturnStep

-----------------------------------------------------------------------------
(* Every action keeps the invariant.                                           *)

LEMMA InitInv == Init => Inv
<1>1. SUFFICES ASSUME Init PROVE Inv
  OBVIOUS
<1> DEFINE e == <<>>
<1>2. DOMAIN e = {} /\ e \in Seq(Ids) /\ e \in Seq(TxRec) /\ e \in Seq(Frame) /\ Len(e) = 0
  OBVIOUS
<1>3. e \in StmtFns /\ e \in EntryFns
  <2>1. e \in [{} -> StmtRec] /\ e \in [{} -> Ids]
    OBVIOUS
  <2> QED
    BY <2>1 DEF StmtFns, EntryFns
<1>4. cache = [stmts |-> e, entries |-> e, list |-> e, max |-> InitSize] /\ frames = e
  BY <1>1 DEF Init
<1> HIDE DEF e
<1>5. cache \in Cache
  BY <1>2, <1>3, <1>4, CacheIs
<1>6. Held = {} /\ Listed(cache) = {} /\ Live(cache) = {} /\ DOMAIN cache.entries = {}
  BY <1>2, <1>4 DEF Held, Listed, Live
<1>7. Own(frames) /\ Shaped(frames) /\ Open(frames) = {} /\ Distinct(cache.list)
  BY <1>2, <1>4 DEF Own, Shaped, Open, Distinct
<1>8. Cardinality(Open(frames)) = 0
  BY <1>7, FS_EmptySet
<1>9. Sound(cache, Held) /\ AllFound(cache) /\ NoneFreed(cache) /\ NoneLeft(cache, Held)
  BY <1>6, <1>7 DEF Sound, AllFound, NoneFreed, NoneLeft
<1>10. StoreInv
  <2>1. store = [data |-> {}, tx |-> e] /\ writes = 0
    BY <1>1 DEF Init, e
  <2> QED
    BY <1>2, <2>1 DEF StoreInv, Store, Ranked
<1>11. CallsInv /\ StmtsInv /\ CacheSafe
  BY <1>1, <1>7, <1>8, <1>9 DEF Init, CallsInv, StmtsInv, CacheSafe
<1>12. CacheType
  BY <1>1, <1>5 DEF Init, CacheType
<1>13. MiscType
  <2>1. 0 \in 0..MaxCalls
    OBVIOUS
  <2> QED
    BY <1>1, <2>1 DEF Init, MiscType
<1> QED
  BY <1>10, <1>11, <1>12, <1>13 DEF Inv

\* A call of a method.
LEMMA GetDbType ==
  ASSUME MiscType, GetDb
  PROVE  calls' \in 0..MaxCalls /\ fault = "none" /\ db = "open"
  BY DEF GetDb, MiscType, InScript

LEMMA QueryStep ==
  ASSUME Inv, NEW t \in Texts, NEW mode \in Mode, NEW limit \in Nat, NEW nocache \in BOOLEAN,
         Query(t, mode, limit, nocache)
  PROVE  Inv'
<1> DEFINE f == ExecFrame(t, mode, limit, nocache)
<1>1. t \in Suffixes
  BY SuffixFacts
<1>2. Shape(f) /\ f.id = 0 /\ f.kind = "exec"
  <2>1. 0 \in 0..MaxStmts
    OBVIOUS
  <2> QED
    BY <1>1, <2>1 DEF ExecFrame, Shape, Frame, Using
<1>3. frames' = Append(frames, f) /\ Shaped(frames)
  BY DEF Query, Inv, CallsInv
<1> HIDE DEF f
<1>4. /\ Shaped(frames') /\ HeldBy(frames') = HeldBy(frames) /\ (Own(frames) => Own(frames'))
      /\ Cardinality(Open(frames')) = Cardinality(Open(frames)) + (IF f.kind = "transaction" THEN 1 ELSE 0)
  BY <1>2, <1>3, FramesAppend
<1>5. fault = "none" /\ db = "open" /\ calls' \in 0..MaxCalls
  BY GetDbType DEF Query, Inv
<1>6. CallsInv'
  <2>1. Cardinality(Open(frames)) \in Nat
    BY <1>3, OpenFinite DEF Shaped
  <2> QED
    BY <1>2, <1>4, <1>5, <2>1 DEF CallsInv, Query, Inv
<1>7. Held' = Held
  <2>1. Held' = HeldBy(frames') /\ Held = HeldBy(frames)
    BY DEF Held, HeldBy
  <2> QED
    BY <1>4, <2>1
<1>8. StmtsInv' /\ CacheSafe'
  BY <1>4, <1>5, <1>7, SameStep DEF Query, Inv, StmtsInv
<1> QED
  BY <1>5, <1>6, <1>8 DEF Query, Inv, CacheType, StoreInv, MiscType

\* What the steps of a query leave alone.
LEMMA QuerySame ==
  ASSUME Inv, UNCHANGED <<store, db, calls, writes, thrown>>
  PROVE  StoreInv' /\ MiscType'
  BY DEF Inv, StoreInv, MiscType

LEMMA PrepareStep ==
  ASSUME Inv, Prepare
  PROVE  Inv'
<1> DEFINE t == Top.text
           id == IdOf(cache, t)
           f == [Top EXCEPT !.id = id, !.text = Tail(@), !.at = "bind"]
<1>1. frames # <<>> /\ fault = "none" /\ Top.id = 0 /\ t # <<>> /\ Top.at = "next"
  BY DEF Prepare, Preparing, At
<1>2. /\ Top \in Frame /\ Shape(Top) /\ t \in Suffixes /\ Top.kind = "exec" /\ Top = LastOf(frames)
      /\ db \notin {"freed", "leaked"}
  BY <1>1, TopFacts DEF Inv
<1>3. cache \in Cache /\ Sound(cache, Held) /\ Own(frames) /\ Shaped(frames)
  BY <1>1 DEF Inv, StmtsInv, CacheType, CallsInv
<1>4. StoreInv' /\ MiscType'
  BY QuerySame DEF Prepare
<1>5. fault' = HandedOut(cache, t)
  BY DEF Prepare
<1>6. CASE fault' = "none"
  <2>1. cache' = Found(cache, t) /\ SetTop(f)
    BY <1>6 DEF Prepare
  <2>2. ~Known(cache, t) => Unused(cache) # {}
    BY DEF Prepare
  <2>3. Keeps(cache, Held, cache', Held \cup {id}) /\ id \in Ids /\ id \notin Held
    BY <1>2, <1>3, <1>5, <1>6, <2>1, <2>2, FoundKeeps
  <2> HIDE DEF id
  <2>4. id # 0 /\ id \in 0..MaxStmts
    BY <2>3 DEF Ids
  <2>5. Tail(t) \in Suffixes
    BY <1>1, <1>2, SuffixFacts
  <2>6. f \in Frame /\ f.id = id /\ f.at = "bind" /\ f.kind = "exec"
    BY <1>2, <2>4, <2>5 DEF Frame
  <2> HIDE DEF f
  <2>7. Shape(f)
    BY <2>4, <2>6 DEF Shape
  <2>8. frames' = WithLast(frames, f)
    BY <2>1 DEF SetTop, WithLast
  <2>9. Held = HeldBy(frames) /\ Held' = HeldBy(frames')
    BY DEF Held, HeldBy
  <2>10. /\ Shaped(frames') /\ Own(frames') /\ HeldBy(frames') = HeldBy(frames) \cup {id}
         /\ Open(frames') = Open(frames)
    BY <1>1, <1>2, <1>3, <2>3, <2>4, <2>6, <2>7, <2>8, <2>9, FramesWithLast
  <2>11. StmtsInv' /\ CacheSafe' /\ cache' \in Cache
    <3>1. did' = did /\ db' = db
      BY DEF Prepare
    <3> QED
      BY <1>1, <1>6, <2>3, <2>9, <2>10, <3>1, KeepsStep DEF Inv
  <2>12. CallsInv'
    BY <1>2, <2>10 DEF CallsInv, Prepare, Inv
  <2> QED
    BY <1>4, <1>6, <2>11, <2>12 DEF Inv, CacheType, Prepare
<1>7. CASE fault' # "none"
  <2>1. cache' = cache /\ frames' = frames /\ did' = did
    BY <1>7 DEF Prepare
  <2>2. StmtsInv'
    BY <1>7 DEF StmtsInv
  <2>3. CallsInv'
    BY <2>1 DEF CallsInv, Inv, Prepare
  <2>4. Known(cache, t) /\ cache.entries[t] \in Ids
    BY <1>3, <1>5, <1>7, CacheFacts DEF HandedOut, Known
  <2>5. fault' = "freed" => "flush" \in did
    BY <1>1, <1>5, <2>4 DEF HandedOut, Inv, StmtsInv, NoneFreed, Known
  <2>6. ASSUME fault' = "shared", "left" \notin did PROVE Reentered
    <3>1. cache.entries[t] \in Live(cache) /\ cache.entries[t] \notin Listed(cache)
      BY <1>5, <2>4, <2>6 DEF HandedOut
    <3>2. cache.entries[t] \in Held
      BY <1>1, <2>6, <3>1 DEF Inv, StmtsInv, NoneLeft
    <3>3. cache.stmts[cache.entries[t]].text = t
      BY <1>3, <2>4, <3>1 DEF Sound, Known
    <3> QED
      BY <3>2, <3>3 DEF Held, Reentered
  <2>7. Reentered' <=> Reentered
    BY <2>1 DEF Reentered, Top
  <2>8. CacheSafe'
    BY <2>1, <2>5, <2>6, <2>7 DEF CacheSafe
  <2>9. fault' \in {"none", "freed", "shared"}
    BY <1>5 DEF HandedOut
  <2> QED
    BY <1>4, <2>1, <2>2, <2>3, <2>8, <2>9 DEF Inv, CacheType
<1> QED
  BY <1>6, <1>7

LEMMA PrepareNothingStep ==
  ASSUME Inv, PrepareNothing
  PROVE  Inv'
<1>1. StoreInv' /\ MiscType'
  BY QuerySame DEF PrepareNothing
<1>2. StmtsInv' /\ CacheSafe'
  BY DEF PrepareNothing, StmtsInv, CacheSafe
<1> QED
  BY <1>1, <1>2 DEF PrepareNothing, Inv, CallsInv, CacheType

\* A query that is not at a callback returns as it is.
LEMMA ReturnInv ==
  ASSUME Inv, frames # <<>>, fault = "none", Top.at # "body", NEW f, f.id = Top.id, Return(cache, f),
         UNCHANGED <<store, db, nTransaction, calls, writes, thrown, fault>>
  PROVE  Inv'
<1>1. Top.kind = "exec"
  BY TopFacts DEF Inv
<1>2. StoreInv' /\ MiscType'
  BY QuerySame
<1>3. CallsInv' /\ StmtsInv' /\ CacheSafe' /\ CacheType'
  BY <1>1, ReturnAsItIs DEF Inv
<1> QED
  BY <1>2, <1>3 DEF Inv

\* It moves on with the statement it has.
LEMMA MoveInv ==
  ASSUME Inv, frames # <<>>, fault = "none", Top.at # "body", Top.id # 0,
         NEW at \in {"next", "step", "hook", "run", "fail", "callback"},
         SetTop([Top EXCEPT !.at = at]),
         UNCHANGED <<cache, store, db, nTransaction, calls, writes, thrown, did, fault>>
  PROVE  Inv'
<1> DEFINE f == [Top EXCEPT !.at = at]
<1>1. Top \in Frame /\ Top.kind = "exec" /\ db \notin {"freed", "leaked"}
  BY TopFacts DEF Inv
<1>2. f \in Frame /\ f.id = Top.id /\ f.kind = "exec" /\ f.at = at
  BY <1>1 DEF Frame
<1> HIDE DEF f
<1>3. Shape(f)
  BY <1>2 DEF Shape
<1>4. CallsInv' /\ Own(frames') /\ Held' = Held
  BY <1>1, <1>2, <1>3, MoveStep DEF Inv, f
<1>5. StmtsInv' /\ CacheSafe'
  BY <1>4, SameStep DEF Inv
<1>6. StoreInv' /\ MiscType'
  BY QuerySame
<1> QED
  BY <1>4, <1>5, <1>6 DEF Inv, CacheType

LEMMA PrepareFailsStep ==
  ASSUME Inv, PrepareFails
  PROVE  Inv'
<1>1. frames # <<>> /\ fault = "none" /\ Top.at # "body" /\ Return(cache, Top)
  BY DEF PrepareFails, Preparing, At
<1> QED
  BY <1>1, ReturnInv DEF PrepareFails

LEMMA BindStep ==
  ASSUME Inv, NEW ok \in BOOLEAN, Bind(ok)
  PROVE  Inv'
<1>1. frames # <<>> /\ fault = "none" /\ Top.at = "bind"
  BY DEF Bind, At
<1>2. Top.id # 0
  BY <1>1, TopFacts DEF Inv, Using
<1>3. CASE ok
  <2>1. SetTop([Top EXCEPT !.at = "step"]) /\ UNCHANGED <<cache, did>>
    BY <1>3 DEF Bind
  <2> QED
    BY <1>1, <1>2, <2>1, MoveInv DEF Bind
<1>4. CASE ~ok
  BY <1>1, <1>4, ReturnInv DEF Bind
<1> QED
  BY <1>3, <1>4

LEMMA EvalStepStep ==
  ASSUME Inv, EvalStep
  PROVE  Inv'
<1>1. frames # <<>> /\ fault = "none" /\ Top.at = "next"
  BY DEF EvalStep, At
<1>2. CASE Top.id # 0
  <2>1. SetTop([Top EXCEPT !.at = "step"]) /\ UNCHANGED <<cache, did>>
    BY <1>2 DEF EvalStep
  <2> QED
    BY <1>1, <1>2, <2>1, MoveInv DEF EvalStep
<1>3. CASE Top.id = 0
  BY <1>1, <1>3, ReturnInv DEF EvalStep
<1> QED
  BY <1>2, <1>3

LEMMA HookStep ==
  ASSUME Inv, Hook
  PROVE  Inv'
<1>1. frames # <<>> /\ fault = "none" /\ Top.at = "step"
  BY DEF Hook, At
<1>2. Top.id # 0
  BY <1>1, TopFacts DEF Inv, Using
<1> QED
  BY <1>1, <1>2, MoveInv DEF Hook

LEMMA HookReturnsStep ==
  ASSUME Inv, NEW ret \in Returned, HookReturns(ret)
  PROVE  Inv'
<1>1. frames # <<>> /\ fault = "none" /\ Top.at = "hook"
  BY DEF HookReturns, At
<1>2. Top.id # 0
  BY <1>1, TopFacts DEF Inv, Using
<1>3. PICK failed : SetTop([Top EXCEPT !.at = IF failed THEN "fail" ELSE "run"])
  BY DEF HookReturns
<1>4. PICK at \in {"fail", "run"} : SetTop([Top EXCEPT !.at = at])
  BY <1>3
<1> QED
  BY <1>1, <1>2, <1>4, MoveInv DEF HookReturns

LEMMA CallbackReturnsStep ==
  ASSUME Inv, NEW ret \in BOOLEAN, CallbackReturns(ret)
  PROVE  Inv'
<1>1. frames # <<>> /\ fault = "none" /\ Top.at = "callback"
  BY DEF CallbackReturns, At
<1>2. Top.id # 0
  BY <1>1, TopFacts DEF Inv, Using
<1>3. CASE ret
  BY <1>1, <1>3, ReturnInv DEF CallbackReturns
<1>4. CASE ~ret
  <2>1. SetTop([Top EXCEPT !.at = "next"]) /\ UNCHANGED <<cache, did>>
    BY <1>4 DEF CallbackReturns
  <2> QED
    BY <1>1, <1>2, <2>1, MoveInv DEF CallbackReturns
<1> QED
  BY <1>3, <1>4

\* At a step of a statement.
LEMMA SteppingFacts ==
  ASSUME Inv, Stepping \/ At("fail")
  PROVE  /\ frames # <<>> /\ fault = "none" /\ Top.kind = "exec" /\ Top \in Frame
         /\ Top.id # 0 /\ Top.id \in Held /\ Top.id \in Live(cache) /\ Sound(cache, Held)
         /\ cache \in Cache /\ cache.stmts[Top.id].row \in 0..Rows
<1>1. frames # <<>> /\ fault = "none" /\ Top.at \in {"step", "run", "fail"}
  BY DEF Stepping, At
<1>2. /\ Top.id # 0 /\ Top.id \in Held /\ Top.kind = "exec" /\ Top \in Frame
  BY <1>1, TopFacts DEF Inv, Using
<1>3. Sound(cache, Held) /\ cache \in Cache
  BY <1>1 DEF Inv, StmtsInv, CacheType
<1>4. Top.id \in Live(cache)
  BY <1>2, <1>3 DEF Sound
<1>5. cache.stmts[Top.id] \in StmtRec
  BY <1>3, <1>4, CacheFacts
<1> QED
  BY <1>1, <1>2, <1>3, <1>4, <1>5 DEF StmtRec

LEMMA StepRowStep ==
  ASSUME Inv, StepRow
  PROVE  Inv'
<1> DEFINE f == [Top EXCEPT !.cnt = @ + 1, !.at = IF Top.mode = "callback" THEN "callback" ELSE "next"]
           r == cache.stmts[Top.id].row + 1
           c == MovedTo(cache, Top.id, r)
<1>1. /\ frames # <<>> /\ fault = "none" /\ Top.kind = "exec" /\ Top \in Frame
      /\ Top.id # 0 /\ Top.id \in Held /\ Sound(cache, Held) /\ cache \in Cache
      /\ cache.stmts[Top.id].row \in 0..Rows
  BY SteppingFacts DEF StepRow
<1>2. r \in 0..Rows
  <2>1. cache.stmts[Top.id].row < Rows
    BY DEF StepRow, Stmt
  <2> QED
    BY <1>1, <2>1
<1>3. f \in Frame /\ f.id = Top.id /\ f.kind = "exec" /\ f.at \in {"callback", "next"}
  <2> DEFINE at == IF Top.mode = "callback" THEN "callback" ELSE "next"
             g == [Top EXCEPT !.cnt = @ + 1]
  <2>1. at \in {"callback", "next"} /\ f = [g EXCEPT !.at = at]
    BY <1>1 DEF Frame
  <2>2. g \in Frame /\ g.id = Top.id /\ g.kind = "exec"
    BY <1>1 DEF Frame
  <2> HIDE DEF at, g, f
  <2> QED
    BY <2>1, <2>2 DEF Frame
<1>4. StoreInv' /\ MiscType'
  BY QuerySame DEF StepRow
<1>5. c = [cache EXCEPT !.stmts[Top.id].row = @ + 1]
  BY DEF MovedTo
<1>8. Keeps(cache, Held, c, Held)
  BY <1>1, <1>2, RowKeeps
<1>6. CASE LimitReached(f)
  <2>1. Return(c, f)
    BY <1>5, <1>6 DEF StepRow
  <2>2. (Held \ {Top.id}) \cup ({f.id} \ {0}) = Held
    BY <1>1, <1>3
  <2> HIDE DEF f, c
  <2>3. CallsInv' /\ StmtsInv' /\ CacheSafe' /\ CacheType'
    BY <1>1, <1>3, <1>8, <2>1, <2>2, ReturnStep DEF StepRow, Inv
  <2> QED
    BY <1>4, <2>3 DEF Inv
<1>7. CASE ~LimitReached(f)
  <2>1. SetTop(f) /\ cache' = c /\ did' = did
    BY <1>5, <1>7 DEF StepRow
  <2> HIDE DEF f, r
  <2>2. Shape(f)
    BY <1>1, <1>3 DEF Shape
  <2>3. CallsInv' /\ Own(frames') /\ Held' = Held
    BY <1>1, <1>3, <2>1, <2>2, MoveStep DEF StepRow, Inv
  <2>4. Keeps(cache, Held, cache', Held)
    BY <1>8, <2>1
  <2>5. StmtsInv' /\ CacheSafe' /\ cache' \in Cache
    BY <1>1, <2>1, <2>3, <2>4, KeepsStep DEF StepRow, Inv
  <2> QED
    BY <1>4, <2>1, <2>3, <2>5 DEF StepRow, Inv, CacheType
<1> QED
  BY <1>6, <1>7

LEMMA StepDoneStep ==
  ASSUME Inv, StepDone
  PROVE  Inv'
<1> DEFINE f == [Top EXCEPT !.id = 0, !.at = "next"]
<1>1. /\ frames # <<>> /\ fault = "none" /\ Top.kind = "exec" /\ Top \in Frame
      /\ Top.id # 0 /\ Top.id \in Held /\ Sound(cache, Held) /\ cache \in Cache
  BY SteppingFacts DEF StepDone
<1>2. f \in Frame /\ f.id = 0 /\ f.kind = "exec" /\ f.at = "next"
  <2>1. 0 \in 0..MaxStmts
    OBVIOUS
  <2> QED
    BY <1>1, <2>1 DEF Frame
<1>3. SetTop(f) /\ cache' = ReleaseStmt(Reset(cache, Top.id), Top.id, Top.nocache)
  BY DEF StepDone
<1> HIDE DEF f
<1>4. Shape(f)
  BY <1>2 DEF Shape, Using
<1>5. CallsInv' /\ Own(frames') /\ Held' = Held \ {Top.id}
  <2>1. Held' = (Held \ {Top.id}) \cup ({f.id} \ {0}) /\ CallsInv' /\ Own(frames')
    BY <1>1, <1>2, <1>3, <1>4, MoveStep DEF StepDone, Inv
  <2> QED
    BY <1>2, <2>1
<1>6. Keeps(cache, Held, cache', Held')
  BY <1>1, <1>3, <1>5, ResetReleaseKeeps
<1>7. StmtsInv' /\ CacheSafe' /\ cache' \in Cache
  BY <1>1, <1>5, <1>6, KeepsStep DEF StepDone, Inv
<1>8. StoreInv'
  <2>1. CASE Head(Stmt.text) = "write"
    <3>1. writes' = writes + 1 /\ store' = [store EXCEPT !.data = store.data \cup {writes + 1}]
      BY <2>1 DEF StepDone
    <3>2. store.data \cup {writes + 1} \in SUBSET Nat
      BY DEF Inv, StoreInv, Store
    <3>3. store' \in Store /\ store'.tx = store.tx
      BY <3>1, <3>2, DataIs DEF Inv, StoreInv
    <3> QED
      BY <3>1, <3>3 DEF Inv, StoreInv, Ranked
  <2>2. CASE Head(Stmt.text) # "write"
    BY <2>2 DEF StepDone, Inv, StoreInv
  <2> QED
    BY <2>1, <2>2
<1> QED
  BY <1>5, <1>7, <1>8 DEF StepDone, Inv, CacheType, MiscType

LEMMA StepFailsStep ==
  ASSUME Inv, StepFails
  PROVE  Inv'
<1> DEFINE f == [Top EXCEPT !.id = 0]
           c == ReleaseStmt(Reset(cache, Top.id), Top.id, TRUE)
<1>1. /\ frames # <<>> /\ fault = "none" /\ Top.kind = "exec" /\ Top \in Frame
      /\ Top.id # 0 /\ Top.id \in Held /\ Sound(cache, Held) /\ cache \in Cache
  BY SteppingFacts DEF StepFails
<1>2. f.id = 0 /\ Return(c, f)
  BY <1>1 DEF StepFails, Frame
<1>3. Keeps(cache, Held, c, Held \ {Top.id})
  BY <1>1, ResetReleaseKeeps
<1> HIDE DEF f, c
<1>4. (Held \ {Top.id}) \cup ({f.id} \ {0}) = Held \ {Top.id}
  BY <1>2
<1>5. CallsInv' /\ StmtsInv' /\ CacheSafe' /\ CacheType'
  BY <1>1, <1>2, <1>3, <1>4, ReturnStep DEF StepFails, Inv
<1>6. StoreInv' /\ MiscType'
  BY QuerySame DEF StepFails
<1> QED
  BY <1>5, <1>6 DEF Inv

\* Calls that run no query leave the statements alone.
LEMMA NoQuery ==
  ASSUME Inv, fault = "none", UNCHANGED <<cache, did, fault>>, Own(frames'), Held' = Held,
         db' = db \/ db \notin {"freed", "leaked"}
  PROVE  StmtsInv' /\ CacheSafe' /\ CacheType'
<1>1. StmtsInv' /\ CacheSafe'
  BY SameStep DEF Inv
<1> QED
  BY <1>1 DEF Inv, CacheType

LEMMA TransactionStep ==
  ASSUME Inv, NEW typed \in BOOLEAN, Transaction(typed)
  PROVE  Inv'
<1> DEFINE cmd == IF typed /\ nTransaction = 0 THEN "BEGIN" ELSE "SAVEPOINT"
           f == TransactionFrame
<1>1. fault = "none" /\ db = "open" /\ calls' \in 0..MaxCalls
  BY GetDbType DEF Transaction, Inv
<1>2. Shaped(frames) /\ Own(frames) /\ store \in Store /\ Ranked(store)
  BY <1>1 DEF Inv, CallsInv, StmtsInv, StoreInv
<1>3. PICK o \in RunSql(cmd, store) :
        /\ store' = o.store
        /\ IF o.ok THEN nTransaction' = nTransaction + 1 /\ frames' = Append(frames, f)
           ELSE UNCHANGED <<nTransaction, frames>>
  BY DEF Transaction
<1>4. cmd \in Commands
  BY DEF Commands
<1>5. o.store \in Store /\ Ranked(o.store)
  BY <1>2, <1>4, RunSqlIs
<1>6. Shape(f) /\ f.id = 0 /\ f.kind = "transaction"
  <2>1. store.data \in SUBSET Nat
    BY <1>2 DEF Store
  <2>2. <<>> \in Suffixes /\ 0 \in 0..MaxStmts
    BY SuffixFacts
  <2> QED
    BY <2>1, <2>2 DEF TransactionFrame, ExecFrame, Shape, Frame, Mode, Using
<1> HIDE DEF f
<1>7. CallsInv' /\ Own(frames') /\ Held' = Held
  <2>1. Held' = HeldBy(frames') /\ Held = HeldBy(frames)
    BY DEF Held, HeldBy
  <2>2. CASE o.ok
    <3>1. /\ Shaped(frames') /\ HeldBy(frames') = HeldBy(frames) /\ Own(frames')
          /\ Cardinality(Open(frames')) = Cardinality(Open(frames)) + (IF f.kind = "transaction" THEN 1 ELSE 0)
      BY <1>2, <1>3, <1>6, <2>2, FramesAppend
    <3> QED
      BY <1>1, <1>3, <1>6, <2>1, <2>2, <3>1 DEF CallsInv, Transaction, Inv
  <2>3. CASE ~o.ok
    <3>1. frames' = frames /\ nTransaction' = nTransaction
      BY <1>3, <2>3
    <3> QED
      BY <1>2, <2>1, <3>1 DEF CallsInv, Transaction, Inv
  <2> QED
    BY <2>2, <2>3
<1>8. StmtsInv' /\ CacheSafe' /\ CacheType'
  BY <1>1, <1>7, NoQuery DEF Transaction
<1> QED
  BY <1>1, <1>3, <1>5, <1>7, <1>8 DEF Transaction, Inv, StoreInv, MiscType

\* What the end of a transaction comes to.
LEMMA EndOutcomesType ==
  ASSUME Inv, NEW err \in BOOLEAN, NEW o \in EndOutcomes(err)
  PROVE  o.ok \in BOOLEAN /\ o.store \in Store /\ Ranked(o.store)
<1> DEFINE cmd == EndCommand(err, nTransaction - 1)
<1>1. store \in Store /\ Ranked(store) /\ cmd \in Commands
  BY DEF Inv, StoreInv, EndCommand, Commands
<1>2. \A ok \in BOOLEAN : \A r : Outcome(ok, r).ok = ok /\ Outcome(ok, r).store = r
  BY DEF Outcome
<1> HIDE DEF cmd
<1>3. CASE db # "open"
  BY <1>1, <1>2, <1>3 DEF EndOutcomes
<1>4. CASE db = "open"
  <2>1. PICK p \in RunSql(cmd, store) :
          o = IF p.ok THEN Outcome(~err, p.store) ELSE Outcome(FALSE, Rolled(p.store))
    BY <1>4 DEF EndOutcomes, cmd
  <2>2. p.ok \in BOOLEAN /\ p.store \in Store /\ Ranked(p.store)
    BY <1>1, RunSqlIs
  <2>3. Rolled(p.store) \in Store /\ Ranked(Rolled(p.store))
    BY <2>2, RolledIs DEF Ranked
  <2> QED
    BY <1>2, <2>1, <2>2, <2>3
<1> QED
  BY <1>3, <1>4

LEMMA TransactionEndsStep ==
  ASSUME Inv, NEW err \in BOOLEAN, TransactionEnds(err)
  PROVE  Inv'
<1>1. frames # <<>> /\ fault = "none" /\ Top.at = "body"
  BY DEF TransactionEnds, At
<1>2. /\ Shaped(frames) /\ Own(frames) /\ Top = LastOf(frames) /\ Shape(Top)
      /\ db \notin {"freed", "leaked"}
  BY <1>1, TopFacts DEF Inv, CallsInv, StmtsInv
<1>3. Top.kind = "transaction" /\ Top.id = 0
  BY <1>1, <1>2 DEF Shape
<1>4. PICK o \in EndOutcomes(err) : store' = o.store /\ thrown' = ~o.ok
  BY DEF TransactionEnds
<1>5. o.ok \in BOOLEAN /\ o.store \in Store /\ Ranked(o.store)
  BY EndOutcomesType
<1>6. frames' = ButLast(frames)
  BY DEF TransactionEnds, Rest, ButLast
<1>7. /\ Shaped(frames') /\ Own(frames') /\ HeldBy(frames') = HeldBy(frames) \ {Top.id}
      /\ Cardinality(Open(frames')) = Cardinality(Open(frames)) - (IF Top.kind = "transaction" THEN 1 ELSE 0)
  BY <1>1, <1>2, <1>6, FramesButLast
<1>8. Held' = Held
  <2>1. Held' = HeldBy(frames') /\ Held = HeldBy(frames) /\ 0 \notin Held
    BY DEF Held, HeldBy
  <2> QED
    BY <1>3, <1>7, <2>1
<1>9. CallsInv'
  BY <1>2, <1>3, <1>7 DEF CallsInv, TransactionEnds, Inv
<1>10. StmtsInv' /\ CacheSafe' /\ CacheType'
  BY <1>1, <1>7, <1>8, NoQuery DEF TransactionEnds
<1> QED
  BY <1>4, <1>5, <1>9, <1>10 DEF TransactionEnds, Inv, StoreInv, MiscType

LEMMA RecordsIs ==
  ASSUME NEW s \in Store, writes \in Nat, NEW n \in Nat, NEW k
  PROVE  /\ Records(s, n, k) \in Store /\ Records(s, n, k).tx = s.tx
         /\ s.data \subseteq Records(s, n, k).data
         /\ Ranked(s) => Ranked(Records(s, n, k))
<1> DEFINE d == s.data \cup {writes + j : j \in {i \in 1..n : i < k}}
<1>1. Records(s, n, k) = [s EXCEPT !.data = d]
  BY DEF Records
<1>2. d \in SUBSET Nat /\ s.data \subseteq d
  BY DEF Store
<1> HIDE DEF d
<1> DEFINE r == [s EXCEPT !.data = d]
<1>3. r \in Store /\ r.data = d /\ r.tx = s.tx
  BY <1>2, DataIs
<1> HIDE DEF r
<1>4. Ranked(s) => Ranked(r)
  BY <1>3 DEF Ranked
<1>5. Records(s, n, k) = r
  BY <1>1 DEF r
<1> QED
  BY <1>2, <1>3, <1>4, <1>5

\* BEGIN, records, COMMIT or ROLLBACK.
LEMMA BulkIs ==
  ASSUME NEW s \in Store, Ranked(s), writes \in Nat, NEW b \in RunSql("BEGIN", s),
         NEW n \in Nat, NEW k, NEW cmd \in {"COMMIT", "ROLLBACK"},
         NEW o \in RunSql(cmd, Records(b.store, n, k))
  PROVE  o.store \in Store /\ Ranked(o.store)
<1>1. "BEGIN" \in Commands /\ cmd \in Commands
  BY DEF Commands
<1>2. b.store \in Store /\ Ranked(b.store)
  BY <1>1, RunSqlIs
<1> DEFINE r == Records(b.store, n, k)
<1>3. r \in Store /\ Ranked(r)
  BY <1>2, RecordsIs
<1> HIDE DEF r
<1>4. o \in RunSql(cmd, r)
  BY DEF r
<1> QED
  BY <1>1, <1>3, <1>4, RunSqlIs

LEMMA DbExecBindsStore ==
  ASSUME StoreInv, NEW t, NEW n \in 1..2, NEW k \in 1..(n + 1), NEW begin, NEW discard,
         DbExecBinds(t, n, k, begin, discard)
  PROVE  StoreInv'
<1> DEFINE cmd == IF k > n THEN "COMMIT" ELSE "ROLLBACK"
<1>1. store \in Store /\ Ranked(store) /\ writes \in Nat /\ n \in Nat
  BY DEF StoreInv
<1>2. writes' \in Nat
  BY <1>1 DEF DbExecBinds
<1>3. cmd \in {"COMMIT", "ROLLBACK"}
  OBVIOUS
<1>4. CASE n > 1 /\ begin
  <2>1. PICK b \in RunSql("BEGIN", store) :
          IF ~b.ok THEN store' = Rolled(store)
          ELSE \E o \in RunSql(cmd, Records(b.store, n, k)) : store' = o.store
    BY <1>4 DEF DbExecBinds
  <2>2. CASE ~b.ok
    BY <1>1, <1>2, <2>1, <2>2, RolledIs DEF StoreInv, Ranked
  <2>3. CASE b.ok
    <3>1. PICK o \in RunSql(cmd, Records(b.store, n, k)) : store' = o.store
      BY <2>1, <2>3
    <3> HIDE DEF cmd
    <3>2. o.store \in Store /\ Ranked(o.store)
      BY <1>1, <1>3, <3>1, BulkIs
    <3> QED
      BY <1>2, <3>1, <3>2 DEF StoreInv
  <2> QED
    BY <2>2, <2>3
<1>5. CASE ~(n > 1 /\ begin)
  <2>1. store' = Records(store, n, k)
    BY <1>5 DEF DbExecBinds
  <2> QED
    BY <1>1, <1>2, <2>1, RecordsIs DEF StoreInv
<1> QED
  BY <1>4, <1>5

LEMMA DbExecBindsStep ==
  ASSUME Inv, NEW n \in 1..2, NEW k \in 1..(n + 1), NEW begin \in BOOLEAN, NEW discard \in BOOLEAN,
         DbExecBinds(RecordText, n, k, begin, discard)
  PROVE  Inv'
<1> DEFINE t == RecordText
           id == IdOf(cache, t)
           c == Found(cache, t)
<1>1. fault = "none" /\ db = "open" /\ calls' \in 0..MaxCalls
  BY GetDbType DEF DbExecBinds, Inv
<1>2. StoreInv'
  BY DbExecBindsStore DEF Inv
<1>3. /\ fault' = HandedOut(cache, t) /\ frames' = frames /\ nTransaction' = nTransaction /\ db' = db
      /\ did \subseteq did' /\ did' \subseteq did \cup {"confused"} /\ thrown' = thrown
  BY DEF DbExecBinds, Confuses
<1>4. cache \in Cache /\ Sound(cache, Held) /\ Own(frames) /\ t \in Suffixes
  BY <1>1, SuffixFacts DEF Inv, StmtsInv, CacheType
<1>5. CallsInv' /\ MiscType' /\ Own(frames') /\ Held' = Held
  BY <1>1, <1>3, <1>4 DEF CallsInv, MiscType, Inv, Held
<1>6. fault' \in {"none", "freed", "shared"} /\ did' \subseteq {"flush", "left", "confused"}
  BY <1>3 DEF HandedOut, Inv, CacheType
<1>7. CASE fault' = "none"
  <2>1. cache' = ReleaseStmt(c, id, discard)
    BY <1>7 DEF DbExecBinds
  <2>2. ~Known(cache, t) => Unused(cache) # {}
    BY DEF DbExecBinds
  <2>3. Keeps(cache, Held, c, Held \cup {id}) /\ id \notin Held /\ c.stmts[id].row = 0
    BY <1>3, <1>4, <1>7, <2>2, FoundKeeps
  <2> HIDE DEF id, c
  <2>4. c \in Cache /\ Sound(c, Held \cup {id}) /\ id \in Held \cup {id} /\ (Held \cup {id}) \ {id} = Held
    BY <2>3 DEF Keeps
  <2>5. Keeps(c, Held \cup {id}, cache', Held)
    BY <2>1, <2>3, <2>4, ReleaseKeeps
  <2>6. Keeps(cache, Held, cache', Held')
    BY <1>5, <2>3, <2>5, KeepsTransitive
  <2>7. StmtsInv' /\ CacheSafe' /\ cache' \in Cache
    BY <1>1, <1>3, <1>5, <1>7, <2>6, KeepsStep DEF Inv
  <2> QED
    BY <1>2, <1>5, <1>6, <2>7 DEF Inv, CacheType
<1>8. CASE fault' # "none"
  <2>1. cache' = cache
    BY <1>3, <1>8 DEF DbExecBinds
  <2>2. StmtsInv'
    BY <1>8 DEF StmtsInv
  <2>3. Known(cache, t) /\ cache.entries[t] \in Ids
    BY <1>3, <1>4, <1>8, CacheFacts DEF HandedOut, Known
  <2>4. fault' = "freed" => "flush" \in did
    BY <1>1, <1>3, <2>3 DEF HandedOut, Inv, StmtsInv, NoneFreed, Known
  <2>5. ASSUME fault' = "shared", "left" \notin did PROVE Reentered
    <3>1. cache.entries[t] \in Live(cache) /\ cache.entries[t] \notin Listed(cache)
      BY <1>3, <2>3, <2>5 DEF HandedOut
    <3>2. cache.entries[t] \in Held
      BY <1>1, <2>5, <3>1 DEF Inv, StmtsInv, NoneLeft
    <3>3. cache.stmts[cache.entries[t]].text = t
      BY <1>4, <2>3, <3>1 DEF Sound, Known
    <3> QED
      BY <3>2, <3>3 DEF Held, Reentered
  <2>6. Reentered' <=> Reentered
    BY <1>3, <2>1 DEF Reentered, Top
  <2>7. CacheSafe'
    BY <1>3, <2>4, <2>5, <2>6 DEF CacheSafe
  <2> QED
    BY <1>2, <1>4, <1>5, <1>6, <2>1, <2>2, <2>7 DEF Inv, CacheType
<1> QED
  BY <1>7, <1>8

\* Calls that leave all but the data alone.
LEMMA DataStep ==
  ASSUME Inv, GetDb, StoreInv', UNCHANGED <<cache, nTransaction, frames, thrown, fault>>,
         did \subseteq did', did' \subseteq did \cup {"confused"},
         db' \in {"open", "closed", "kept"}
  PROVE  Inv'
<1>1. fault = "none" /\ db = "open" /\ calls' \in 0..MaxCalls
  BY GetDbType DEF Inv
<1>2. Held' = Held /\ Own(frames) /\ Own(frames') /\ CallsInv'
  BY <1>1 DEF Held, Own, Inv, StmtsInv, CallsInv
<1>3. StmtsInv' /\ CacheSafe'
  BY <1>1, <1>2, SameStep DEF Inv
<1> QED
  BY <1>1, <1>2, <1>3 DEF Inv, CacheType, MiscType

LEMMA ImportStep ==
  ASSUME Inv, NEW n \in 1..2, NEW k \in 1..(n + 1), Import(n, k)
  PROVE  Inv'
<1> DEFINE cmd == IF k > n THEN "COMMIT" ELSE "ROLLBACK"
<1>1. store \in Store /\ Ranked(store) /\ writes \in Nat /\ n \in Nat /\ writes' \in Nat
  BY DEF Inv, StoreInv, Import
<1>2. cmd \in {"COMMIT", "ROLLBACK"}
  OBVIOUS
<1>6. PICK b \in RunSql("BEGIN", store) :
        \E o \in RunSql(cmd, Records(b.store, n, k)) : store' = o.store
  BY DEF Import
<1>3. PICK o \in RunSql(cmd, Records(b.store, n, k)) : store' = o.store
  BY <1>6
<1> HIDE DEF cmd
<1>4. StoreInv'
  BY <1>1, <1>2, <1>3, BulkIs DEF StoreInv
<1>5. did \subseteq did' /\ did' \subseteq did \cup {"confused"} /\ db' = db /\ db = "open"
  BY DEF Import, Confuses, GetDb
<1> QED
  BY <1>4, <1>5, DataStep DEF Import

LEMMA EvaluateStep ==
  ASSUME Inv, NEW t \in Texts, NEW k \in 1..(Len(t) + 1), Evaluate(t, k)
  PROVE  Inv'
<1> DEFINE done == {i \in 1..Len(t) : t[i] = "write" /\ i < k}
<1>1. t \in Seq(Statements) /\ Len(t) \in Nat
  BY SuffixFacts
<1>2. Cardinality(done) \in Nat
  <2>1. IsFiniteSet(1..Len(t)) /\ done \subseteq 1..Len(t)
    BY <1>1, FS_Interval
  <2> QED
    BY <2>1, FS_Subset, FS_CardinalityType
<1>3. store' = Records(store, Cardinality(done), Len(t) + 1) /\ writes' = writes + Cardinality(done)
  BY DEF Evaluate
<1> HIDE DEF done
<1>4. StoreInv'
  BY <1>2, <1>3, RecordsIs DEF StoreInv, Inv
<1>5. did' = did /\ db' = db /\ db = "open"
  BY DEF Evaluate, GetDb
<1> QED
  BY <1>4, <1>5, DataStep DEF Evaluate

LEMMA CloseStep ==
  ASSUME Inv, Close
  PROVE  Inv'
<1>1. StoreInv'
  BY RolledIs DEF Close, Inv, StoreInv, Ranked
<1> QED
  BY <1>1, DataStep DEF Close

LEMMA CacheFlushStep ==
  ASSUME Inv, CacheFlush
  PROVE  Inv'
<1>1. fault = "none" /\ db = "open" /\ calls' \in 0..MaxCalls
  BY GetDbType DEF CacheFlush, Inv
<1>2. cache \in Cache /\ Sound(cache, Held) /\ Own(frames) /\ Own(frames') /\ Held' = Held
  BY <1>1 DEF CacheFlush, Inv, StmtsInv, CacheType, Held
<1>3. cache' = FlushStmtCache(cache) /\ did' = did \cup {"flush"} /\ fault' = fault /\ db' = db
  BY DEF CacheFlush
<1>4. /\ cache' \in Cache /\ Sound(cache', Held') /\ (AllFound(cache) => AllFound(cache'))
      /\ NoneLeft(cache, Held) => NoneLeft(cache', Held')
  BY <1>2, <1>3, FlushKeeps
<1>5. StmtsInv'
  BY <1>1, <1>2, <1>3, <1>4 DEF StmtsInv, Inv
<1>6. CacheSafe'
  BY <1>1, <1>3 DEF CacheSafe
<1> QED
  BY <1>1, <1>3, <1>4, <1>5, <1>6 DEF CacheFlush, Inv, CallsInv, CacheType, StoreInv, MiscType

LEMMA CacheSizeStep ==
  ASSUME Inv, NEW n \in Sizes, CacheSize(n)
  PROVE  Inv'
<1>1. fault = "none" /\ db = "open" /\ calls' \in 0..MaxCalls
  BY GetDbType DEF CacheSize, Inv
<1>2. cache \in Cache /\ Sound(cache, Held) /\ Own(frames) /\ Own(frames') /\ Held' = Held /\ n \in Int
  BY <1>1 DEF CacheSize, Inv, StmtsInv, CacheType, Held
<1>3. cache' = [cache EXCEPT !.max = n]
  BY DEF CacheSize
<1>4. Keeps(cache, Held, cache', Held')
  BY <1>2, <1>3, SizeKeeps
<1>5. StmtsInv' /\ CacheSafe' /\ cache' \in Cache
  BY <1>1, <1>2, <1>4, KeepsStep DEF CacheSize, Inv
<1> QED
  BY <1>1, <1>5 DEF CacheSize, Inv, CallsInv, CacheType, StoreInv, MiscType

LEMMA DbDeleteStep ==
  ASSUME Inv, DbDelete
  PROVE  Inv'
<1> DEFINE c == FlushStmtCache(cache)
<1>1. fault = "none" /\ frames = <<>> /\ frames' = frames /\ db' \in {"leaked", "freed"}
  BY DEF DbDelete
<1>2. cache \in Cache /\ Sound(cache, Held) /\ Own(frames) /\ Own(frames') /\ Held' = Held
  BY <1>1 DEF Inv, StmtsInv, CacheType, Held
<1>3. c \in Cache /\ Sound(c, Held) /\ (NoneLeft(cache, Held) => NoneLeft(c, Held))
  BY <1>2, FlushKeeps
<1>4. cache' = [c EXCEPT !.entries = <<>>]
  BY DEF DbDelete
<1> HIDE DEF c
<1> DEFINE e == <<>>
<1>5. e \in EntryFns /\ DOMAIN e = {}
  <2>1. e \in [{} -> Ids] /\ DOMAIN e = {}
    OBVIOUS
  <2> QED
    BY <2>1 DEF EntryFns
<1>6. cache' = [c EXCEPT !.entries = e]
  BY <1>4
<1> HIDE DEF e
<1>7. cache' \in Cache /\ cache'.stmts = c.stmts /\ cache'.list = c.list /\ DOMAIN cache'.entries = {}
  BY <1>3, <1>5, <1>6, CacheIs
<1>8. Live(cache') = Live(c) /\ Listed(cache') = Listed(c)
  BY <1>7 DEF Live, Listed
<1>9. Sound(cache', Held') /\ NoneFreed(cache') /\ (NoneLeft(cache, Held) => NoneLeft(cache', Held'))
  BY <1>2, <1>3, <1>7, <1>8 DEF Sound, NoneFreed, NoneLeft
<1>10. StmtsInv' /\ CacheSafe'
  BY <1>1, <1>2, <1>9 DEF StmtsInv, CacheSafe, DbDelete, Inv
<1>11. StoreInv'
  <2>1. store' \in {store, Rolled(store)} /\ writes' = writes
    BY DEF DbDelete
  <2>2. Rolled(store) \in Store /\ Ranked(Rolled(store))
    BY RolledIs DEF Inv, StoreInv, Ranked
  <2> QED
    BY <2>1, <2>2 DEF Inv, StoreInv
<1> QED
  BY <1>1, <1>7, <1>10, <1>11 DEF DbDelete, Inv, CallsInv, CacheType, MiscType

\* The limit of a query is a number.
LEMMA NextInv ==
  ASSUME Inv, Next
  PROVE  Inv'
<1>1. ASSUME NEW t \in Texts, NEW mode \in Modes, NEW limit \in Limits, NEW nocache \in BOOLEAN,
             \/ Exec(t, mode, limit, nocache) \/ DbOptSelect(t, limit, nocache)
             \/ OneColumn(t, nocache) \/ Exists(t, nocache)
      PROVE  Inv'
  <2>1. mode \in Mode /\ "rows" \in Mode /\ limit \in Nat /\ 0 \in Nat /\ 1 \in Nat
    BY DEF Mode
  <2>2. \E m \in Mode, l \in Nat : Query(t, m, l, nocache)
    BY <1>1, <2>1 DEF Exec, DbOptSelect, OneColumn, Exists
  <2> QED
    BY <2>2, QueryStep
<1>2. ASSUME NEW n \in 1..2, NEW k \in 1..(n + 1), NEW begin \in BOOLEAN, NEW discard \in BOOLEAN,
             DbExecBinds(RecordText, n, k, begin, discard)
      PROVE  Inv'
  BY <1>2, DbExecBindsStep
<1>3. ASSUME NEW t \in Texts, NEW k \in 1..(Len(t) + 1), Evaluate(t, k)
      PROVE  Inv'
  BY <1>3, EvaluateStep
<1>4. ASSUME NEW n \in 1..2, NEW k \in 1..(n + 1), Import(n, k)
      PROVE  Inv'
  BY <1>4, ImportStep
<1> QED
  BY <1>1, <1>2, <1>3, <1>4, PrepareStep, PrepareNothingStep, PrepareFailsStep, EvalStepStep,
     BindStep, CallbackReturnsStep, TransactionEndsStep, HookStep, HookReturnsStep, StepRowStep,
     StepDoneStep, StepFailsStep, TransactionStep, CacheFlushStep, CacheSizeStep, CloseStep,
     DbDeleteStep DEF Next

LEMMA StutterInv ==
  ASSUME Inv, UNCHANGED vars
  PROVE  Inv'
<1>1. UNCHANGED <<cache, store, db, nTransaction, frames, calls, writes, thrown, did, fault>>
  BY DEF vars
<1>2. Held' = Held /\ (Reentered' <=> Reentered)
  BY <1>1 DEF Held, Reentered, Top
<1>3. StmtsInv' /\ CacheSafe'
  BY <1>1, <1>2 DEF Inv, StmtsInv, CacheSafe
<1> QED
  BY <1>1, <1>3 DEF Inv, CallsInv, CacheType, StoreInv, MiscType

LEMMA SpecInv == Spec => []Inv
<1>1. Inv /\ [Next]_vars => Inv'
  BY NextInv, StutterInv
<1> QED
  BY InitInv, <1>1, PTL DEF Spec

-----------------------------------------------------------------------------
(* The state is well formed.                                                   *)

THEOREM TypeCorrect == Spec => []TypeOK
<1>1. Inv => TypeOK
  <2>1. SUFFICES ASSUME Inv PROVE TypeOK
    OBVIOUS
  <2>2. frames \in Seq(Frame) /\ nTransaction \in Nat
    BY <2>1, OpenFinite DEF Inv, CallsInv, Shaped
  <2>3. store \in [data : SUBSET Nat, tx : Seq([kind : {"begin", "savepoint"}, saved : SUBSET Nat])]
    BY <2>1 DEF Inv, StoreInv, Store, TxRec
  <2> QED
    BY <2>1, <2>2, <2>3 DEF TypeOK, Inv, CacheType, StoreInv, MiscType
<1> QED
  BY SpecInv, <1>1, PTL

\* Statements are accounted for: each is on the list once or has one user, or a query
\* left it behind, and the hash finds each by its text.
THEOREM StatementsAccounted == Spec => []Accounted
<1>1. Inv => Accounted
  <2>1. SUFFICES ASSUME Inv, fault = "none" PROVE Accounted
    BY DEF Accounted
  <2>2. /\ Sound(cache, Held) /\ Own(frames)
        /\ db \notin {"freed", "leaked"} => AllFound(cache)
        /\ "flush" \notin did => NoneFreed(cache)
        /\ "left" \notin did => NoneLeft(cache, Held)
    BY <2>1 DEF Inv, StmtsInv
  <2>3. \A i, j \in 1..Len(cache.list) : i # j => cache.list[i] # cache.list[j]
    BY <2>2 DEF Sound, Distinct
  <2>4. \A i, j \in 1..Len(frames) : i # j /\ frames[i].id # 0 => frames[i].id # frames[j].id
    BY <2>2 DEF Own
  <2>5. Listed(cache) \cap Held = {} /\ Listed(cache) \cup Held \subseteq Live(cache)
    BY <2>2 DEF Sound
  <2>6. Live(cache) # Listed(cache) \cup Held => "left" \in did
    BY <2>2, <2>5 DEF NoneLeft
  <2>7. \A id \in Listed(cache) : cache.stmts[id].row = 0
    BY <2>2 DEF Sound
  <2>8. db \notin {"freed", "leaked"} =>
          \A id \in Live(cache) : Known(cache, cache.stmts[id].text) /\ cache.entries[cache.stmts[id].text] = id
    BY <2>2 DEF AllFound, Known
  <2>9. \A t \in DOMAIN cache.entries : cache.entries[t] \in Live(cache) \/ "flush" \in did
    BY <2>2 DEF NoneFreed
  <2> QED
    BY <2>3, <2>4, <2>5, <2>6, <2>7, <2>8, <2>9 DEF Accounted
<1> QED
  BY SpecInv, <1>1, PTL

\* A statement that was freed is handed out only after the cache was flushed, and one
\* in use only if a query left it behind or runs inside a query of the same text.
THEOREM NoForeignStatement == Spec => []CacheSafe
<1>1. Inv => CacheSafe
  BY DEF Inv
<1> QED
  BY SpecInv, <1>1, PTL

-----------------------------------------------------------------------------
(* Nesting of transactions.  p lists the positions of the active calls of      *)
(* transaction(); the k-th began the k-th transaction of the connection.       *)

Positions(p, S) ==
  /\ \A k, l \in 1..Len(p) : k < l => p[k] < p[l]
  /\ \A k \in 1..Len(p) : p[k] \in S
  /\ \A i \in S : \E k \in 1..Len(p) : p[k] = i

Chain(p, fs, s) ==
  /\ Len(s.tx) = Len(p)
  /\ \A k \in 1..Len(p) : fs[p[k]].base = s.tx[k].saved
  /\ \A k, l \in 1..Len(p) : k < l => s.tx[k].saved \subseteq s.tx[l].saved
  /\ \A k \in 1..Len(p) : s.tx[k].saved \subseteq s.data

FirstBase(p, fs, s) == Len(p) # 0 => fs[p[1]].base = Durable(s)

Nested(p) ==
  /\ p \in Seq(Nat) /\ Positions(p, Open(frames)) /\ Len(p) = nTransaction
  /\ db = "open" => Chain(p, frames, store)
  /\ db \in {"closed", "kept"} => FirstBase(p, frames, store)
  /\ db = "kept" /\ Len(p) # 0 => store.tx # <<>>

NestInv == "confused" \notin did => \E p : Nested(p)

\* Once the database is closed no statement exists.
ClosedInv == db = "closed" /\ fault = "none" => Live(cache) = {}

SameOpen(fs, gs) == Open(gs) = Open(fs) /\ \A i \in Open(fs) : gs[i].base = fs[i].base

LEMMA SameOpenAppend ==
  ASSUME NEW fs \in Seq(Frame), NEW f \in Frame, f.kind = "exec"
  PROVE  SameOpen(fs, Append(fs, f))
<1> DEFINE n == Len(fs)
           gs == Append(fs, f)
<1>1. n \in Nat /\ Len(gs) = n + 1 /\ gs[n + 1] = f /\ \A i \in 1..n : gs[i] = fs[i]
  BY AppendProperties
<1> HIDE DEF gs
<1>2. 1..(n + 1) = 1..n \cup {n + 1}
  BY <1>1
<1>3. Open(gs) = Open(fs)
  BY <1>1, <1>2 DEF Open
<1> QED
  BY <1>1, <1>3 DEF SameOpen, Open, gs

LEMMA SameOpenWithLast ==
  ASSUME NEW fs \in Seq(Frame), fs # <<>>, LastOf(fs).kind = "exec", NEW f \in Frame, f.kind = "exec"
  PROVE  SameOpen(fs, WithLast(fs, f))
<1> DEFINE n == Len(fs)
           gs == WithLast(fs, f)
<1>1. n \in Nat /\ n \in 1..n /\ Len(gs) = n /\ gs[n] = f /\ \A i \in 1..n \ {n} : gs[i] = fs[i]
  BY DEF WithLast
<1>2. fs[n].kind = "exec"
  BY DEF LastOf
<1> HIDE DEF gs
<1>3. Open(gs) = Open(fs) /\ n \notin Open(fs)
  BY <1>1, <1>2 DEF Open
<1> QED
  BY <1>1, <1>3 DEF SameOpen, Open, gs

LEMMA SameOpenButLast ==
  ASSUME NEW fs, Shaped(fs), fs # <<>>, LastOf(fs).kind = "exec"
  PROVE  SameOpen(fs, ButLast(fs))
<1> DEFINE n == Len(fs)
           gs == ButLast(fs)
<1>1. fs \in Seq(Frame) /\ n \in Nat /\ n \in 1..n
  BY LastFacts
<1>2. Len(gs) = n - 1 /\ \A i \in 1..(n - 1) : gs[i] = fs[i]
  <2>1. gs = SubSeq(fs, 1, n - 1) /\ n - 1 \in Int /\ \A i \in 1..(n - 1) : fs[i] \in Frame
    BY <1>1 DEF ButLast
  <2>2. Len(gs) = IF 1 <= n - 1 THEN (n - 1) - 1 + 1 ELSE 0
    BY <2>1, SubSeqProperties
  <2>3. \A i \in 1..((n - 1) - 1 + 1) : gs[i] = fs[1 + i - 1]
    BY <2>1, SubSeqProperties
  <2>4. n \in Nat /\ n >= 1
    BY <1>1
  <2> HIDE DEF n, gs
  <2> QED
    BY <2>2, <2>3, <2>4
<1>3. fs[n].kind = "exec" /\ 1..(n - 1) = 1..n \ {n}
  BY <1>1 DEF LastOf
<1> HIDE DEF gs
<1>4. Open(gs) = Open(fs) /\ n \notin Open(fs)
  BY <1>2, <1>3 DEF Open
<1> QED
  BY <1>2, <1>3, <1>4 DEF SameOpen, Open, gs

\* The frames after a step of a query.
LEMMA SetTopSame ==
  ASSUME Inv, frames # <<>>, Top.kind = "exec", NEW f \in Frame, f.kind = "exec", SetTop(f)
  PROVE  SameOpen(frames, frames')
<1>1. frames' = WithLast(frames, f)
  BY DEF SetTop, WithLast
<1>2. frames \in Seq(Frame) /\ LastOf(frames).kind = "exec"
  BY TopFacts DEF Inv, CallsInv, Shaped
<1> QED
  BY <1>1, <1>2, SameOpenWithLast

LEMMA ReturnSame ==
  ASSUME Inv, frames # <<>>, Top.kind = "exec", NEW c, NEW f, Return(c, f)
  PROVE  SameOpen(frames, frames') /\ did \subseteq did'
<1>1. frames' = ButLast(frames) /\ did \subseteq did'
  BY DEF Return, Rest, ButLast
<1>2. Shaped(frames) /\ LastOf(frames).kind = "exec"
  BY TopFacts DEF Inv, CallsInv
<1> QED
  BY <1>1, <1>2, SameOpenButLast

LEMMA UnchangedSame ==
  ASSUME frames' = frames
  PROVE  SameOpen(frames, frames')
  BY DEF SameOpen

\* A step that begins and ends no transaction() and is not confusing.
Grows(s, r) == r.tx = s.tx /\ s.data \subseteq r.data
Quiet ==
  \/ "confused" \in did'
  \/ db' = db /\ store' = store
  \/ db' = db /\ db \in {"open", "kept"} /\ Grows(store, store')
  \/ db' = db /\ db = "open" /\ store.tx = <<>> /\ store'.tx = <<>>
  \/ db' \in {"freed", "leaked"}

LEMMA QuietStep ==
  ASSUME Inv, NestInv, SameOpen(frames, frames'), nTransaction' = nTransaction,
         did \subseteq did', Quiet
  PROVE  NestInv'
<1>1. SUFFICES ASSUME "confused" \notin did' PROVE \E p : Nested(p)'
  BY DEF NestInv
<1>2. PICK p : Nested(p)
  BY <1>1 DEF NestInv
<1>3. p \in Seq(Nat) /\ Positions(p, Open(frames)) /\ Len(p) = nTransaction /\ Len(p) \in Nat
  BY <1>2 DEF Nested
<1>4. Open(frames') = Open(frames) /\ \A k \in 1..Len(p) : frames'[p[k]].base = frames[p[k]].base
  BY <1>3 DEF SameOpen, Positions
<1>5. Len(p) # 0 => 1 \in 1..Len(p)
  BY <1>3
<1>6. CASE db' = db /\ store' = store
  BY <1>2, <1>3, <1>4, <1>5, <1>6 DEF Nested, Chain, FirstBase
<1>7. CASE db' = db /\ db \in {"open", "kept"} /\ Grows(store, store')
  <2>1. db = "open" => Chain(p, frames', store')
    BY <1>2, <1>4, <1>7 DEF Nested, Chain, Grows
  <2>2. db = "kept" /\ Len(p) # 0 => store'.tx # <<>> /\ Durable(store') = Durable(store)
    BY <1>2, <1>7 DEF Nested, Grows, Durable, Rolled
  <2>3. db = "kept" => FirstBase(p, frames', store')
    BY <1>2, <1>4, <1>5, <2>2 DEF Nested, FirstBase
  <2> QED
    BY <1>3, <1>4, <1>7, <2>1, <2>2, <2>3 DEF Nested
<1>8. CASE db' = db /\ db = "open" /\ store.tx = <<>> /\ store'.tx = <<>>
  <2>1. Len(p) = 0 /\ Len(store'.tx) = 0
    BY <1>2, <1>8 DEF Nested, Chain
  <2>2. Chain(p, frames', store')
    BY <2>1 DEF Chain
  <2> QED
    BY <1>3, <1>4, <1>8, <2>2 DEF Nested
<1>9. CASE db' \in {"freed", "leaked"}
  BY <1>3, <1>4, <1>9 DEF Nested
<1> QED
  BY <1>1, <1>6, <1>7, <1>8, <1>9 DEF Quiet

\* Which actions are quiet.
QuietAction == SameOpen(frames, frames') /\ nTransaction' = nTransaction /\ did \subseteq did' /\ Quiet

\* The query begins, moves or returns.
LEMMA QueryQuiet ==
  ASSUME Inv, NEW t \in Texts, NEW mode \in Mode, NEW limit \in Nat, NEW nocache \in BOOLEAN,
         Query(t, mode, limit, nocache)
  PROVE  QuietAction
<1> DEFINE f == ExecFrame(t, mode, limit, nocache)
<1>1. f \in Frame /\ f.kind = "exec"
  <2>1. 0 \in 0..MaxStmts /\ t \in Suffixes
    BY SuffixFacts
  <2> QED
    BY <2>1 DEF ExecFrame, Frame
<1>2. frames' = Append(frames, f)
  BY DEF Query
<1> HIDE DEF f
<1>3. SameOpen(frames, frames')
  BY <1>1, <1>2, SameOpenAppend DEF Inv, CallsInv, Shaped
<1> QED
  BY <1>3 DEF QuietAction, Quiet, Query

\* A step of the innermost query that leaves the data alone.
LEMMA ReturnQuiet ==
  ASSUME Inv, frames # <<>>, Top.at # "body", NEW c, NEW f, Return(c, f),
         UNCHANGED <<store, db, nTransaction>>
  PROVE  QuietAction
<1>1. Top.kind = "exec"
  BY TopFacts DEF Inv
<1> QED
  BY <1>1, ReturnSame DEF QuietAction, Quiet

LEMMA MoveQuiet ==
  ASSUME Inv, frames # <<>>, Top.at # "body",
         NEW at \in {"next", "step", "hook", "run", "fail", "callback"},
         SetTop([Top EXCEPT !.at = at]), UNCHANGED <<store, db, nTransaction, did>>
  PROVE  QuietAction
<1> DEFINE f == [Top EXCEPT !.at = at]
<1>1. Top.kind = "exec" /\ Top \in Frame
  BY TopFacts DEF Inv
<1>2. f \in Frame /\ f.kind = "exec"
  BY <1>1 DEF Frame
<1>3. SetTop(f)
  OBVIOUS
<1> HIDE DEF f
<1>4. SameOpen(frames, frames')
  BY <1>1, <1>2, <1>3, SetTopSame
<1> QED
  BY <1>4 DEF QuietAction, Quiet

LEMMA PrepareQuiet ==
  ASSUME Inv, Prepare
  PROVE  QuietAction
<1> DEFINE id == IdOf(cache, Top.text)
           f == [Top EXCEPT !.id = id, !.text = Tail(@), !.at = "bind"]
<1>1. frames # <<>> /\ fault = "none" /\ Top.at = "next" /\ Top.text # <<>>
  BY DEF Prepare, Preparing, At
<1>2. Top.kind = "exec" /\ Top \in Frame /\ Top.text \in Suffixes
  BY <1>1, TopFacts DEF Inv
<1>3. SameOpen(frames, frames')
  <2>1. CASE fault' = "none"
    <3>1. SetTop(f) /\ HandedOut(cache, Top.text) = "none"
      BY <2>1 DEF Prepare
    <3>2. ~Known(cache, Top.text) => Unused(cache) # {}
      BY DEF Prepare
    <3>3. cache \in Cache /\ Sound(cache, Held)
      BY <1>1 DEF Inv, StmtsInv, CacheType
    <3>4. id \in Ids
      BY <1>2, <3>1, <3>2, <3>3, FoundKeeps
    <3> HIDE DEF id
    <3>5. id \in 0..MaxStmts
      BY <3>4 DEF Ids
    <3>6. Tail(Top.text) \in Suffixes
      BY <1>1, <1>2, SuffixFacts
    <3>7. f \in Frame /\ f.kind = "exec"
      BY <1>2, <3>5, <3>6 DEF Frame
    <3> HIDE DEF f
    <3> QED
      BY <1>1, <1>2, <3>1, <3>7, SetTopSame
  <2>2. CASE fault' # "none"
    <3>1. frames' = frames
      BY <2>2 DEF Prepare
    <3> QED
      BY <3>1, UnchangedSame
  <2> QED
    BY <2>1, <2>2
<1> QED
  BY <1>3 DEF QuietAction, Quiet, Prepare

LEMMA StepRowQuiet ==
  ASSUME Inv, StepRow
  PROVE  QuietAction
<1> DEFINE f == [Top EXCEPT !.cnt = @ + 1, !.at = IF Top.mode = "callback" THEN "callback" ELSE "next"]
<1>1. frames # <<>> /\ Top.kind = "exec" /\ Top \in Frame
  BY SteppingFacts DEF StepRow
<1>2. f \in Frame /\ f.kind = "exec"
  <2> DEFINE at == IF Top.mode = "callback" THEN "callback" ELSE "next"
             g == [Top EXCEPT !.cnt = @ + 1]
  <2>1. at \in {"callback", "next"} /\ f = [g EXCEPT !.at = at]
    BY <1>1 DEF Frame
  <2>2. g \in Frame /\ g.kind = "exec"
    BY <1>1 DEF Frame
  <2> HIDE DEF at, g, f
  <2> QED
    BY <2>1, <2>2 DEF Frame
<1>3. CASE LimitReached(f)
  <2>1. \E c : Return(c, f)
    BY <1>3 DEF StepRow
  <2> HIDE DEF f
  <2>2. SameOpen(frames, frames') /\ did \subseteq did'
    BY <1>1, <2>1, ReturnSame
  <2> QED
    BY <2>2 DEF QuietAction, Quiet, StepRow
<1>4. CASE ~LimitReached(f)
  <2>1. SetTop(f) /\ did' = did
    BY <1>4 DEF StepRow
  <2> HIDE DEF f
  <2>2. SameOpen(frames, frames')
    BY <1>1, <1>2, <2>1, SetTopSame
  <2> QED
    BY <2>1, <2>2 DEF QuietAction, Quiet, StepRow
<1> QED
  BY <1>3, <1>4

LEMMA StepDoneQuiet ==
  ASSUME Inv, ClosedInv, StepDone
  PROVE  QuietAction
<1> DEFINE f == [Top EXCEPT !.id = 0, !.at = "next"]
<1>1. frames # <<>> /\ fault = "none" /\ Top.kind = "exec" /\ Top \in Frame /\ Top.id \in Live(cache)
  BY SteppingFacts DEF StepDone
<1>2. f \in Frame /\ f.kind = "exec"
  <2>1. 0 \in 0..MaxStmts
    OBVIOUS
  <2> QED
    BY <1>1, <2>1 DEF Frame
<1>3. SetTop(f)
  BY DEF StepDone
<1> HIDE DEF f
<1>4. SameOpen(frames, frames')
  BY <1>1, <1>2, <1>3, SetTopSame
<1>5. db \in {"open", "kept"}
  BY <1>1, TopFacts DEF Inv, MiscType, ClosedInv
<1>6. store' = store \/ Grows(store, store')
  <2>1. CASE Head(Stmt.text) = "write"
    <3>1. store' = [store EXCEPT !.data = store.data \cup {writes + 1}]
      BY <2>1 DEF StepDone
    <3> QED
      BY <3>1 DEF Grows, Inv, StoreInv, Store
  <2>2. CASE Head(Stmt.text) # "write"
    BY <2>2 DEF StepDone
  <2> QED
    BY <2>1, <2>2
<1> QED
  BY <1>4, <1>5, <1>6 DEF QuietAction, Quiet, StepDone

LEMMA DbExecBindsQuiet ==
  ASSUME Inv, NEW n \in 1..2, NEW k \in 1..(n + 1), NEW begin \in BOOLEAN, NEW discard \in BOOLEAN,
         DbExecBinds(RecordText, n, k, begin, discard)
  PROVE  QuietAction
<1>1. /\ db = "open" /\ db' = db /\ frames' = frames /\ nTransaction' = nTransaction
      /\ did \subseteq did'
  BY DEF DbExecBinds, GetDb, Confuses
<1>2. SameOpen(frames, frames')
  BY <1>1, UnchangedSame
<1>3. CASE n > 1 /\ begin
  <2>1. "confused" \in did' \/ (store.tx = <<>> /\ store'.tx = <<>>)
    BY <1>3 DEF DbExecBinds, Confuses
  <2> QED
    BY <1>1, <1>2, <2>1 DEF QuietAction, Quiet
<1>4. CASE ~(n > 1 /\ begin)
  <2>1. store' = Records(store, n, k)
    BY <1>4 DEF DbExecBinds
  <2>2. store \in Store /\ writes \in Nat /\ n \in Nat
    BY DEF Inv, StoreInv
  <2>3. Grows(store, store')
    BY <2>1, <2>2, RecordsIs DEF Grows
  <2> QED
    BY <1>1, <1>2, <2>3 DEF QuietAction, Quiet
<1> QED
  BY <1>3, <1>4

LEMMA ImportQuiet ==
  ASSUME Inv, NEW n \in 1..2, NEW k \in 1..(n + 1), Import(n, k)
  PROVE  QuietAction
<1>1. /\ db = "open" /\ db' = db /\ frames' = frames /\ nTransaction' = nTransaction
      /\ did \subseteq did'
  BY DEF Import, GetDb, Confuses
<1>2. "confused" \in did' \/ (store.tx = <<>> /\ store'.tx = <<>>)
  BY DEF Import, Confuses
<1> QED
  BY <1>1, <1>2, UnchangedSame DEF QuietAction, Quiet

LEMMA EvaluateQuiet ==
  ASSUME Inv, NEW t \in Texts, NEW k \in 1..(Len(t) + 1), Evaluate(t, k)
  PROVE  QuietAction
<1> DEFINE done == {i \in 1..Len(t) : t[i] = "write" /\ i < k}
<1>1. t \in Seq(Statements) /\ Len(t) \in Nat
  BY SuffixFacts
<1>2. Cardinality(done) \in Nat
  <2>1. IsFiniteSet(1..Len(t)) /\ done \subseteq 1..Len(t)
    BY <1>1, FS_Interval
  <2> QED
    BY <2>1, FS_Subset, FS_CardinalityType
<1>3. store' = Records(store, Cardinality(done), Len(t) + 1)
  BY DEF Evaluate
<1> HIDE DEF done
<1>4. store \in Store /\ writes \in Nat
  BY DEF Inv, StoreInv
<1>5. Grows(store, store')
  BY <1>2, <1>3, <1>4, RecordsIs DEF Grows
<1>6. db = "open" /\ db' = db /\ frames' = frames /\ nTransaction' = nTransaction /\ did' = did
  BY DEF Evaluate, GetDb
<1> QED
  BY <1>5, <1>6, UnchangedSame DEF QuietAction, Quiet

LEMMA OtherQuiet ==
  ASSUME CacheFlush \/ (\E n \in Sizes : CacheSize(n)) \/ DbDelete \/ PrepareNothing \/ UNCHANGED vars
  PROVE  QuietAction
<1>1. ASSUME CacheFlush PROVE QuietAction
  BY <1>1, UnchangedSame DEF CacheFlush, QuietAction, Quiet
<1>2. ASSUME NEW n \in Sizes, CacheSize(n) PROVE QuietAction
  BY <1>2, UnchangedSame DEF CacheSize, QuietAction, Quiet
<1>3. ASSUME DbDelete PROVE QuietAction
  BY <1>3, UnchangedSame DEF DbDelete, QuietAction, Quiet
<1>4. ASSUME PrepareNothing PROVE QuietAction
  BY <1>4, UnchangedSame DEF PrepareNothing, QuietAction, Quiet
<1>5. ASSUME UNCHANGED vars PROVE QuietAction
  BY <1>5, UnchangedSame DEF vars, QuietAction, Quiet
<1> QED
  BY <1>1, <1>2, <1>3, <1>4, <1>5

\* The steps of queries.
QueryAction ==
  \/ Prepare \/ PrepareNothing \/ PrepareFails \/ EvalStep
  \/ \E ok \in BOOLEAN : Bind(ok) \/ CallbackReturns(ok)
  \/ Hook \/ (\E ret \in Returned : HookReturns(ret)) \/ StepRow \/ StepDone \/ StepFails

LEMMA QueryActionQuiet ==
  ASSUME Inv, ClosedInv, QueryAction
  PROVE  QuietAction
<1>1. ASSUME PrepareFails PROVE QuietAction
  BY <1>1, ReturnQuiet DEF PrepareFails, Preparing, At
<1>2. ASSUME EvalStep PROVE QuietAction
  <2>1. frames # <<>> /\ Top.at = "next"
    BY <1>2 DEF EvalStep, At
  <2>2. \/ SetTop([Top EXCEPT !.at = "step"]) /\ did' = did
        \/ Return(cache, Top)
    BY <1>2 DEF EvalStep
  <2> QED
    BY <1>2, <2>1, <2>2, ReturnQuiet, MoveQuiet DEF EvalStep
<1>3. ASSUME NEW ok \in BOOLEAN, Bind(ok) PROVE QuietAction
  <2>1. frames # <<>> /\ Top.at = "bind"
    BY <1>3 DEF Bind, At
  <2>2. \/ SetTop([Top EXCEPT !.at = "step"]) /\ did' = did
        \/ Return(cache, Top)
    BY <1>3 DEF Bind
  <2> QED
    BY <1>3, <2>1, <2>2, ReturnQuiet, MoveQuiet DEF Bind
<1>4. ASSUME NEW ret \in BOOLEAN, CallbackReturns(ret) PROVE QuietAction
  <2>1. frames # <<>> /\ Top.at = "callback"
    BY <1>4 DEF CallbackReturns, At
  <2>2. \/ SetTop([Top EXCEPT !.at = "next"]) /\ did' = did
        \/ Return(cache, Top)
    BY <1>4 DEF CallbackReturns
  <2> QED
    BY <1>4, <2>1, <2>2, ReturnQuiet, MoveQuiet DEF CallbackReturns
<1>5. ASSUME Hook PROVE QuietAction
  BY <1>5, MoveQuiet DEF Hook, At
<1>6. ASSUME NEW ret \in Returned, HookReturns(ret) PROVE QuietAction
  <2>1. PICK failed : SetTop([Top EXCEPT !.at = IF failed THEN "fail" ELSE "run"])
    BY <1>6 DEF HookReturns
  <2>2. PICK at \in {"fail", "run"} : SetTop([Top EXCEPT !.at = at])
    BY <2>1
  <2> QED
    BY <1>6, <2>2, MoveQuiet DEF HookReturns, At
<1>7. ASSUME StepFails PROVE QuietAction
  <2>1. frames # <<>> /\ Top.at # "body"
    BY <1>7 DEF StepFails, Stepping, At
  <2>2. \E c, f : Return(c, f)
    BY <1>7 DEF StepFails
  <2> QED
    BY <1>7, <2>1, <2>2, ReturnQuiet DEF StepFails
<1> QED
  BY <1>1, <1>2, <1>3, <1>4, <1>5, <1>6, <1>7, PrepareQuiet, OtherQuiet, StepRowQuiet, StepDoneQuiet
     DEF QueryAction

LEMMA ClosedStep ==
  ASSUME Inv, ClosedInv, Next
  PROVE  ClosedInv'
<1>1. SUFFICES ASSUME db' = "closed", fault' = "none" PROVE Live(cache') = {}
  BY DEF ClosedInv
<1>2. CASE GetDb
  <2>1. db = "open"
    BY <1>2 DEF GetDb
  <2>2. ~(\E ok \in BOOLEAN : TransactionEnds(ok)) /\ ~QueryAction /\ ~DbDelete
    BY <1>1, <2>1 DEF TransactionEnds, QueryAction, DbDelete, Prepare, PrepareNothing, PrepareFails,
                      EvalStep, Bind, CallbackReturns, Hook, HookReturns, StepRow, StepDone, StepFails
  <2>3. Close
    BY <1>1, <2>1, <2>2 DEF Next, QueryAction, Exec, DbOptSelect, OneColumn, Exists, Query, Transaction,
                            DbExecBinds, Import, Evaluate, CacheFlush, CacheSize
  <2> QED
    BY <1>1, <2>3 DEF Close
<1>3. CASE ~GetDb
  <2>1. QueryAction \/ (\E err \in BOOLEAN : TransactionEnds(err)) \/ DbDelete
    BY <1>3 DEF Next, QueryAction, Exec, DbOptSelect, OneColumn, Exists, Query, Transaction,
                DbExecBinds, Import, Evaluate, CacheFlush, CacheSize, Close
  <2>2. ~DbDelete
    BY <1>1 DEF DbDelete
  <2>3. CASE \E err \in BOOLEAN : TransactionEnds(err)
    BY <1>1, <2>3 DEF TransactionEnds, ClosedInv, At
  <2>4. CASE QueryAction
    <3>1. frames # <<>> /\ fault = "none" /\ db = "closed"
      BY <1>1, <2>4 DEF QueryAction, Prepare, PrepareNothing, PrepareFails, Preparing, EvalStep, Bind,
         CallbackReturns, Hook, HookReturns, StepRow, StepDone, StepFails, Stepping, At
    <3>2. Live(cache) = {}
      BY <3>1 DEF ClosedInv
    <3>3. Top.id = 0 /\ Top.at \notin Using
      BY <3>1, <3>2, TopFacts DEF Inv, StmtsInv, Sound
    <3>4. ~Prepare
      <4>1. ASSUME Prepare PROVE fault' # "none"
        <5>1. Known(cache, Top.text)
          BY <3>1, <4>1 DEF Prepare
        <5>2. HandedOut(cache, Top.text) = "freed"
          BY <3>2, <5>1 DEF HandedOut
        <5> QED
          BY <4>1, <5>2 DEF Prepare
      <4> QED
        BY <1>1, <4>1
    <3>5. ~PrepareNothing
      BY <3>1 DEF PrepareNothing
    <3>6. (PrepareFails \/ EvalStep) => cache' = cache
      <4>1. Return(cache, Top) => cache' = cache
        BY <3>3 DEF Return, EvalFinalize
      <4> QED
        BY <3>3, <4>1 DEF PrepareFails, EvalStep
    <3>7. ~(StepRow \/ StepDone \/ StepFails \/ Hook \/ \E ret \in Returned : HookReturns(ret))
      BY <3>3 DEF StepRow, StepDone, StepFails, Hook, HookReturns, Stepping, At, Using
    <3>8. ~(\E ok \in BOOLEAN : Bind(ok) \/ CallbackReturns(ok))
      BY <3>3 DEF Bind, CallbackReturns, At, Using
    <3> QED
      BY <2>4, <3>2, <3>4, <3>5, <3>6, <3>7, <3>8 DEF QueryAction
  <2> QED
    BY <2>1, <2>2, <2>3, <2>4
<1> QED
  BY <1>2, <1>3

\* close(): what was rolled back is what the outermost transaction found.
LEMMA CloseNest ==
  ASSUME Inv, NestInv, Close
  PROVE  NestInv'
<1>1. /\ db = "open" /\ db' \in {"closed", "kept"} /\ frames' = frames /\ nTransaction' = nTransaction
      /\ did' = did /\ store' = IF db' = "closed" THEN Rolled(store) ELSE store
  BY DEF Close, GetDb
<1>2. SUFFICES ASSUME "confused" \notin did' PROVE \E p : Nested(p)'
  BY DEF NestInv
<1>3. PICK p : Nested(p)
  BY <1>1, <1>2 DEF NestInv
<1>4. /\ p \in Seq(Nat) /\ Len(p) \in Nat /\ Positions(p, Open(frames)) /\ Len(p) = nTransaction
      /\ Chain(p, frames, store)
  BY <1>1, <1>3 DEF Nested
<1>5. store \in Store
  BY DEF Inv, StoreInv
<1>6. /\ Durable(store) = Rolled(store).data /\ Durable(Rolled(store)) = Rolled(store).data
      /\ Rolled(store).data = IF store.tx = <<>> THEN store.data ELSE store.tx[1].saved
  BY <1>5, RolledIs DEF Durable, Rolled
<1>7. Len(p) # 0 => store.tx # <<>> /\ frames[p[1]].base = store.tx[1].saved
  <2>1. ASSUME Len(p) # 0 PROVE store.tx # <<>> /\ frames[p[1]].base = store.tx[1].saved
    <3>1. 1 \in 1..Len(p) /\ Len(store.tx) # 0
      BY <1>4, <2>1 DEF Chain
    <3> QED
      BY <1>4, <3>1 DEF Chain
  <2> QED
    BY <2>1
<1>8. FirstBase(p, frames', store')
  BY <1>1, <1>6, <1>7 DEF FirstBase
<1>9. db' = "kept" /\ Len(p) # 0 => store'.tx # <<>>
  BY <1>1, <1>7
<1> QED
  BY <1>1, <1>4, <1>8, <1>9 DEF Nested

\* transaction() begins.
LEMMA TransactionNest ==
  ASSUME Inv, NestInv, NEW typed \in BOOLEAN, Transaction(typed)
  PROVE  NestInv'
<1> DEFINE cmd == IF typed /\ nTransaction = 0 THEN "BEGIN" ELSE "SAVEPOINT"
           f == TransactionFrame
           n == Len(frames)
<1>1. /\ db = "open" /\ db' = db /\ did' = did
  BY DEF Transaction, GetDb
<1>2. SUFFICES ASSUME "confused" \notin did' PROVE \E p : Nested(p)'
  BY DEF NestInv
<1>3. PICK p : Nested(p)
  BY <1>1, <1>2 DEF NestInv
<1>4. /\ p \in Seq(Nat) /\ Len(p) \in Nat /\ Positions(p, Open(frames)) /\ Len(p) = nTransaction
      /\ Chain(p, frames, store)
  BY <1>1, <1>3 DEF Nested
<1>5. PICK o \in RunSql(cmd, store) :
        /\ store' = o.store
        /\ IF o.ok THEN nTransaction' = nTransaction + 1 /\ frames' = Append(frames, f)
           ELSE UNCHANGED <<nTransaction, frames>>
  BY DEF Transaction
<1>6. store \in Store /\ Ranked(store) /\ cmd \in Commands /\ frames \in Seq(Frame) /\ n \in Nat
  BY DEF Inv, StoreInv, CallsInv, Shaped, Commands
<1>7. /\ o.ok \in BOOLEAN /\ (~o.ok => o.store = store)
      /\ o.ok => \E kind \in {"begin", "savepoint"} : o.store = Opened(store, kind)
  <2>1. cmd \in {"BEGIN", "SAVEPOINT"}
    OBVIOUS
  <2> HIDE DEF cmd
  <2> QED
    BY <2>1, OpeningIs
<1>8. CASE ~o.ok
  BY <1>1, <1>4, <1>5, <1>7, <1>8 DEF Nested
<1>9. CASE o.ok
  <2> DEFINE N == Len(p)
             q == Append(p, n + 1)
             s == store'
             gs == frames'
  <2>1. /\ s.data = store.data /\ Len(s.tx) = N + 1 /\ s.tx[N + 1].saved = store.data
        /\ \A i \in 1..N : s.tx[i] = store.tx[i]
    <3>1. PICK kind \in {"begin", "savepoint"} : s = Opened(store, kind)
      BY <1>5, <1>7, <1>9
    <3>2. Len(store.tx) = N
      BY <1>4 DEF Chain
    <3> DEFINE r == Opened(store, kind)
    <3>3. /\ r.data = store.data /\ Len(r.tx) = Len(store.tx) + 1
          /\ r.tx[Len(store.tx) + 1].saved = store.data
          /\ \A i \in 1..Len(store.tx) : r.tx[i] = store.tx[i]
      BY <1>6, OpenedIs
    <3>4. s = r
      BY <3>1
    <3> HIDE DEF r, s
    <3> QED
      BY <3>2, <3>3, <3>4
  <2>2. f.kind = "transaction" /\ f.base = store.data
    BY DEF TransactionFrame, ExecFrame
  <2>3. gs = Append(frames, f) /\ nTransaction' = nTransaction + 1
    BY <1>5, <1>9
  <2> HIDE DEF f
  <2>4. Len(gs) = n + 1 /\ gs[n + 1] = f /\ \A i \in 1..n : gs[i] = frames[i]
    BY <1>6, <2>3, AppendProperties
  <2>5. q \in Seq(Nat) /\ Len(q) = N + 1 /\ q[N + 1] = n + 1 /\ \A k \in 1..N : q[k] = p[k]
    BY <1>4, <1>6, AppendProperties
  <2> HIDE DEF q, s, gs
  <2>6. 1..(n + 1) = 1..n \cup {n + 1} /\ 1..(N + 1) = 1..N \cup {N + 1}
    BY <1>4, <1>6
  <2>7. Open(gs) = Open(frames) \cup {n + 1}
    BY <2>2, <2>4, <2>6 DEF Open
  <2>8. \A k \in 1..N : p[k] \in Open(frames) /\ p[k] \in 1..n /\ p[k] < n + 1
    BY <1>4, <1>6 DEF Positions, Open
  <2>9. Positions(q, Open(gs))
    <3>1. ASSUME NEW k \in 1..(N + 1), NEW l \in 1..(N + 1), k < l PROVE q[k] < q[l]
      <4>1. k \in 1..N
        BY <1>4, <3>1
      <4>2. CASE l = N + 1
        BY <2>5, <2>8, <4>1, <4>2
      <4>3. CASE l \in 1..N
        BY <1>4, <2>5, <3>1, <4>1, <4>3 DEF Positions
      <4> QED
        BY <2>6, <4>2, <4>3
    <3>2. \A k \in 1..(N + 1) : q[k] \in Open(gs)
      BY <2>5, <2>6, <2>7, <2>8
    <3>3. \A i \in Open(gs) : \E k \in 1..(N + 1) : q[k] = i
      <4>1. ASSUME NEW i \in Open(frames) PROVE \E k \in 1..(N + 1) : q[k] = i
        <5>1. PICK k \in 1..N : p[k] = i
          BY <1>4 DEF Positions
        <5> QED
          BY <2>5, <2>6, <5>1
      <4>2. N + 1 \in 1..(N + 1)
        BY <1>4
      <4> QED
        BY <2>5, <2>7, <4>1, <4>2
    <3> QED
      BY <2>5, <3>1, <3>2, <3>3 DEF Positions
  <2>10. Chain(q, gs, s)
    <3>1. ASSUME NEW k \in 1..(N + 1) PROVE gs[q[k]].base = s.tx[k].saved /\ s.tx[k].saved \subseteq s.data
      <4>1. CASE k = N + 1
        BY <2>1, <2>2, <2>4, <2>5, <4>1
      <4>2. CASE k \in 1..N
        <5>1. q[k] = p[k] /\ gs[p[k]] = frames[p[k]]
          BY <2>4, <2>5, <2>8, <4>2
        <5>2. frames[p[k]].base = store.tx[k].saved /\ store.tx[k].saved \subseteq store.data
          BY <1>4, <4>2 DEF Chain
        <5> QED
          BY <2>1, <4>2, <5>1, <5>2
      <4> QED
        BY <2>6, <4>1, <4>2
    <3>2. ASSUME NEW k \in 1..(N + 1), NEW l \in 1..(N + 1), k < l
          PROVE  s.tx[k].saved \subseteq s.tx[l].saved
      <4>1. k \in 1..N
        BY <1>4, <3>2
      <4>2. CASE l = N + 1
        BY <1>4, <2>1, <4>1, <4>2 DEF Chain
      <4>3. CASE l \in 1..N
        BY <1>4, <2>1, <3>2, <4>1, <4>3 DEF Chain
      <4> QED
        BY <2>6, <4>2, <4>3
    <3> QED
      BY <2>1, <2>5, <3>1, <3>2 DEF Chain
  <2> QED
    BY <1>1, <1>4, <2>3, <2>5, <2>9, <2>10 DEF Nested, s, gs
<1> QED
  BY <1>7, <1>8, <1>9

\* What it comes to to end the innermost of N transactions.
LEMMA ClosingIs ==
  ASSUME NEW s \in Store, Ranked(s), NEW N \in Nat \ {0}, Len(s.tx) = N,
         NEW err \in BOOLEAN, NEW p \in RunSql(EndCommand(err, N - 1), s)
  PROVE  \/ ~err /\ p = Outcome(TRUE, Closed(s, N))
         \/ ~err /\ N = 1 /\ p = Outcome(FALSE, s)
         \/ err /\ N = 1 /\ p = Outcome(TRUE, Rolled(s))
         \/ err /\ p = Outcome(TRUE, [Closed(s, N) EXCEPT !.data = s.tx[N].saved])
<1>1. s.tx \in Seq(TxRec) /\ s.tx # <<>>
  BY DEF Store
<1>2. CASE N = 1
  <2>1. EndCommand(err, N - 1) = IF err THEN "ROLLBACK" ELSE "COMMIT"
    BY <1>2 DEF EndCommand
  <2>2. CASE err
    <3>1. p \in RunSql("ROLLBACK", s)
      BY <2>1, <2>2
    <3>2. p = Outcome(TRUE, Rolled(s))
      BY <1>1, <3>1 DEF RunSql
    <3> QED
      BY <1>2, <2>2, <3>2
  <2>3. CASE ~err
    <3>1. p \in RunSql("COMMIT", s)
      BY <2>1, <2>3
    <3>2. p = Outcome(TRUE, Closed(s, 1)) \/ p = Outcome(FALSE, s)
      BY <1>1, <3>1 DEF RunSql
    <3> QED
      BY <1>2, <2>3, <3>2
  <2> QED
    BY <2>2, <2>3
<1>3. CASE N # 1
  <2> DEFINE i == Max(Savepoints(s))
  <2>1. EndCommand(err, N - 1) = IF err THEN "ROLLBACK TO" ELSE "RELEASE"
    <3>1. N - 1 # 0
      BY <1>3
    <3> QED
      BY <3>1, Zenon DEF EndCommand
  <2>2. Savepoints(s) # {}
    <3>1. N \in 2..N /\ N \in 1..N
      BY <1>3
    <3> QED
      BY <3>1 DEF Ranked, Savepoints
  <2>3. i = N
    BY <2>2, LatestSavepoint
  <2> HIDE DEF i
  <2>4. CASE err
    <3>1. p \in RunSql("ROLLBACK TO", s)
      BY <2>1, <2>4
    <3>2. p = Outcome(TRUE, [Closed(s, i) EXCEPT !.data = s.tx[i].saved])
      BY <2>2, <3>1 DEF RunSql, i
    <3> QED
      BY <2>3, <2>4, <3>2
  <2>5. CASE ~err
    <3>1. p \in RunSql("RELEASE", s)
      BY <2>1, <2>5
    <3>2. p = Outcome(TRUE, Closed(s, i)) \/ (i = 1 /\ p = Outcome(FALSE, s))
      BY <2>2, <3>1 DEF RunSql, i
    <3> QED
      BY <1>3, <2>3, <2>5, <3>2
  <2> QED
    BY <2>4, <2>5
<1> QED
  BY <1>2, <1>3

\* The innermost transaction is gone; the data are as they were at its start, or kept.
LEMMA EndIs ==
  ASSUME Inv, db = "open", nTransaction # 0, Len(store.tx) = nTransaction,
         NEW err \in BOOLEAN, NEW o \in EndOutcomes(err)
  PROVE  LET N == nTransaction IN
         /\ Len(o.store.tx) = N - 1
         /\ \A k \in 1..(N - 1) : o.store.tx[k] = store.tx[k]
         /\ o.ok => ~err /\ o.store.data = store.data
         /\ ~o.ok => o.store.data = store.tx[N].saved
<1> DEFINE N == nTransaction
<1>1. store \in Store /\ Ranked(store) /\ store.tx \in Seq(TxRec) /\ N \in Nat \ {0} /\ store.tx # <<>>
  BY DEF Inv, StoreInv, Store
<1>2. PICK p \in RunSql(EndCommand(err, N - 1), store) :
        o = IF p.ok THEN Outcome(~err, p.store) ELSE Outcome(FALSE, Rolled(p.store))
  BY DEF EndOutcomes
<1>3. \/ ~err /\ p = Outcome(TRUE, Closed(store, N))
      \/ ~err /\ N = 1 /\ p = Outcome(FALSE, store)
      \/ err /\ N = 1 /\ p = Outcome(TRUE, Rolled(store))
      \/ err /\ p = Outcome(TRUE, [Closed(store, N) EXCEPT !.data = store.tx[N].saved])
  BY <1>1, <1>2, ClosingIs
<1>4. \A ok \in BOOLEAN : \A r : Outcome(ok, r).ok = ok /\ Outcome(ok, r).store = r
  BY DEF Outcome
<1>5. (~err) \in BOOLEAN
  OBVIOUS
<1> DEFINE c == Closed(store, N)
           r == Rolled(store)
           saved == store.tx[N].saved
           d == [c EXCEPT !.data = saved]
<1>6. /\ c \in Store /\ c.data = store.data /\ Len(c.tx) = N - 1
      /\ \A k \in 1..(N - 1) : c.tx[k] = store.tx[k]
  <2>1. N \in 1..Len(store.tx)
    BY <1>1
  <2> QED
    BY <1>1, <2>1, ClosedIs
<1>7. N = 1 => Len(r.tx) = 0 /\ r.data = saved
  BY <1>1, RolledIs
<1>8. saved \in SUBSET Nat
  <2>1. store.tx[N] \in TxRec
    BY <1>1
  <2> QED
    BY <2>1 DEF TxRec
<1> HIDE DEF c, r, saved
<1>9. d.tx = c.tx /\ d.data = saved
  BY <1>6, <1>8, DataIs
<1> HIDE DEF d
<1>10. CASE ~err /\ p = Outcome(TRUE, c)
  <2>1. o = Outcome(~err, c)
    BY <1>2, <1>4, <1>10
  <2>2. o.ok = ~err /\ o.store = c
    BY <1>4, <1>5, <2>1
  <2> QED
    BY <1>6, <1>10, <2>2
<1>11. CASE ~err /\ N = 1 /\ p = Outcome(FALSE, store)
  <2>1. o = Outcome(FALSE, r)
    BY <1>2, <1>4, <1>11 DEF r
  <2>2. o.ok = FALSE /\ o.store = r
    BY <1>4, <2>1
  <2> QED
    BY <1>7, <1>11, <2>2 DEF saved
<1>12. CASE err /\ N = 1 /\ p = Outcome(TRUE, r)
  <2>1. o = Outcome(~err, r)
    BY <1>2, <1>4, <1>12
  <2>2. o.ok = FALSE /\ o.store = r
    BY <1>4, <1>12, <2>1
  <2>3. N - 1 = 0 /\ \A k \in 1..(N - 1) : FALSE
    BY <1>12
  <2> QED
    BY <1>7, <1>12, <2>2, <2>3 DEF saved
<1>13. CASE err /\ p = Outcome(TRUE, d)
  <2>1. o = Outcome(~err, d)
    BY <1>2, <1>4, <1>13
  <2>2. o.ok = ~err /\ o.store = d
    BY <1>4, <1>5, <2>1
  <2> QED
    BY <1>6, <1>9, <1>13, <2>2 DEF saved
<1> QED
  BY <1>3, <1>10, <1>11, <1>12, <1>13 DEF c, r, d, saved

\* The innermost call of transaction() is the last of the list.
LEMMA LastPosition ==
  ASSUME NEW fs \in Seq(Frame), fs # <<>>, LastOf(fs).kind = "transaction",
         NEW p \in Seq(Nat), Positions(p, Open(fs))
  PROVE  /\ Len(p) \in Nat \ {0} /\ p[Len(p)] = Len(fs)
<1> DEFINE n == Len(fs)
           N == Len(p)
<1>1. n \in Nat /\ n \in 1..n /\ N \in Nat
  OBVIOUS
<1>2. n \in Open(fs)
  BY <1>1 DEF Open, LastOf
<1>3. PICK k \in 1..N : p[k] = n
  BY <1>2 DEF Positions
<1>4. N # 0 /\ N \in 1..N
  BY <1>1, <1>3
<1>5. p[N] \in Open(fs) /\ p[N] \in 1..n
  BY <1>4 DEF Positions, Open
<1>6. k < N => p[k] < p[N]
  BY <1>4 DEF Positions
<1>7. k = N
  BY <1>1, <1>3, <1>5, <1>6
<1> QED
  BY <1>1, <1>3, <1>4, <1>7

\* What the innermost transaction() finds when its function returns.
LEMMA EndFacts ==
  ASSUME Inv, "confused" \notin did, NEW err \in BOOLEAN, TransactionEnds(err),
         NEW p, Nested(p)
  PROVE  /\ frames \in Seq(Frame) /\ frames # <<>> /\ LastOf(frames).kind = "transaction"
         /\ frames' = ButLast(frames) /\ Top = LastOf(frames)
         /\ Len(p) \in Nat \ {0} /\ p[Len(p)] = Len(frames) /\ nTransaction = Len(p)
         /\ db = "open" => /\ Len(store.tx) = Len(p) /\ Top.base = store.tx[Len(p)].saved
                           /\ Top.base \subseteq store.data
         /\ db # "open" => store' = store /\ thrown' = TRUE /\ db \in {"closed", "kept"}
         /\ db # "open" /\ Len(p) = 1 => Top.base = Durable(store)
<1>1. frames # <<>> /\ Top.at = "body"
  BY DEF TransactionEnds, At
<1>2. /\ frames \in Seq(Frame) /\ Top = LastOf(frames) /\ Shape(Top) /\ Shaped(frames)
      /\ db \notin {"freed", "leaked"}
  BY <1>1, TopFacts DEF Inv, CallsInv, Shaped
<1>3. LastOf(frames).kind = "transaction"
  BY <1>1, <1>2 DEF Shape
<1>4. p \in Seq(Nat) /\ Positions(p, Open(frames)) /\ Len(p) = nTransaction
  BY DEF Nested
<1>5. Len(p) \in Nat \ {0} /\ p[Len(p)] = Len(frames)
  BY <1>1, <1>2, <1>3, <1>4, LastPosition
<1>6. Top = frames[p[Len(p)]] /\ Len(p) \in 1..Len(p)
  BY <1>2, <1>5 DEF LastOf
<1>7. frames' = ButLast(frames)
  BY DEF TransactionEnds, Rest, ButLast
<1>8. db = "open" => /\ Len(store.tx) = Len(p) /\ Top.base = store.tx[Len(p)].saved
                     /\ Top.base \subseteq store.data
  BY <1>6 DEF Nested, Chain
<1>9. ASSUME db # "open" PROVE store' = store /\ thrown' = TRUE /\ db \in {"closed", "kept"}
  <2>1. PICK o \in EndOutcomes(err) : store' = o.store /\ thrown' = ~o.ok
    BY DEF TransactionEnds
  <2>2. o = Outcome(FALSE, store)
    BY <1>9, <2>1 DEF EndOutcomes
  <2>3. o.store = store /\ o.ok = FALSE
    BY <2>2 DEF Outcome
  <2> QED
    BY <1>2, <1>9, <2>1, <2>3 DEF Inv, MiscType
<1>10. ASSUME db # "open", Len(p) = 1 PROVE Top.base = Durable(store)
  BY <1>6, <1>9, <1>10 DEF Nested, FirstBase
<1> QED
  BY <1>1, <1>2, <1>3, <1>4, <1>5, <1>7, <1>8, <1>9, <1>10

\* transaction() ends.
LEMMA TransactionEndsNest ==
  ASSUME Inv, NestInv, NEW err \in BOOLEAN, TransactionEnds(err)
  PROVE  NestInv'
<1> DEFINE n == Len(frames)
           gs == frames'
           s == store'
<1>1. db' = db /\ did' = did /\ nTransaction' = nTransaction - 1
  BY DEF TransactionEnds
<1>2. SUFFICES ASSUME "confused" \notin did' PROVE \E q : Nested(q)'
  BY DEF NestInv
<1>3. PICK p : Nested(p)
  BY <1>1, <1>2 DEF NestInv
<1>4. /\ frames \in Seq(Frame) /\ frames # <<>> /\ LastOf(frames).kind = "transaction"
      /\ gs = ButLast(frames) /\ Top = LastOf(frames)
      /\ Len(p) \in Nat \ {0} /\ p[Len(p)] = Len(frames) /\ nTransaction = Len(p)
      /\ db = "open" => /\ Len(store.tx) = Len(p) /\ Top.base = store.tx[Len(p)].saved
                        /\ Top.base \subseteq store.data
      /\ db # "open" => s = store /\ thrown' = TRUE /\ db \in {"closed", "kept"}
  BY <1>1, <1>2, <1>3, EndFacts
<1>5. /\ p \in Seq(Nat) /\ Positions(p, Open(frames))
      /\ db = "open" => Chain(p, frames, store)
      /\ db \in {"closed", "kept"} => FirstBase(p, frames, store)
      /\ db = "kept" /\ Len(p) # 0 => store.tx # <<>>
  BY <1>3 DEF Nested
<1> DEFINE N == Len(p)
           q == SubSeq(p, 1, N - 1)
<1>6. q \in Seq(Nat) /\ Len(q) = N - 1 /\ \A k \in 1..(N - 1) : q[k] = p[k]
  <2>1. N - 1 \in Int /\ \A k \in 1..(N - 1) : p[k] \in Nat
    BY <1>4, <1>5
  <2>2. q \in Seq(Nat) /\ Len(q) = IF 1 <= N - 1 THEN (N - 1) - 1 + 1 ELSE 0
    BY <2>1, SubSeqProperties
  <2>3. \A k \in 1..((N - 1) - 1 + 1) : q[k] = p[1 + k - 1]
    BY <2>1, SubSeqProperties
  <2>4. N \in Nat /\ N >= 1
    BY <1>4
  <2> HIDE DEF N, q
  <2> QED
    BY <2>2, <2>3, <2>4
<1>7. n \in Nat /\ n >= 1 /\ Len(gs) = n - 1 /\ \A i \in 1..(n - 1) : gs[i] = frames[i]
  <2>1. gs = SubSeq(frames, 1, n - 1) /\ n - 1 \in Int /\ \A i \in 1..(n - 1) : frames[i] \in Frame
    BY <1>4 DEF ButLast
  <2>2. Len(gs) = IF 1 <= n - 1 THEN (n - 1) - 1 + 1 ELSE 0
    BY <2>1, SubSeqProperties
  <2>3. \A i \in 1..((n - 1) - 1 + 1) : gs[i] = frames[1 + i - 1]
    BY <2>1, SubSeqProperties
  <2>4. n \in Nat /\ n >= 1
    BY <1>4
  <2> HIDE DEF n, gs
  <2> QED
    BY <2>2, <2>3, <2>4
<1> HIDE DEF q, gs, s
<1>8. \A k \in 1..(N - 1) : k \in 1..N /\ k < N /\ N \in 1..N
  BY <1>4
<1>9. \A k \in 1..(N - 1) : p[k] \in Open(frames) /\ p[k] \in 1..(n - 1)
  <2>1. ASSUME NEW k \in 1..(N - 1) PROVE p[k] \in Open(frames) /\ p[k] \in 1..(n - 1)
    <3>1. p[k] \in Open(frames) /\ p[k] < p[N]
      BY <1>5, <1>8 DEF Positions
    <3>2. p[k] \in 1..n /\ p[k] < n
      BY <1>4, <3>1 DEF Open
    <3> QED
      BY <1>7, <3>1, <3>2
  <2> QED
    BY <2>1
<1>10. Open(gs) = Open(frames) \ {n}
  <2>1. 1..(n - 1) = 1..n \ {n}
    BY <1>7
  <2> QED
    BY <1>7, <2>1 DEF Open
<1>11. Positions(q, Open(gs))
  <2>1. \A k, l \in 1..(N - 1) : k < l => q[k] < q[l]
    BY <1>5, <1>6, <1>8 DEF Positions
  <2>2. \A k \in 1..(N - 1) : q[k] \in Open(gs)
    <3>1. ASSUME NEW k \in 1..(N - 1) PROVE q[k] \in Open(gs)
      <4>1. p[k] # n
        BY <1>7, <1>9
      <4> QED
        BY <1>6, <1>9, <1>10, <4>1
    <3> QED
      BY <3>1
  <2>3. ASSUME NEW i \in Open(gs) PROVE \E k \in 1..(N - 1) : q[k] = i
    <3>1. i \in Open(frames) /\ i # n
      BY <1>10, <2>3
    <3>2. PICK k \in 1..N : p[k] = i
      BY <1>5, <3>1 DEF Positions
    <3>3. k \in 1..(N - 1)
      BY <1>4, <3>1, <3>2
    <3> QED
      BY <1>6, <3>2, <3>3
  <2> QED
    BY <1>6, <2>1, <2>2, <2>3 DEF Positions
<1>12. \A k \in 1..(N - 1) : gs[q[k]].base = frames[p[k]].base
  BY <1>6, <1>7, <1>9
<1>13. ASSUME db = "open" PROVE Chain(q, gs, s)
  <2>1. PICK o \in EndOutcomes(err) : s = o.store
    BY DEF TransactionEnds, s
  <2>2. nTransaction # 0 /\ Len(store.tx) = nTransaction
    BY <1>4, <1>13
  <2>3. /\ Len(o.store.tx) = nTransaction - 1
        /\ \A k \in 1..(nTransaction - 1) : o.store.tx[k] = store.tx[k]
        /\ o.store.data = store.data \/ o.store.data = store.tx[nTransaction].saved
    BY <1>13, <2>2, EndIs
  <2>4. /\ Len(s.tx) = N - 1 /\ \A k \in 1..(N - 1) : s.tx[k] = store.tx[k]
        /\ s.data = store.data \/ s.data = store.tx[N].saved
    BY <1>4, <2>1, <2>3
  <2>5. Chain(p, frames, store)
    BY <1>5, <1>13
  <2>6. ASSUME NEW k \in 1..(N - 1)
        PROVE  gs[q[k]].base = s.tx[k].saved /\ s.tx[k].saved \subseteq s.data
    <3>1. k \in 1..N /\ N \in 1..N /\ k < N
      BY <1>8
    <3>2. /\ frames[p[k]].base = store.tx[k].saved /\ store.tx[k].saved \subseteq store.data
          /\ store.tx[k].saved \subseteq store.tx[N].saved
      BY <2>5, <3>1 DEF Chain
    <3> QED
      BY <1>12, <2>4, <3>2
  <2>7. \A k, l \in 1..(N - 1) : k < l => s.tx[k].saved \subseteq s.tx[l].saved
    BY <1>8, <2>4, <2>5 DEF Chain
  <2> QED
    BY <1>6, <2>4, <2>6, <2>7 DEF Chain
<1>14. ASSUME db \in {"closed", "kept"} PROVE FirstBase(q, gs, s) /\ (Len(q) # 0 => s.tx # <<>> \/ db = "closed")
  <2>1. s = store
    BY <1>4, <1>14
  <2>2. Len(q) # 0 => 1 \in 1..(N - 1)
    BY <1>4, <1>6
  <2>3. Len(p) # 0
    BY <1>4
  <2> QED
    BY <1>5, <1>12, <1>14, <2>1, <2>2, <2>3 DEF FirstBase
<1>15. Len(q) = nTransaction'
  BY <1>1, <1>4, <1>6
<1> QED
  BY <1>1, <1>6, <1>11, <1>13, <1>14, <1>15 DEF Nested, gs, s

NestedInv == Inv /\ NestInv /\ ClosedInv

LEMMA InitNested == Init => NestedInv
<1>1. SUFFICES ASSUME Init PROVE NestedInv
  OBVIOUS
<1> DEFINE p == <<>>
<1>2. p \in Seq(Nat) /\ Len(p) = 0
  OBVIOUS
<1>3. Len(store.tx) = 0 /\ db = "open" /\ nTransaction = 0 /\ Open(frames) = {}
  BY <1>1 DEF Init, Open
<1> HIDE DEF p
<1>4. Nested(p)
  BY <1>2, <1>3 DEF Nested, Positions, Chain
<1> QED
  BY <1>1, <1>3, <1>4, InitInv DEF NestedInv, NestInv, ClosedInv

LEMMA NextNested ==
  ASSUME NestedInv, [Next]_vars
  PROVE  NestedInv'
<1>1. Inv /\ NestInv /\ ClosedInv
  BY DEF NestedInv
<1>2. Inv'
  BY <1>1, NextInv, StutterInv
<1>3. ASSUME QuietAction PROVE NestInv'
  BY <1>1, <1>3, QuietStep DEF QuietAction
<1>4. CASE UNCHANGED vars
  <2>1. ClosedInv'
    BY <1>1, <1>4 DEF ClosedInv, vars
  <2> QED
    BY <1>2, <1>3, <1>4, <2>1, OtherQuiet DEF NestedInv
<1>5. CASE Next
  <2>1. ClosedInv'
    BY <1>1, <1>5, ClosedStep
  <2>2. ASSUME NEW t \in Texts, NEW mode \in Modes, NEW limit \in Limits, NEW nocache \in BOOLEAN,
               \/ Exec(t, mode, limit, nocache) \/ DbOptSelect(t, limit, nocache)
               \/ OneColumn(t, nocache) \/ Exists(t, nocache)
        PROVE  NestInv'
    <3>1. mode \in Mode /\ "rows" \in Mode /\ limit \in Nat /\ 0 \in Nat /\ 1 \in Nat
      BY DEF Mode
    <3>2. \E m \in Mode, l \in Nat : Query(t, m, l, nocache)
      BY <2>2, <3>1 DEF Exec, DbOptSelect, OneColumn, Exists
    <3> QED
      BY <1>1, <1>3, <3>2, QueryQuiet
  <2>3. QueryAction => NestInv'
    BY <1>1, <1>3, QueryActionQuiet
  <2>4. ASSUME NEW n \in 1..2, NEW k \in 1..(n + 1), NEW begin \in BOOLEAN, NEW discard \in BOOLEAN,
               DbExecBinds(RecordText, n, k, begin, discard)
        PROVE  NestInv'
    BY <1>1, <1>3, <2>4, DbExecBindsQuiet
  <2>5. ASSUME NEW n \in 1..2, NEW k \in 1..(n + 1), Import(n, k) PROVE NestInv'
    BY <1>1, <1>3, <2>5, ImportQuiet
  <2>6. ASSUME NEW t \in Texts, NEW k \in 1..(Len(t) + 1), Evaluate(t, k) PROVE NestInv'
    BY <1>1, <1>3, <2>6, EvaluateQuiet
  <2>7. CacheFlush \/ (\E n \in Sizes : CacheSize(n)) \/ DbDelete => NestInv'
    BY <1>3, OtherQuiet
  <2>8. ASSUME NEW typed \in BOOLEAN, Transaction(typed) PROVE NestInv'
    BY <1>1, <2>8, TransactionNest
  <2>9. ASSUME NEW err \in BOOLEAN, TransactionEnds(err) PROVE NestInv'
    BY <1>1, <2>9, TransactionEndsNest
  <2>10. Close => NestInv'
    BY <1>1, CloseNest
  <2>11. NestInv'
    BY <1>5, <2>2, <2>3, <2>4, <2>5, <2>6, <2>7, <2>8, <2>9, <2>10 DEF Next, QueryAction
  <2> QED
    BY <1>2, <2>1, <2>11 DEF NestedInv
<1> QED
  BY <1>4, <1>5

LEMMA SpecNested == Spec => []NestedInv
  BY InitNested, NextNested, PTL DEF Spec

\* transaction() counts the transactions that are open, unless one was begun or ended
\* by other means in it.
THEOREM DepthCounted == Spec => []TransactionDepth
<1>1. NestedInv => TransactionDepth
  <2>1. SUFFICES ASSUME NestedInv PROVE TransactionDepth
    OBVIOUS
  <2>2. nTransaction = Cardinality({i \in 1..Len(frames) : frames[i].kind = "transaction"})
    BY <2>1 DEF NestedInv, Inv, CallsInv, Open
  <2>3. ASSUME db = "open", "confused" \notin did PROVE Len(store.tx) = nTransaction
    <3>1. PICK p : Nested(p)
      BY <2>1, <2>3 DEF NestedInv, NestInv
    <3> QED
      BY <2>3, <3>1 DEF Nested, Chain
  <2> QED
    BY <2>2, <2>3 DEF TransactionDepth
<1> QED
  BY SpecNested, <1>1, PTL

\* A transaction that throws leaves the data as they were; one that returns has kept
\* all that was written in it.
THEOREM TransactionsAtomic == Spec => TransactionAtomic
<1> DEFINE A(err) ==
      TransactionEnds(err) /\ "confused" \notin did =>
        IF thrown' THEN /\ db = "open" => store'.data = Top.base
                        /\ nTransaction' = 0 => Durable(store') = Top.base
        ELSE ~err /\ store'.data = store.data /\ Top.base \subseteq store'.data
<1>1. ASSUME NestedInv, NEW err \in BOOLEAN PROVE A(err)
  <2>1. SUFFICES ASSUME TransactionEnds(err), "confused" \notin did
                 PROVE  IF thrown' THEN /\ db = "open" => store'.data = Top.base
                                        /\ nTransaction' = 0 => Durable(store') = Top.base
                        ELSE ~err /\ store'.data = store.data /\ Top.base \subseteq store'.data
    OBVIOUS
  <2>2. Inv /\ \E p : Nested(p)
    BY <1>1, <2>1 DEF NestedInv, NestInv
  <2>3. PICK p : Nested(p)
    BY <2>2
  <2>4. /\ Len(p) \in Nat \ {0} /\ nTransaction = Len(p)
        /\ db = "open" => /\ Len(store.tx) = Len(p) /\ Top.base = store.tx[Len(p)].saved
                          /\ Top.base \subseteq store.data
        /\ db # "open" => store' = store /\ thrown' = TRUE /\ db \in {"closed", "kept"}
        /\ db # "open" /\ Len(p) = 1 => Top.base = Durable(store)
    BY <2>1, <2>2, <2>3, EndFacts
  <2>5. nTransaction' = nTransaction - 1
    BY <2>1 DEF TransactionEnds
  <2>6. PICK o \in EndOutcomes(err) : store' = o.store /\ thrown' = ~o.ok
    BY <2>1 DEF TransactionEnds
  <2>7. CASE db # "open"
    <3>1. nTransaction' = 0 => Len(p) = 1
      BY <2>4, <2>5
    <3> QED
      BY <2>4, <2>7, <3>1
  <2>8. CASE db = "open"
    <3>1. nTransaction # 0 /\ Len(store.tx) = nTransaction
      BY <2>4, <2>8
    <3>2. /\ Len(o.store.tx) = nTransaction - 1
          /\ o.ok => ~err /\ o.store.data = store.data
          /\ ~o.ok => o.store.data = store.tx[nTransaction].saved
      BY <2>2, <2>8, <3>1, EndIs
    <3>3. o.store \in Store
      BY <2>2, EndOutcomesType
    <3>4. CASE o.ok
      <4>1. ~err /\ store'.data = store.data /\ Top.base \subseteq store.data
        BY <2>4, <2>6, <2>8, <3>2, <3>4
      <4>2. thrown' = FALSE
        BY <2>6, <3>4
      <4> QED
        BY <4>1, <4>2
    <3>5. CASE ~o.ok
      <4>1. store'.data = Top.base
        BY <2>4, <2>6, <2>8, <3>2, <3>5
      <4>2. nTransaction' = 0 => Durable(store') = store'.data
        <5>1. ASSUME nTransaction' = 0 PROVE store'.tx = <<>>
          <6>1. store'.tx \in Seq(TxRec) /\ Len(store'.tx) = 0
            BY <2>5, <2>6, <3>2, <3>3, <5>1 DEF Store
          <6> QED
            BY <6>1
        <5> QED
          BY <5>1 DEF Durable, Rolled
      <4>3. thrown' = TRUE
        BY <2>6, <3>5
      <4> QED
        BY <4>1, <4>2, <4>3
    <3> QED
      BY <3>4, <3>5
  <2> QED
    BY <2>7, <2>8
<1>2. NestedInv /\ [Next]_vars => [\A err \in BOOLEAN : A(err)]_vars
  BY <1>1
<1> QED
  BY SpecNested, <1>2, PTL DEF Spec, TransactionAtomic
=============================================================================
