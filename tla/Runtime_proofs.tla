--------------------------- MODULE Runtime_proofs ---------------------------
(***************************************************************************)
(* Proofs about two parts of the runtime: shared libraries and the objects *)
(* of their classes, for every set of files and names and every number of  *)
(* objects; and exec(), for every list of commands, every set of           *)
(* descriptors that the program has and every number of descriptors and    *)
(* processes.                                                              *)
(***************************************************************************)
EXTENDS Extensions, ExecPipeline, SequenceTheorems, FiniteSetTheorems, WellFoundedInduction, TLAPS

-----------------------------------------------------------------------------
(* Shared libraries: the inductive invariant.                              *)

Holders == {"vars", "event", "itself"}
Object == [is : {"none", "live", "freed"}, class : Names \cup {""}, idx : Nat,
           holders : SUBSET Holders, entry : BOOLEAN, data : {"none", "live", "freed"}]
Initings == [file : Files, class : BOOLEAN, fails : BOOLEAN]

\* The shape of the rest of the state.
Shape ==
    /\ opened \in [Files -> Int] /\ again \in [Files -> Nat]
    /\ loading \in Seq(Initings)
    /\ IsFiniteSet(DOMAIN loadTbl)
    /\ \A n \in DOMAIN loadTbl : loadTbl[n] \in Files
    /\ \A n \in DOMAIN userdataTbl : userdataTbl[n] \in Files

\* How often a file is recorded, and how often its Init runs.
Recorded(f) == {n \in DOMAIN loadTbl : loadTbl[n] = f}
Inits(f) == {i \in DOMAIN loading : loading[i].file = f}

\* What registered something is open until the libraries are closed.
Registered(f) == f \in cmds \/ \E n \in DOMAIN userdataTbl : userdataTbl[n] = f
RegisteredOpen ==
    stage # "done" /\ "failed" \notin slips => \A f \in Files : Registered(f) => opened[f] > 0

\* The class of an object is registered, and its index was given out.
ClassesKnown ==
    \A o \in Ids :
        IF userobj[o].is = "none" THEN userobj[o].idx = 0 /\ userobj[o].data = "none"
        ELSE /\ userobj[o].class \in DOMAIN userdataTbl
             /\ userobj[o].idx \in 1..counter[userobj[o].class]

\* An object that is alive has its entry until the classes are deleted; one that is alive
\* after that and that an event holds was seen then.
EntriesThere ==
    /\ stage \in {"running", "userdata"} =>
          \A o \in Ids : userobj[o].is = "live" => userobj[o].entry
    /\ stage = "events" /\ "kept" \notin slips =>
          \A o \in Ids : userobj[o].is = "live" => "event" \notin userobj[o].holders

IInv == /\ TypeOK /\ Shape /\ LibrariesOpen /\ RegisteredOpen
        /\ userobj \in [Ids -> Object] /\ ObjectsNamed /\ ClassesKnown /\ EntriesThere /\ NothingGone

\* What is said of the libraries.
Libraries ==
    /\ \A f \in Files :
          opened[f] = Cardinality(Recorded(f)) + Cardinality(Inits(f)) + again[f]
    /\ \A n \in DOMAIN loadTbl : NameOf[loadTbl[n]] = n
    /\ RegisteredOpen

LEMMA LibrariesMean ==
  LibrariesOpen /\ RegisteredOpen <=> Libraries
  BY DEF LibrariesOpen, Libraries, RegisteredOpen, Registered, Recorded, Inits

-----------------------------------------------------------------------------
(* Counting how often a library is open.                                   *)

LEMMA CountsFinite ==
  ASSUME Shape, NEW f
  PROVE  /\ IsFiniteSet(Recorded(f)) /\ Cardinality(Recorded(f)) \in Nat
         /\ IsFiniteSet(Inits(f)) /\ Cardinality(Inits(f)) \in Nat
<1>1. IsFiniteSet(DOMAIN loadTbl) /\ Recorded(f) \subseteq DOMAIN loadTbl
  BY DEF Shape, Recorded
<1>2. DOMAIN loading = 1..Len(loading) /\ Len(loading) \in Int /\ 1 \in Int
  BY DEF Shape
<1>3. IsFiniteSet(1..Len(loading)) /\ Inits(f) \subseteq 1..Len(loading)
  BY <1>2, FS_Interval DEF Inits
<1> QED
  BY <1>1, <1>3, FS_Subset, FS_CardinalityType

LEMMA LastLoading ==
  ASSUME Shape, loading # <<>>
  PROVE  /\ Len(loading) \in Nat \ {0} /\ Last(loading) = loading[Len(loading)]
         /\ Last(loading) \in Initings /\ Last(loading).file \in Files
         /\ Len(loading) \in Inits(Last(loading).file)
<1>1. loading \in Seq(Initings) /\ Len(loading) \in Nat \ {0}
  BY DEF Shape
<1>2. Last(loading) = loading[Len(loading)] /\ Len(loading) \in DOMAIN loading
  BY <1>1 DEF Last
<1>3. Last(loading) \in Initings
  BY <1>1, <1>2
<1> QED
  BY <1>1, <1>2, <1>3 DEF Inits, Initings

LEMMA FrontOf ==
  ASSUME NEW S, NEW q \in Seq(S), q # <<>>
  PROVE  /\ Front(q) \in Seq(S) /\ Len(Front(q)) = Len(q) - 1
         /\ \A k \in 1..(Len(q) - 1) : Front(q)[k] = q[k]
<1> DEFINE n == Len(q)
<1>1. n \in Nat \ {0}
  OBVIOUS
<1>2. n - 1 \in Int /\ 1 \in Int /\ \A i \in 1..(n - 1) : q[i] \in S
  BY <1>1
<1>3. /\ SubSeq(q, 1, n - 1) \in Seq(S)
      /\ Len(SubSeq(q, 1, n - 1)) = IF 1 <= n - 1 THEN n - 1 - 1 + 1 ELSE 0
      /\ \A i \in 1..(n - 1 - 1 + 1) : SubSeq(q, 1, n - 1)[i] = q[1 + i - 1]
  BY <1>2, SubSeqProperties
<1>4. Front(q) = SubSeq(q, 1, n - 1)
  BY DEF Front
<1> HIDE DEF n
<1>5. Len(Front(q)) = n - 1
  BY <1>1, <1>3, <1>4
<1>6. \A k \in 1..(n - 1) : Front(q)[k] = q[k]
  BY <1>1, <1>3, <1>4
<1> QED
  BY <1>3, <1>4, <1>5, <1>6 DEF n

LEMMA InitsMore ==
  ASSUME Shape, NEW r \in Initings, loading' = Append(loading, r)
  PROVE  /\ loading' \in Seq(Initings)
         /\ Cardinality(Inits(r.file)') = Cardinality(Inits(r.file)) + 1
         /\ \A f : f # r.file => Inits(f)' = Inits(f)
<1> DEFINE n == Len(loading)
<1>1. loading \in Seq(Initings) /\ n \in Nat
  BY DEF Shape
<1>2. /\ loading' \in Seq(Initings) /\ Len(loading') = n + 1 /\ loading'[n + 1] = r
      /\ \A k \in 1..n : loading'[k] = loading[k]
  BY <1>1
<1>3. DOMAIN loading = 1..n /\ DOMAIN loading' = (1..n) \cup {n + 1} /\ n + 1 \notin 1..n
  BY <1>1, <1>2
<1> HIDE DEF n
<1>4. Inits(r.file)' = Inits(r.file) \cup {n + 1} /\ n + 1 \notin Inits(r.file)
  BY <1>2, <1>3 DEF Inits
<1>5. \A f : f # r.file => Inits(f)' = Inits(f)
  BY <1>2, <1>3 DEF Inits
<1> QED
  BY <1>2, <1>4, <1>5, CountsFinite, FS_AddElement

LEMMA InitsLess ==
  ASSUME Shape, loading # <<>>, loading' = Front(loading), NEW g, g = Last(loading).file
  PROVE  /\ loading' \in Seq(Initings)
         /\ Cardinality(Inits(g)') = Cardinality(Inits(g)) - 1
         /\ \A f : f # g => Inits(f)' = Inits(f)
<1> DEFINE n == Len(loading)
<1>1. loading \in Seq(Initings) /\ n \in Nat \ {0} /\ loading[n].file = g /\ n \in Inits(g)
  BY LastLoading DEF Shape
<1>2. /\ loading' \in Seq(Initings) /\ Len(loading') = n - 1
      /\ \A k \in 1..(n - 1) : loading'[k] = loading[k]
  BY <1>1, FrontOf
<1>3. /\ DOMAIN loading = (1..(n - 1)) \cup {n} /\ DOMAIN loading' = 1..(n - 1)
      /\ n \notin 1..(n - 1)
  BY <1>1, <1>2
<1> HIDE DEF n
<1>4. \A f : Inits(f)' = Inits(f) \ {n}
  BY <1>2, <1>3 DEF Inits
<1>5. Cardinality(Inits(g) \ {n}) = Cardinality(Inits(g)) - 1
  BY <1>1, CountsFinite, FS_RemoveElement
<1>6. \A f : f # g => n \notin Inits(f)
  BY <1>1 DEF Inits
<1> QED
  BY <1>2, <1>4, <1>5, <1>6

\* The innermost Init goes on, in the same file.
LEMMA InitsSame ==
  ASSUME Shape, loading # <<>>, NEW r \in Initings, r.file = Last(loading).file,
         loading' = Append(Front(loading), r)
  PROVE  /\ loading' \in Seq(Initings)
         /\ \A f : Inits(f)' = Inits(f)
<1> DEFINE n == Len(loading)
           h == Front(loading)
<1>1. loading \in Seq(Initings) /\ n \in Nat \ {0} /\ loading[n].file = r.file
  BY LastLoading DEF Shape
<1>2. /\ h \in Seq(Initings) /\ Len(h) = n - 1
      /\ \A k \in 1..(n - 1) : h[k] = loading[k]
  BY <1>1, FrontOf
<1> HIDE DEF h
<1>3. /\ loading' \in Seq(Initings) /\ Len(loading') = n /\ loading'[n] = r
      /\ \A k \in 1..(n - 1) : loading'[k] = h[k]
  BY <1>1, <1>2 DEF h
<1>4. /\ DOMAIN loading = (1..(n - 1)) \cup {n}
      /\ DOMAIN loading' = (1..(n - 1)) \cup {n}
  BY <1>1, <1>3
<1> HIDE DEF n
<1> QED
  BY <1>1, <1>2, <1>3, <1>4 DEF Inits

-----------------------------------------------------------------------------
(* Libraries: one lemma for each step.                                     *)

Sound == TypeOK /\ Shape /\ Libraries

\* A library that runs its Init is open.
LEMMA InitsOpen ==
  ASSUME Sound, loading # <<>>
  PROVE  opened[Last(loading).file] > 0
<1> DEFINE f == Last(loading).file
<1>1. f \in Files /\ Inits(f) # {}
  BY LastLoading DEF Sound
<1>2. /\ IsFiniteSet(Inits(f)) /\ Cardinality(Inits(f)) \in Nat
      /\ Cardinality(Recorded(f)) \in Nat
  BY CountsFinite DEF Sound
<1>3. Cardinality(Inits(f)) # 0
  BY <1>1, <1>2, FS_EmptySet
<1>4. opened[f] = Cardinality(Recorded(f)) + Cardinality(Inits(f)) + again[f]
      /\ again[f] \in Nat
  BY <1>1 DEF Sound, Libraries, Shape
<1> HIDE DEF f
<1>5. opened[f] > 0
  BY <1>2, <1>3, <1>4
<1> QED
  BY <1>5 DEF f

LEMMA LoadLibrarySound ==
  ASSUME Sound, NEW f \in Files, LoadLibrary(f)
  PROVE  Sound'
<1> USE DEF Sound
<1>1. /\ opened' = [opened EXCEPT ![f] = @ + 1]
      /\ UNCHANGED <<loadTbl, cmds, userdataTbl, userobj, counter, stage, slips>>
      /\ \/ again' = [again EXCEPT ![f] = @ + 1] /\ UNCHANGED loading
         \/ /\ loading' = Append(loading, [file |-> f, class |-> FALSE, fails |-> FALSE])
            /\ UNCHANGED again
  BY DEF LoadLibrary, objectVars
<1>2. /\ opened' \in [Files -> Int] /\ opened'[f] = opened[f] + 1 /\ opened[f] \in Int
      /\ \A g \in Files : g # f => opened'[g] = opened[g]
  BY <1>1 DEF Shape
<1>3. \A g : Recorded(g)' = Recorded(g)
  BY <1>1 DEF Recorded
<1>4. /\ again' \in [Files -> Nat] /\ loading' \in Seq(Initings)
      /\ \A g \in Files : opened'[g] = Cardinality(Recorded(g)) + Cardinality(Inits(g)')
                                         + again'[g]
  <2>0. \A g \in Files : /\ Cardinality(Recorded(g)) \in Nat /\ Cardinality(Inits(g)) \in Nat
                         /\ again[g] \in Nat
                         /\ opened[g] = Cardinality(Recorded(g)) + Cardinality(Inits(g)) + again[g]
    BY CountsFinite DEF Shape, Libraries
  <2>1. CASE again' = [again EXCEPT ![f] = @ + 1] /\ UNCHANGED loading
    <3>1. /\ again' \in [Files -> Nat] /\ again'[f] = again[f] + 1
          /\ \A g \in Files : g # f => again'[g] = again[g]
      BY <2>1 DEF Shape
    <3>2. \A g : Inits(g)' = Inits(g)
      BY <2>1 DEF Inits
    <3>3. opened'[f] = Cardinality(Recorded(f)) + Cardinality(Inits(f)) + again'[f]
      BY <2>0, <3>1, <1>2
    <3>4. \A g \in Files : g # f =>
            opened'[g] = Cardinality(Recorded(g)) + Cardinality(Inits(g)) + again'[g]
      BY <2>0, <3>1, <1>2
    <3>5. loading' \in Seq(Initings)
      BY <2>1 DEF Shape
    <3> QED
      BY <3>1, <3>2, <3>3, <3>4, <3>5
  <2>2. CASE /\ loading' = Append(loading, [file |-> f, class |-> FALSE, fails |-> FALSE])
             /\ UNCHANGED again
    <3> DEFINE r == [file |-> f, class |-> FALSE, fails |-> FALSE]
    <3>1. r \in Initings /\ r.file = f
      BY DEF Initings
    <3> HIDE DEF r
    <3>2. loading' = Append(loading, r)
      BY <2>2 DEF r
    <3>3. /\ loading' \in Seq(Initings)
          /\ Cardinality(Inits(f)') = Cardinality(Inits(f)) + 1
          /\ \A g : g # f => Inits(g)' = Inits(g)
      BY <3>1, <3>2, InitsMore
    <3>4. opened'[f] = Cardinality(Recorded(f)) + Cardinality(Inits(f)') + again[f]
      BY <2>0, <3>3, <1>2
    <3>5. \A g \in Files : g # f =>
            opened'[g] = Cardinality(Recorded(g)) + Cardinality(Inits(g)') + again[g]
      BY <2>0, <3>3, <1>2
    <3>6. again' = again /\ again' \in [Files -> Nat]
      BY <2>2 DEF Shape
    <3> QED
      BY <3>3, <3>4, <3>5, <3>6
  <2> QED
    BY <2>1, <2>2, <1>1
<1>5. TypeOK' /\ Shape'
  BY <1>1, <1>2, <1>4 DEF TypeOK, Shape
<1>6. RegisteredOpen'
  <2>1. \A g \in Files : opened[g] > 0 => opened'[g] > 0
    BY <1>2
  <2> QED
    BY <1>1, <2>1 DEF Libraries, RegisteredOpen, Registered
<1> QED
  BY <1>1, <1>3, <1>4, <1>5, <1>6 DEF Libraries

LEMMA UserObjRegisterSound ==
  ASSUME Sound, UserObjRegister
  PROVE  Sound'
<1> USE DEF Sound
<1> DEFINE f == Last(loading).file
           there == Class \in DOMAIN userdataTbl
           r == [Last(loading) EXCEPT !.class = TRUE, !.fails = there]
<1>1. /\ loading # <<>> /\ loading' = Append(Front(loading), r)
      /\ userdataTbl' = IF Class \in DOMAIN userdataTbl THEN userdataTbl
                         ELSE Put(userdataTbl, Class, f)
      /\ UNCHANGED <<opened, loadTbl, cmds, again, userobj, counter, stage, slips>>
  BY DEF UserObjRegister, Initing, objectVars
<1>2. f \in Files /\ Class = NameOf[f] /\ Class \in Names /\ opened[f] > 0
  BY <1>1, LastLoading, InitsOpen DEF Class, Names
<1>3. r \in Initings /\ r.file = f
  <2>1. there \in BOOLEAN
    OBVIOUS
  <2> HIDE DEF there
  <2>2. Last(loading) \in Initings
    BY <1>1, LastLoading
  <2> QED
    BY <2>1, <2>2 DEF Initings
<1> HIDE DEF r, f
<1>4. loading' \in Seq(Initings) /\ \A g : Inits(g)' = Inits(g)
  BY <1>1, <1>3, InitsSame DEF f
<1>5. \A g : Recorded(g)' = Recorded(g)
  BY <1>1 DEF Recorded
<1>6. /\ DOMAIN userdataTbl' \subseteq Names
      /\ \A n \in DOMAIN userdataTbl' :
           \/ userdataTbl'[n] = f
           \/ n \in DOMAIN userdataTbl /\ userdataTbl'[n] = userdataTbl[n]
  BY <1>1, <1>2 DEF Put, TypeOK
<1>7. TypeOK' /\ Shape'
  BY <1>1, <1>2, <1>4, <1>6 DEF TypeOK, Shape
<1>8. RegisteredOpen'
  BY <1>1, <1>2, <1>6 DEF Libraries, RegisteredOpen, Registered
<1> QED
  BY <1>1, <1>4, <1>5, <1>7, <1>8 DEF Libraries

LEMMA CommandCreateSpecsSound ==
  ASSUME Sound, CommandCreateSpecs
  PROVE  Sound'
<1> USE DEF Sound
<1>1. /\ loading # <<>> /\ cmds' = cmds \cup {Last(loading).file}
      /\ UNCHANGED <<opened, loadTbl, userdataTbl, loading, again, userobj, counter, stage, slips>>
  BY DEF CommandCreateSpecs, Initing, objectVars
<1>2. Last(loading).file \in Files /\ opened[Last(loading).file] > 0
  BY <1>1, LastLoading, InitsOpen
<1>3. \A g : Recorded(g)' = Recorded(g) /\ Inits(g)' = Inits(g)
  BY <1>1 DEF Recorded, Inits
<1>4. TypeOK' /\ Shape'
  BY <1>1, <1>2 DEF TypeOK, Shape
<1>5. RegisteredOpen'
  BY <1>1, <1>2 DEF Libraries, RegisteredOpen, Registered
<1> QED
  BY <1>1, <1>3, <1>4, <1>5 DEF Libraries

\* A library that was loaded is recorded; one that failed, or was loaded meanwhile, is
\* closed once.
LEMMA InitReturnsSound ==
  ASSUME Sound, NEW ok \in BOOLEAN, InitReturns(ok)
  PROVE  Sound'
<1> USE DEF Sound
<1>0. SUFFICES ASSUME NEW f, f = Last(loading).file PROVE Sound'
  OBVIOUS
<1>1. /\ loading # <<>> /\ loading' = Front(loading) /\ stage = "running"
      /\ UNCHANGED <<cmds, userdataTbl, again, userobj, counter, stage>>
      /\ \/ /\ Class \notin DOMAIN loadTbl /\ loadTbl' = Put(loadTbl, Class, f)
            /\ UNCHANGED <<opened, slips>>
         \/ /\ opened' = [opened EXCEPT ![f] = @ - 1] /\ UNCHANGED loadTbl
            /\ slips' = IF Registered(f) /\ opened'[f] = 0
                        THEN slips \cup {"failed"} ELSE slips
  BY <1>0 DEF InitReturns, Runs, Dlclose, objectVars, Registered
<1>2. f \in Files /\ Class = NameOf[f] /\ Class \in Names
  BY <1>0, <1>1, LastLoading DEF Class, Names
<1>3. /\ loading' \in Seq(Initings)
      /\ Cardinality(Inits(f)') = Cardinality(Inits(f)) - 1
      /\ \A g : g # f => Inits(g)' = Inits(g)
  BY <1>0, <1>1, InitsLess
<1>4. \A g \in Files : /\ Cardinality(Recorded(g)) \in Nat /\ Cardinality(Inits(g)) \in Nat
                       /\ again[g] \in Nat /\ again'[g] = again[g]
                       /\ opened[g] = Cardinality(Recorded(g)) + Cardinality(Inits(g)) + again[g]
  BY <1>1, CountsFinite DEF Shape, Libraries
<1>5. opened[f] > 0
  BY <1>0, <1>1, InitsOpen
<1>6. CASE /\ Class \notin DOMAIN loadTbl /\ loadTbl' = Put(loadTbl, Class, f)
           /\ UNCHANGED <<opened, slips>>
  <2>1. SUFFICES ASSUME NEW c, c = Class PROVE Sound'
    OBVIOUS
  <2>2. /\ DOMAIN loadTbl' = DOMAIN loadTbl \cup {c} /\ c \notin DOMAIN loadTbl
        /\ loadTbl'[c] = f /\ \A n \in DOMAIN loadTbl : loadTbl'[n] = loadTbl[n]
    BY <1>6, <2>1 DEF Put
  <2>3. Cardinality(Recorded(f)') = Cardinality(Recorded(f)) + 1
    <3>1. Recorded(f)' = Recorded(f) \cup {c} /\ c \notin Recorded(f)
      BY <2>2 DEF Recorded
    <3> QED
      BY <3>1, CountsFinite, FS_AddElement
  <2>4. \A g : g # f => Recorded(g)' = Recorded(g)
    BY <2>2 DEF Recorded
  <2>5. \A g \in Files : opened'[g] = Cardinality(Recorded(g)') + Cardinality(Inits(g)')
                                       + again'[g]
    <3>1. opened'[f] = Cardinality(Recorded(f)') + Cardinality(Inits(f)') + again'[f]
      BY <1>2, <1>3, <1>4, <1>6, <2>3
    <3>2. \A g \in Files : g # f =>
            opened'[g] = Cardinality(Recorded(g)') + Cardinality(Inits(g)') + again'[g]
      BY <1>3, <1>4, <1>6, <2>4
    <3> QED
      BY <3>1, <3>2
  <2>6. IsFiniteSet(DOMAIN loadTbl') /\ \A n \in DOMAIN loadTbl' : loadTbl'[n] \in Files
    BY <2>2, <1>2, FS_AddElement DEF Shape
  <2>7. \A n \in DOMAIN loadTbl' : NameOf[loadTbl'[n]] = n
    BY <2>1, <2>2, <1>2 DEF Libraries
  <2>8. TypeOK' /\ Shape'
    BY <1>1, <1>2, <1>3, <1>6, <2>1, <2>2, <2>6 DEF TypeOK, Shape
  <2>9. RegisteredOpen'
    BY <1>1, <1>6 DEF Libraries, RegisteredOpen, Registered
  <2> QED
    BY <2>5, <2>7, <2>8, <2>9 DEF Libraries
<1>7. CASE /\ opened' = [opened EXCEPT ![f] = @ - 1] /\ UNCHANGED loadTbl
           /\ slips' = IF Registered(f) /\ opened'[f] = 0
                       THEN slips \cup {"failed"} ELSE slips
  <2>1. /\ opened' \in [Files -> Int] /\ opened'[f] = opened[f] - 1 /\ opened[f] \in Int
        /\ \A g \in Files : g # f => opened'[g] = opened[g]
    BY <1>2, <1>7 DEF Shape
  <2>2. \A g : Recorded(g)' = Recorded(g)
    BY <1>7 DEF Recorded
  <2>3. \A g \in Files : opened'[g] = Cardinality(Recorded(g)) + Cardinality(Inits(g)')
                                       + again'[g]
    <3>1. opened'[f] = Cardinality(Recorded(f)) + Cardinality(Inits(f)') + again'[f]
      BY <1>2, <1>3, <1>4, <2>1
    <3>2. \A g \in Files : g # f =>
            opened'[g] = Cardinality(Recorded(g)) + Cardinality(Inits(g)') + again'[g]
      BY <1>3, <1>4, <2>1
    <3> QED
      BY <3>1, <3>2
  <2>4. TypeOK' /\ Shape'
    BY <1>1, <1>3, <1>7, <2>1 DEF TypeOK, Shape
  <2>5. RegisteredOpen'
    <3>1. \A g : Registered(g)' = Registered(g)
      BY <1>1 DEF Registered
    <3>2. "failed" \notin slips' =>
            "failed" \notin slips /\ (Registered(f) => opened'[f] > 0)
      BY <1>5, <1>7, <2>1
    <3> QED
      BY <1>1, <2>1, <3>1, <3>2 DEF Libraries, RegisteredOpen
  <2> QED
    BY <1>7, <2>2, <2>3, <2>4, <2>5 DEF Libraries
<1> QED
  BY <1>1, <1>6, <1>7

LEMMA LibrariesSame ==
  ASSUME Sound, UNCHANGED <<opened, loadTbl, userdataTbl, loading, again>>, cmds' \subseteq cmds,
         counter' \in [Names -> Nat], stage' \in {"running", "userdata", "events", "loads", "done"},
         stage' = "done" \/ stage # "done", "failed" \in slips => "failed" \in slips'
  PROVE  Sound'
<1> USE DEF Sound
<1>1. \A g : /\ Recorded(g)' = Recorded(g) /\ Inits(g)' = Inits(g)
             /\ Registered(g)' => Registered(g)
  BY DEF Recorded, Inits, Registered
<1>2. TypeOK' /\ Shape'
  BY DEF TypeOK, Shape
<1>3. RegisteredOpen'
  BY <1>1 DEF Libraries, RegisteredOpen
<1> QED
  BY <1>1, <1>2, <1>3 DEF Libraries

\* Every library that is recorded is closed once.
LEMMA DeleteLoadsSound ==
  ASSUME Sound, DeleteLoads
  PROVE  Sound'
<1> USE DEF Sound
<1>1. /\ stage' = "done" /\ loadTbl' = <<>>
      /\ opened' = [f \in Files |-> opened[f] - Cardinality(Recorded(f))]
      /\ UNCHANGED <<cmds, userdataTbl, loading, again, userobj, counter, slips>>
  BY DEF DeleteLoads, objectVars, Recorded
<1>2. \A g \in Files : /\ Cardinality(Recorded(g)) \in Nat /\ Cardinality(Inits(g)) \in Nat
                       /\ again[g] \in Nat
                       /\ opened[g] = Cardinality(Recorded(g)) + Cardinality(Inits(g)) + again[g]
  BY CountsFinite DEF Shape, Libraries
<1>3. DOMAIN loadTbl' = {}
  BY <1>1
<1>4. \A g : Cardinality(Recorded(g)') = 0 /\ Inits(g)' = Inits(g)
  <2>1. \A g : Recorded(g)' = {}
    BY <1>3 DEF Recorded
  <2> QED
    BY <2>1, <1>1, FS_EmptySet DEF Inits
<1>5. \A g \in Files : /\ opened'[g] = opened[g] - Cardinality(Recorded(g))
                       /\ opened'[g] = Cardinality(Inits(g)) + again[g]
  BY <1>1, <1>2
<1>6. opened' \in [Files -> Int]
  <2>1. \A g \in Files : opened[g] - Cardinality(Recorded(g)) \in Int
    BY <1>2
  <2> QED
    BY <2>1, <1>1
<1>7. TypeOK' /\ Shape'
  BY <1>1, <1>3, <1>6, FS_EmptySet DEF TypeOK, Shape
<1>8. \A g \in Files : opened'[g] = Cardinality(Recorded(g)') + Cardinality(Inits(g)')
                                     + again'[g]
  BY <1>1, <1>2, <1>4, <1>5
<1> QED
  BY <1>1, <1>3, <1>7, <1>8 DEF Libraries, RegisteredOpen

-----------------------------------------------------------------------------
(* The objects.                                                            *)

Objects == /\ userobj \in [Ids -> Object]
           /\ ObjectsNamed /\ ClassesKnown /\ EntriesThere

\* What a step may do to an object that exists: nobody gets hold of it, it keeps its name,
\* and while it is alive its entry.
Declines(a, b) ==
    /\ b \in Object /\ b.class = a.class /\ b.idx = a.idx
    /\ b.is = "none" <=> a.is = "none"
    /\ b.is = "live" => a.is = "live" /\ b.entry = a.entry /\ b.holders \subseteq a.holders
    /\ b.entry = (b.data = "live")
    /\ b.data = "live" => a.data = "live"
    /\ b.is = "none" => b.data = "none"

LEMMA LetGoDeclines ==
  ASSUME Objects, NEW S, NEW h, LetGo(S, h)
  PROVE  /\ userobj' \in [Ids -> Object]
         /\ \A o \in Ids : Declines(userobj[o], userobj'[o])
         /\ \A o \in Ids : o \in S /\ userobj'[o].is = "live" => h \notin userobj'[o].holders
<1> DEFINE loses == {o \in S : userobj[o].is = "live" /\ h \in userobj[o].holders}
           last == {o \in loses : userobj[o].holders = {h}}
<1>1. userobj' = [o \in Ids |-> IF o \in last THEN Freed(userobj[o])
                               ELSE IF o \in loses THEN [userobj[o] EXCEPT !.holders = @ \ {h}]
                               ELSE userobj[o]]
  BY DEF LetGo
<1>2. ASSUME NEW o \in Ids
      PROVE  /\ userobj[o] \in Object /\ userobj[o].entry = (userobj[o].data = "live")
             /\ userobj[o].is = "none" => userobj[o].data = "none"
  BY DEF Objects, ObjectsNamed, ClassesKnown
<1>3. ASSUME NEW o \in Ids
      PROVE  /\ Declines(userobj[o], userobj'[o])
             /\ o \in S /\ userobj'[o].is = "live" => h \notin userobj'[o].holders
  <2> DEFINE a == userobj[o]
             b == userobj'[o]
  <2>0. a \in Object /\ a.entry = (a.data = "live") /\ (a.is = "none" => a.data = "none")
    BY <1>2
  <2>1. CASE o \in last
    <3>1. b = [a EXCEPT !.is = "freed", !.holders = {}, !.entry = FALSE, !.data = "freed"]
      BY <1>1, <2>1 DEF Freed
    <3>2. a.is = "live"
      BY <2>1
    <3> HIDE DEF a, b
    <3> QED
      BY <2>0, <3>1, <3>2 DEF Declines, Object, a, b
  <2>2. CASE o \in loses /\ o \notin last
    <3>1. b = [a EXCEPT !.holders = @ \ {h}]
      BY <1>1, <2>2
    <3>2. a.is = "live"
      BY <2>2
    <3> HIDE DEF a, b
    <3>3. b \in Object
      BY <2>0, <3>1 DEF Object
    <3> QED
      BY <2>0, <3>1, <3>2, <3>3 DEF Declines, Object, a, b
  <2>3. CASE o \notin loses
    <3>1. b = a
      BY <1>1, <2>3
    <3>2. o \in S /\ a.is = "live" => h \notin a.holders
      BY <2>3
    <3> HIDE DEF a, b
    <3> QED
      BY <2>0, <3>1, <3>2 DEF Declines, a, b
  <2> QED
    BY <2>1, <2>2, <2>3
<1>4. userobj' \in [Ids -> Object]
  <2>1. \A o \in Ids : userobj'[o] \in Object
    BY <1>3 DEF Declines
  <2> QED
    BY <1>1, <2>1
<1> QED
  BY <1>3, <1>4

\* A step after which every object has declined.
LEMMA ObjectsDecline ==
  ASSUME Objects, userobj' \in [Ids -> Object],
         \A o \in Ids : Declines(userobj[o], userobj'[o]),
         UNCHANGED <<userdataTbl, counter>>,
         stage' \in {"running", "userdata"} => stage \in {"running", "userdata"},
         stage' \in {"events", "loads", "done"} => \A o \in Ids : userobj'[o].data # "live",
         stage' = "events" /\ "kept" \notin slips' =>
           \A o \in Ids : userobj'[o].is = "live" => "event" \notin userobj'[o].holders
  PROVE  Objects'
<1>1. ASSUME NEW o \in Ids
      PROVE  /\ userobj'[o].class = userobj[o].class /\ userobj'[o].idx = userobj[o].idx
             /\ userobj'[o].is = "none" <=> userobj[o].is = "none"
             /\ userobj'[o].is = "live" =>
                   userobj[o].is = "live" /\ userobj'[o].entry = userobj[o].entry
             /\ userobj'[o].entry = (userobj'[o].data = "live")
             /\ userobj'[o].is = "none" => userobj'[o].data = "none"
  BY DEF Declines
<1>2. ClassesKnown'
  BY <1>1 DEF Objects, ClassesKnown
<1>3. EntriesThere'
  BY <1>1 DEF Objects, EntriesThere
<1>4. ObjectsNamed'
  <2>1. \A o \in Ids : userobj'[o].entry = (userobj'[o].data = "live")
    BY <1>1
  <2>2. \A o, p \in Ids :
          userobj'[o].is # "none" /\ userobj'[o].class = userobj'[p].class
             /\ userobj'[o].idx = userobj'[p].idx => o = p
    BY <1>1 DEF Objects, ObjectsNamed
  <2>3. stage' = "running" => \A o \in Ids : userobj'[o].is = "live" => userobj'[o].entry
    BY <1>3 DEF EntriesThere
  <2> QED
    BY <2>1, <2>2, <2>3 DEF ObjectsNamed
<1> QED
  BY <1>2, <1>3, <1>4 DEF Objects

LEMMA UserObjNewObjects ==
  ASSUME TypeOK, Objects, NEW o \in Ids, NEW n \in Names, NEW holders \in SUBSET Holders,
         UserObjNew(o, n, holders)
  PROVE  Objects' /\ counter' \in [Names -> Nat]
<1> DEFINE b == [is |-> "live", class |-> n, idx |-> counter[n] + 1, holders |-> holders,
                 entry |-> TRUE, data |-> "live"]
<1>1. /\ userobj[o].is = "none" /\ n \in DOMAIN userdataTbl /\ stage = "running"
      /\ counter' = [counter EXCEPT ![n] = @ + 1]
      /\ userobj' = [userobj EXCEPT ![o] = b]
      /\ UNCHANGED <<userdataTbl, stage>>
  BY DEF UserObjNew, Does, Runs, loadVars
<1>2. /\ counter' \in [Names -> Nat] /\ counter[n] \in Nat /\ counter'[n] = counter[n] + 1
      /\ \A m \in Names : m # n => counter'[m] = counter[m]
  BY <1>1 DEF TypeOK
<1>3. b \in Object /\ b.is = "live" /\ b.class = n /\ b.idx = counter[n] + 1
      /\ b.entry = TRUE /\ b.data = "live"
  BY <1>2 DEF Object, Holders
<1> HIDE DEF b
<1>4. /\ userobj \in [Ids -> Object] /\ userobj' \in [Ids -> Object] /\ userobj'[o] = b
      /\ \A p \in Ids : p # o => userobj'[p] = userobj[p]
  BY <1>1, <1>3 DEF Objects
<1>5. \A p \in Ids : /\ userobj[p].idx \in Nat
                     /\ userobj[p].is = "none" => userobj[p].idx = 0
                     /\ userobj[p].is # "none" => userobj[p].idx \in 1..counter[userobj[p].class]
                     /\ userobj[p].is # "none" => userobj[p].class \in Names
  BY <1>4 DEF Objects, ClassesKnown, Object, TypeOK
<1>6. ClassesKnown'
  <2>1. ASSUME NEW p \in Ids, p # o, userobj[p].is # "none"
        PROVE  userobj[p].idx \in 1..counter'[userobj[p].class]
    <3>1. userobj[p].class \in Names /\ userobj[p].idx \in 1..counter[userobj[p].class]
      BY <2>1, <1>5
    <3>2. counter[userobj[p].class] \in Nat /\ counter'[userobj[p].class] \in Nat
          /\ counter[userobj[p].class] <= counter'[userobj[p].class]
      BY <3>1, <1>2 DEF TypeOK
    <3> QED
      BY <3>1, <3>2
  <2>2. b.idx \in 1..counter'[b.class]
    BY <1>2, <1>3
  <2> QED
    BY <2>1, <2>2, <1>1, <1>3, <1>4 DEF Objects, ClassesKnown
<1>7. EntriesThere'
  BY <1>1, <1>3, <1>4 DEF Objects, EntriesThere
<1>8. ASSUME NEW p \in Ids, p # o, userobj[p].class = n
      PROVE  userobj[p].idx # b.idx
  <2>1. CASE userobj[p].is = "none"
    BY <2>1, <1>2, <1>3, <1>5
  <2>2. CASE userobj[p].is # "none"
    BY <2>2, <1>2, <1>3, <1>5, <1>8
  <2> QED
    BY <2>1, <2>2
<1>9. ObjectsNamed'
  <2>1. ASSUME NEW p \in Ids PROVE userobj'[p].entry = (userobj'[p].data = "live")
    <3>1. CASE p = o
      BY <3>1, <1>3, <1>4
    <3>2. CASE p # o
      BY <3>2, <1>4 DEF Objects, ObjectsNamed
    <3> QED
      BY <3>1, <3>2
  <2>2. \A p, q \in Ids :
          userobj'[p].is # "none" /\ userobj'[p].class = userobj'[q].class
             /\ userobj'[p].idx = userobj'[q].idx => p = q
    BY <1>3, <1>4, <1>8 DEF Objects, ObjectsNamed
  <2>3. \A p \in Ids : userobj'[p].is = "live" => userobj'[p].entry
    BY <1>1, <1>7 DEF EntriesThere
  <2>4. stage' = "running"
    BY <1>1
  <2> QED
    BY <2>1, <2>2, <2>3, <2>4 DEF ObjectsNamed
<1> QED
  BY <1>2, <1>4, <1>6, <1>7, <1>9 DEF Objects

LEMMA DeleteUserdataObjects ==
  ASSUME Objects, DeleteUserdata
  PROVE  Objects'
<1> DEFINE left == {o \in Ids : userobj[o].entry}
<1>1. /\ stage = "userdata" /\ stage' = "events"
      /\ userobj' = [o \in Ids |-> IF o \in left
                                   THEN [userobj[o] EXCEPT !.entry = FALSE, !.data = "freed"]
                                   ELSE userobj[o]]
      /\ slips' = IF \E o \in left : "event" \in userobj[o].holders THEN slips \cup {"kept"}
                  ELSE slips
      /\ UNCHANGED <<userdataTbl, counter>>
  BY DEF DeleteUserdata, loadVars
<1>2. ASSUME NEW o \in Ids
      PROVE  /\ userobj'[o] \in Object /\ userobj'[o].data # "live"
             /\ userobj'[o].entry = FALSE
             /\ userobj'[o].is = userobj[o].is /\ userobj'[o].class = userobj[o].class
             /\ userobj'[o].idx = userobj[o].idx /\ userobj'[o].holders = userobj[o].holders
             /\ userobj'[o].is = "none" => userobj'[o].data = "none"
             /\ userobj'[o].is = "live" => o \in left
  <2> DEFINE a == userobj[o]
             b == userobj'[o]
  <2>1. /\ a \in Object /\ a.entry = (a.data = "live") /\ (a.is = "none" => a.data = "none")
        /\ a.is = "live" => a.entry
    BY <1>1 DEF Objects, ObjectsNamed, ClassesKnown, EntriesThere
  <2>2. CASE o \in left
    <3>1. b = [a EXCEPT !.entry = FALSE, !.data = "freed"] /\ a.entry
      BY <2>2, <1>1
    <3>2. a.is # "none"
      BY <2>1, <3>1
    <3> HIDE DEF a, b
    <3> QED
      BY <2>1, <2>2, <3>1, <3>2 DEF Object, a, b
  <2>3. CASE o \notin left
    <3>1. b = a /\ ~a.entry /\ a.entry \in BOOLEAN
      BY <2>1, <2>3, <1>1 DEF Object
    <3> HIDE DEF a, b
    <3> QED
      BY <2>1, <3>1 DEF a, b
  <2> QED
    BY <2>2, <2>3
<1>3. userobj' \in [Ids -> Object]
  <2>1. \A o \in Ids : userobj'[o] \in Object
    BY <1>2
  <2> QED
    BY <1>1, <2>1
<1>4. ClassesKnown'
  <2>1. ASSUME NEW o \in Ids
        PROVE  IF userobj'[o].is = "none"
               THEN userobj'[o].idx = 0 /\ userobj'[o].data = "none"
               ELSE /\ userobj'[o].class \in DOMAIN userdataTbl
                    /\ userobj'[o].idx \in 1..counter[userobj'[o].class]
    BY <1>2 DEF Objects, ClassesKnown
  <2> QED
    BY <2>1, <1>1 DEF ClassesKnown
<1>5. EntriesThere'
  <2>1. "kept" \notin slips' => \A o \in left : "event" \notin userobj[o].holders
    BY <1>1
  <2> QED
    BY <2>1, <1>1, <1>2 DEF EntriesThere
<1>6. ObjectsNamed'
  <2>1. \A o \in Ids : userobj'[o].entry = (userobj'[o].data = "live")
    BY <1>2
  <2>2. \A o, p \in Ids :
          userobj'[o].is # "none" /\ userobj'[o].class = userobj'[p].class
             /\ userobj'[o].idx = userobj'[p].idx => o = p
    <3>1. \A o \in Ids : /\ userobj'[o].is = userobj[o].is
                         /\ userobj'[o].class = userobj[o].class
                         /\ userobj'[o].idx = userobj[o].idx
      BY <1>2
    <3> QED
      BY <3>1 DEF Objects, ObjectsNamed
  <2>3. \A o \in Ids : userobj'[o].data # "live"
    BY <1>2
  <2> QED
    BY <2>1, <2>2, <2>3, <1>1 DEF ObjectsNamed
<1> QED
  BY <1>3, <1>4, <1>5, <1>6 DEF Objects

-----------------------------------------------------------------------------
(* Nothing that is gone is used.                                           *)

\* The library of an object's class is open until all are closed, unless an Init failed.
LEMMA ClassOpen ==
  ASSUME Sound, Objects, stage # "done", NEW o \in Ids, userobj[o].is # "none",
         opened[userdataTbl[userobj[o].class]] = 0
  PROVE  slips # {}
<1>1. userobj[o].class \in DOMAIN userdataTbl
  BY DEF Objects, ClassesKnown
<1>2. /\ userdataTbl[userobj[o].class] \in Files
      /\ Registered(userdataTbl[userobj[o].class])
  BY <1>1 DEF Sound, Shape, Registered
<1>3. "failed" \in slips
  BY <1>2 DEF Sound, Libraries, RegisteredOpen
<1> QED
  BY <1>3

LEMMA LetGoFault ==
  ASSUME Sound, Objects, NEW S \in SUBSET Ids, NEW h, LetGo(S, h), fault = "none",
         \/ stage \in {"running", "userdata"}
         \/ stage = "events" /\ h = "event",
         fault' # "none"
  PROVE  slips # {}
<1> DEFINE loses == {o \in S : userobj[o].is = "live" /\ h \in userobj[o].holders}
           last == {o \in loses : userobj[o].holders = {h}}
<1>1. \/ \E o \in last : ~userobj[o].entry
      \/ \E o \in last : opened[userdataTbl[userobj[o].class]] = 0
  BY DEF LetGo
<1>2. CASE stage \in {"running", "userdata"}
  <2>1. \A o \in last : o \in Ids /\ userobj[o].is = "live" /\ userobj[o].entry
    BY <1>2 DEF Objects, EntriesThere
  <2>2. PICK o \in last : opened[userdataTbl[userobj[o].class]] = 0
    BY <1>1, <2>1
  <2>3. o \in Ids /\ userobj[o].is # "none" /\ stage # "done"
    BY <2>1, <1>2
  <2> QED
    BY <2>2, <2>3, ClassOpen
<1>3. CASE stage = "events" /\ h = "event"
  <2>1. PICK o \in last : TRUE
    BY <1>1
  <2>2. o \in Ids /\ userobj[o].is = "live" /\ "event" \in userobj[o].holders
    BY <2>1, <1>3
  <2> QED
    BY <2>2, <1>3 DEF Objects, EntriesThere
<1> QED
  BY <1>2, <1>3

-----------------------------------------------------------------------------
(* The whole.                                                              *)

LEMMA IInvMeans == IInv <=> Sound /\ Objects /\ NothingGone
  BY LibrariesMean DEF IInv, Sound, Objects

LEMMA InitIInv == Init => IInv
<1> SUFFICES ASSUME Init PROVE IInv
  OBVIOUS
<1>1. /\ opened = [f \in Files |-> 0] /\ again = [f \in Files |-> 0]
      /\ loadTbl = <<>> /\ cmds = {} /\ userdataTbl = <<>> /\ loading = <<>>
      /\ userobj = [o \in Ids |-> NoObject] /\ counter = [n \in Names |-> 0]
      /\ stage = "running" /\ fault = "none" /\ slips = {}
  BY DEF Init
<1>2. DOMAIN loadTbl = {} /\ DOMAIN userdataTbl = {} /\ DOMAIN loading = {}
  BY <1>1
<1>3. TypeOK /\ Shape
  <2>1. /\ opened \in [Files -> Int] /\ again \in [Files -> Nat]
        /\ counter \in [Names -> Nat]
    BY <1>1
  <2> QED
    BY <1>1, <1>2, <2>1, FS_EmptySet DEF TypeOK, Shape
<1>4. Libraries
  <2>1. \A f : Recorded(f) = {} /\ Inits(f) = {}
    BY <1>2 DEF Recorded, Inits
  <2>2. \A f : Cardinality(Recorded(f)) = 0 /\ Cardinality(Inits(f)) = 0
    BY <2>1, FS_EmptySet
  <2>3. \A f \in Files : opened[f] = 0 /\ again[f] = 0
    BY <1>1
  <2> QED
    BY <1>1, <1>2, <2>2, <2>3 DEF Libraries, RegisteredOpen, Registered
<1>5. NoObject \in Object /\ NoObject.is = "none" /\ NoObject.idx = 0
      /\ NoObject.data = "none" /\ NoObject.entry = FALSE
  BY DEF NoObject, Object
<1>6. Objects
  BY <1>1, <1>5 DEF Objects, ObjectsNamed, ClassesKnown, EntriesThere
<1> QED
  BY <1>1, <1>3, <1>4, <1>6, IInvMeans DEF Sound, NothingGone

LEMMA NextIInv ==
  ASSUME IInv, [Next]_vars
  PROVE  IInv'
<1>0. Sound /\ Objects /\ NothingGone
  BY IInvMeans
<1>c. counter \in [Names -> Nat] /\ stage \in {"running", "userdata", "events", "loads", "done"}
  BY <1>0 DEF Sound, TypeOK
<1> SUFFICES Sound' /\ Objects' /\ NothingGone'
  BY IInvMeans, PTL
<1>1. ASSUME UNCHANGED <<objectVars, userdataTbl, stage>>, "kept" \in slips => "kept" \in slips'
      PROVE  Objects'
  BY <1>0, <1>1 DEF objectVars, Objects, ObjectsNamed, ClassesKnown, EntriesThere
<1>2. ASSUME UNCHANGED fault, slips \subseteq slips'
      PROVE  NothingGone'
  BY <1>0, <1>2 DEF NothingGone
<1>3. ASSUME NEW f \in Files, LoadLibrary(f)
      PROVE  Sound' /\ Objects' /\ NothingGone'
  BY <1>0, <1>1, <1>2, <1>3, LoadLibrarySound DEF LoadLibrary
<1>4. ASSUME NEW f \in Files, CallUnloaded(f)
      PROVE  Sound' /\ Objects' /\ NothingGone'
  <2>1. /\ f \in cmds /\ opened[f] = 0 /\ stage = "running"
        /\ UNCHANGED <<loadVars, objectVars, stage, slips>>
    BY <1>4 DEF CallUnloaded, Runs
  <2>2. Sound'
    BY <2>1, <1>0, <1>c, LibrariesSame DEF loadVars, objectVars
  <2>3. "failed" \in slips
    BY <2>1, <1>0 DEF Sound, Libraries, RegisteredOpen, Registered
  <2> QED
    BY <2>1, <2>2, <2>3, <1>1 DEF loadVars, NothingGone
<1>5. CASE UserObjRegister
  <2>1. Sound'
    BY <1>0, <1>5, UserObjRegisterSound
  <2>2. /\ UNCHANGED <<userobj, counter, stage, fault, slips>>
        /\ DOMAIN userdataTbl \subseteq DOMAIN userdataTbl'
    BY <1>5 DEF UserObjRegister, objectVars, Put
  <2>3. Objects'
    BY <2>2, <1>0 DEF Objects, ObjectsNamed, ClassesKnown, EntriesThere
  <2> QED
    BY <2>1, <2>2, <2>3, <1>2
<1>6. CASE CommandCreateSpecs
  BY <1>0, <1>1, <1>2, <1>6, CommandCreateSpecsSound DEF CommandCreateSpecs
<1>7. ASSUME NEW ok \in BOOLEAN, InitReturns(ok)
      PROVE  Sound' /\ Objects' /\ NothingGone'
  <2>1. UNCHANGED <<objectVars, userdataTbl, stage, fault>> /\ slips \subseteq slips'
    BY <1>7 DEF InitReturns
  <2> QED
    BY <2>1, <1>0, <1>1, <1>2, <1>7, InitReturnsSound
<1>8. ASSUME NEW o \in Ids, NEW n \in Names, NEW holders \in SUBSET {"vars", "event", "itself"},
             UserObjNew(o, n, holders)
      PROVE  Sound' /\ Objects' /\ NothingGone'
  <2>1. Objects' /\ counter' \in [Names -> Nat]
    BY <1>0, <1>8, UserObjNewObjects DEF Sound, Holders
  <2>2. UNCHANGED <<loadVars, stage, fault, slips>>
    BY <1>8 DEF UserObjNew
  <2>3. Sound'
    BY <2>1, <2>2, <1>0, <1>c, LibrariesSame DEF loadVars
  <2> QED
    BY <2>1, <2>2, <2>3, <1>2
<1>9. ASSUME NEW o \in Ids, NEW h, Drop(o, h)
      PROVE  Sound' /\ Objects' /\ NothingGone'
  <2>1. /\ LetGo({o}, h) /\ stage = "running" /\ fault = "none"
        /\ UNCHANGED <<loadVars, counter, stage, slips>>
    BY <1>9 DEF Drop, Does, Runs
  <2>2. Sound'
    BY <2>1, <1>0, <1>c, LibrariesSame DEF loadVars
  <2>3. Objects'
    BY <2>1, <1>0, LetGoDeclines, ObjectsDecline DEF loadVars
  <2>4. NothingGone'
    BY <2>1, <1>0, LetGoFault DEF NothingGone
  <2> QED
    BY <2>2, <2>3, <2>4
<1>10. CASE DeleteVars
  <2>1. /\ LetGo(Ids, "vars") /\ stage = "running" /\ stage' = "userdata" /\ fault = "none"
        /\ cmds' = {}
        /\ UNCHANGED <<opened, loadTbl, userdataTbl, loading, again, counter, slips>>
    BY <1>10 DEF DeleteVars, Runs
  <2>2. Sound'
    BY <2>1, <1>0, <1>c, LibrariesSame
  <2>3. Objects'
    BY <2>1, <1>0, LetGoDeclines, ObjectsDecline
  <2>4. NothingGone'
    BY <2>1, <1>0, LetGoFault DEF NothingGone
  <2> QED
    BY <2>2, <2>3, <2>4
<1>11. CASE DeleteUserdata
  <2>1. /\ stage = "userdata" /\ stage' = "events" /\ fault = "none" /\ slips \subseteq slips'
        /\ fault' = IF \E o \in {o \in Ids : userobj[o].entry} :
                            opened[userdataTbl[userobj[o].class]] = 0
                    THEN "unloaded code" ELSE fault
        /\ UNCHANGED <<loadVars, counter>>
    BY <1>11 DEF DeleteUserdata
  <2>2. Sound'
    BY <2>1, <1>0, <1>c, LibrariesSame DEF loadVars
  <2>3. Objects'
    BY <1>0, <1>11, DeleteUserdataObjects
  <2>4. NothingGone'
    <3>1. SUFFICES ASSUME fault' # "none" PROVE slips # {}
      BY <2>1 DEF NothingGone
    <3>2. PICK o \in Ids : userobj[o].entry /\ opened[userdataTbl[userobj[o].class]] = 0
      BY <2>1, <3>1
    <3>3. userobj[o].is # "none"
      BY <3>2, <1>0 DEF Objects, ObjectsNamed, ClassesKnown
    <3> QED
      BY <2>1, <3>2, <3>3, <1>0, ClassOpen
  <2> QED
    BY <2>2, <2>3, <2>4
<1>12. CASE DeleteEvents
  <2>1. /\ LetGo(Ids, "event") /\ stage = "events" /\ stage' = "loads" /\ fault = "none"
        /\ UNCHANGED <<loadVars, counter, slips>>
    BY <1>12 DEF DeleteEvents
  <2>2. Sound'
    BY <2>1, <1>0, <1>c, LibrariesSame DEF loadVars
  <2>3. \A o \in Ids : Declines(userobj[o], userobj'[o]) /\ userobj' \in [Ids -> Object]
    BY <2>1, <1>0, LetGoDeclines
  <2>4. \A o \in Ids : userobj'[o].data # "live"
    BY <2>1, <2>3, <1>0 DEF Declines, Objects, ObjectsNamed
  <2>5. Objects'
    BY <2>1, <2>3, <2>4, <1>0, LetGoDeclines, ObjectsDecline DEF loadVars
  <2>6. NothingGone'
    BY <2>1, <1>0, LetGoFault DEF NothingGone
  <2> QED
    BY <2>2, <2>5, <2>6
<1>13. CASE DeleteLoads
  <2>1. /\ stage = "loads" /\ stage' = "done"
        /\ UNCHANGED <<userdataTbl, objectVars, fault, slips>>
    BY <1>13 DEF DeleteLoads
  <2>2. Sound'
    BY <1>0, <1>13, DeleteLoadsSound
  <2>3. Objects'
    BY <2>1, <1>0 DEF objectVars, Objects, ObjectsNamed, ClassesKnown, EntriesThere
  <2> QED
    BY <2>1, <2>2, <2>3, <1>2
<1>14. CASE UNCHANGED vars
  <2>1. Sound'
    BY <1>0, <1>c, <1>14, LibrariesSame DEF vars, loadVars, objectVars
  <2> QED
    BY <2>1, <1>1, <1>2, <1>14 DEF vars, loadVars
<1> QED
  BY <1>3, <1>4, <1>5, <1>6, <1>7, <1>8, <1>9, <1>10, <1>11, <1>12, <1>13, <1>14 DEF Next

-----------------------------------------------------------------------------
(* The property.                                                           *)

\* A library is open as often as it is recorded, being loaded and loaded again; every
\* object has an entry and a name of its own while its data exists; and neither a freed
\* entry nor code that is gone is used, unless an event kept an object beyond its class or
\* an Init failed (jsiLoad.c, jsiUserObj.c, jsiInterpDelete).
THEOREM ExtensionsAreSound == Spec => []ExtensionsSound
<1>1. IInv => ExtensionsSound
  BY DEF IInv, ExtensionsSound
<1> QED
  BY <1>1, InitIInv, NextIInv, PTL DEF Spec

-----------------------------------------------------------------------------
(* The inductive invariant of exec().                                      *)

Entry == [pid : Pids, detached : BOOLEAN]
End == {File, Closed} \cup (Pipes \X {"read", "write"})
Kid == [st : {"none", "running", "zombie"}, in : End, out : End, err : End, more : SUBSET End]

Forking == {"input", "output", "error", "fork"}
Reading == {"read", "wait"}
InCall == ex.pc \in Forking \cup Reading

\* The local variables.
Locals ==
  \/ ex = Idle
  \/ ex = [pc |-> "reap", at |-> ex.at, used |-> ex.used] /\ ex.at \in Nat /\ ex.used \in Nat
  \/ /\ ex = [pc |-> ex.pc, background |-> ex.background, words |-> ex.words,
              inputId |-> ex.inputId, lastOutputId |-> ex.lastOutputId, errorId |-> ex.errorId,
              outPipe |-> ex.outPipe, errFile |-> ex.errFile,
              pids |-> ex.pids, firstArg |-> ex.firstArg]
     /\ ex.pc \in Forking \cup Reading \cup {"memory overwritten"}
     /\ ex.background \in BOOLEAN
     /\ Len(ex.words.args) \in Nat /\ ex.firstArg \in Nat
     /\ {ex.inputId, ex.lastOutputId, ex.errorId, ex.outPipe, ex.errFile} \subseteq Fds \cup {0}
     /\ ex.pids \in Seq(Pids)

ExecTypes ==
  /\ Locals
  /\ open \in [Fds -> End] /\ kids \in [Pids -> Kid] /\ table \in Seq(Entry)
  /\ host \subseteq Fds /\ lost \subseteq Fds

\* The children that have not been reaped and not been forgotten, and those in the table
\* from an entry on.
Existing == {c \in Pids : kids[c].st # "none"}
Known == Existing \ forgotten
From(i) == {table[k].pid : k \in i..Len(table)}
OnceFrom(i) == \A j, k \in i..Len(table) : table[j].pid = table[k].pid => j = k
DetachedFrom(i) == \A k \in i..Len(table) : table[k].detached

\* Between calls and while entries are reaped all of the table is detached; in a call it
\* has the children of the call.
KidsSound ==
  /\ forgotten \subseteq Existing
  /\ ex.pc = "idle" => Known = From(1) /\ OnceFrom(1) /\ DetachedFrom(1)
  /\ ex.pc = "reap" =>
       /\ ex.at \in 1..(Len(table) + 1) /\ ex.used = Len(table) + 1 - ex.at
       /\ Known = From(ex.at) /\ OnceFrom(ex.at) /\ DetachedFrom(ex.at)
  /\ InCall =>
       /\ Known = From(1) /\ OnceFrom(1) /\ From(1) = Range(ex.pids)
       /\ \A i, j \in 1..Len(ex.pids) : ex.pids[i] = ex.pids[j] => i = j

\* Two variables never have the same descriptor, and none has one of those that stay.
Apart(a, b) == a = b => a = 0
AllApart(in, out, err, op, ef) ==
  /\ Apart(in, out) /\ Apart(in, err) /\ Apart(in, op) /\ Apart(in, ef)
  /\ Apart(out, err) /\ Apart(out, op) /\ Apart(out, ef)
  /\ Apart(err, op) /\ Apart(err, ef) /\ Apart(op, ef)

Stay == host \cup lost
OpenFds == {f \in Fds : open[f] # Closed}
AtWork == {ex.inputId, ex.lastOutputId, ex.errorId, ex.outPipe, ex.errFile} \ {0}

FdsSound ==
  /\ ex.pc \in {"idle", "reap"} => OpenFds = Stay
  /\ ex.pc \in Forking =>
       /\ Stay \subseteq OpenFds /\ OpenFds \subseteq Stay \cup AtWork
       /\ AtWork \cap Stay = {}
       /\ AllApart(ex.inputId, ex.lastOutputId, ex.errorId, ex.outPipe, ex.errFile)
       /\ {ex.errorId, ex.outPipe, ex.errFile} \ {0} \subseteq OpenFds
       /\ ex.pc # "fork" \/ More => AtWork \subseteq OpenFds
       /\ ex.background => ex.outPipe = 0 /\ ex.errFile = 0
       /\ ex.pc # "fork" => ex.errorId = 0 /\ ex.errFile = 0 /\ ex.firstArg = 1 /\ ex.pids = <<>>
       /\ ex.pc \in {"input", "output"} => ex.lastOutputId = 0 /\ ex.outPipe = 0
       /\ ex.pc = "input" => ex.inputId = 0
  /\ ex.pc \in Reading =>
       /\ OpenFds = Stay \cup ({ex.outPipe, ex.errFile} \ {0})
       /\ {ex.outPipe, ex.errFile} \cap Stay = {}
       /\ AllApart(ex.inputId, ex.lastOutputId, ex.errorId, ex.outPipe, ex.errFile)
       /\ ex.pc = "wait" => ex.outPipe = 0

\* Below the pipe that exec reads there is at most one free descriptor, the one that the
\* input had; and the end that the last child writes has a higher number.
Numbered ==
  ex.pc \in {"error", "fork"} /\ ex.outPipe # 0 =>
    /\ ex.lastOutputId > ex.outPipe
    /\ \A f, g \in Fds : f < ex.outPipe /\ g < ex.outPipe /\ open[f] = Closed =>
         /\ open[g] = Closed => f = g
         /\ ex.inputId # 0 => ex.inputId > ex.outPipe

Alive(c) == kids[c].st = "running"
Own == Range(ex.pids)

\* A child of an earlier call has no end of a pipe of this call.
Fresh ==
  \A d \in Pids : Alive(d) /\ d \notin Own =>
    \A e \in Ends(d) : e[1] # 0 =>
      /\ \A f \in Fds : open[f][1] # e[1]
      /\ \A c \in Own : Alive(c) => \A x \in Ends(c) : x[1] # e[1]

FdsOnPipes ==
  \A f \in Fds, p \in Pipes :
    /\ open[f] = Read(p) => f \in {ex.inputId, ex.outPipe}
    /\ open[f] = Write(p) =>
         f \in {ex.lastOutputId, ex.errorId} /\ ex.outPipe # 0 /\ open[ex.outPipe] = Read(p)

OutputReadByExec ==
  ex.outPipe # 0 =>
    /\ open[ex.outPipe] \in Pipes \X {"read"}
    /\ \A c \in Own : Alive(c) => open[ex.outPipe] \notin Ends(c)
    /\ ex.inputId # 0 => open[ex.inputId] # open[ex.outPipe]

InputForNext ==
  ex.inputId # 0 /\ IsRead(open[ex.inputId]) =>
    \A c \in Own : Alive(c) => open[ex.inputId] \notin Ends(c)

Chained ==
  \A j \in 1..Len(ex.pids), p \in Pipes :
    Alive(ex.pids[j]) /\ Read(p) \in Ends(ex.pids[j]) =>
      /\ kids[ex.pids[j]].in = Read(p)
      /\ \A f \in Fds : open[f][1] # p
      /\ \A i \in 1..Len(ex.pids) : Alive(ex.pids[i]) =>
           /\ Read(p) \in Ends(ex.pids[i]) => i = j
           /\ Write(p) \in Ends(ex.pids[i]) => i < j

PipesSound ==
  lost = {} /\ ex.pc # "memory overwritten" =>
   /\ \A f \in host : open[f] = File
   /\ InCall => /\ Numbered /\ Fresh /\ FdsOnPipes /\ OutputReadByExec /\ InputForNext /\ Chained
                /\ ex.errFile # 0 => open[ex.errFile] = File

ExecIInv == ExecTypes /\ KidsSound /\ FdsSound /\ PipesSound

-----------------------------------------------------------------------------
(* Descriptors.                                                            *)

\* A set of numbers has a least one.
LEMMA Least ==
  ASSUME NEW S, S \subseteq Nat, S # {}
  PROVE  \E x \in S : \A y \in S : x <= y
<1> DEFINE R == OpToRel(<, Nat)
<1>1. \A x, y \in Nat : x < y => <<x, y>> \in R
  BY DEF OpToRel
<1>2. IsWellFoundedOn(R, Nat)
  BY NatLessThanWellFounded
<1> HIDE DEF R
<1>3. PICK x \in S : \A y \in S : ~(<<y, x>> \in R)
  BY <1>2, WFMin
<1>4. \A y \in S : ~(y < x)
  BY <1>1, <1>3
<1> QED
  BY <1>3, <1>4

\* Min is that of any set of numbers, finite or not.
LEMMA MinIs ==
  ASSUME NEW S, S \subseteq Nat, S # {}
  PROVE  Min(S) \in S /\ \A y \in S : Min(S) <= y
<1>1. PICK x \in S : \A y \in S : x <= y
  BY Least
<1> QED
  BY <1>1 DEF Min

\* The largest of three numbers.
LEMMA MaxIs ==
  ASSUME NEW a \in Nat, NEW b \in Nat, NEW c \in Nat
  PROVE  /\ Max({a, b, c}) \in Nat
         /\ Max({a, b, c}) >= a /\ Max({a, b, c}) >= b /\ Max({a, b, c}) >= c
<1>1. \E x \in {a, b, c} : \A y \in {a, b, c} : x >= y
  <2>1. CASE a >= b /\ a >= c
    BY <2>1
  <2>2. CASE b >= a /\ b >= c
    BY <2>2
  <2>3. CASE c >= a /\ c >= b
    BY <2>3
  <2> QED
    BY <2>1, <2>2, <2>3
<1>2. /\ Max({a, b, c}) \in {a, b, c}
      /\ \A y \in {a, b, c} : Max({a, b, c}) >= y
  BY <1>1 DEF Max
<1> QED
  BY <1>2

\* What descriptors, processes and the ends of pipes are.
LEMMA FdsAre ==
  ASSUME ExecConstants
  PROVE  /\ Fds \subseteq Nat /\ 0 \notin Fds /\ IsFiniteSet(Fds)
         /\ Pids \subseteq Nat /\ Pipes \subseteq Nat /\ 0 \notin Pipes
         /\ \A p \in Pipes : Read(p) \in End /\ Write(p) \in End
         /\ File \in End /\ Closed \in End /\ File # Closed
<1>1. Fds \subseteq 0..MaxFd /\ MaxFd \in Nat
  BY DEF ExecConstants, Fds
<1>2. IsFiniteSet(Fds)
  <2>1. 0 \in Int /\ MaxFd \in Int
    BY <1>1
  <2>2. IsFiniteSet(0..MaxFd)
    BY <2>1, FS_Interval
  <2> QED
    BY <1>1, <2>2, FS_Subset
<1> QED
  BY <1>2 DEF ExecConstants, Fds, Pids, Pipes, Read, Write, End, File, Closed

\* A new descriptor is the lowest free one.
LEMMA LowestIs ==
  ASSUME ExecConstants, NEW o, NEW z \in Fds, o[z] = Closed
  PROVE  /\ Lowest(o) \in Fds /\ o[Lowest(o)] = Closed
         /\ \A f \in Fds : o[f] = Closed => Lowest(o) <= f
<1> DEFINE S == {f \in Fds : o[f] = Closed}
<1>1. S \subseteq Nat /\ S # {}
  BY FdsAre
<1>2. Min(S) \in S /\ \A f \in S : Min(S) <= f
  BY <1>1, MinIs
<1> QED
  BY <1>2 DEF Lowest

\* A descriptor is opened: the lowest free one, and no other changes.
LEMMA NextOfIs ==
  ASSUME ExecConstants, NEW o \in [Fds -> End], NEW e \in End, Free(o) # {}
  PROVE  /\ Lowest(o) \in Fds /\ o[Lowest(o)] = Closed /\ Lowest(o) # 0
         /\ \A f \in Fds : o[f] = Closed => Lowest(o) <= f
         /\ NextOf(o, e) \in [Fds -> End]
         /\ \A f \in Fds : NextOf(o, e)[f] = IF f = Lowest(o) THEN e ELSE o[f]
<1>1. PICK z \in Fds : o[z] = Closed
  BY DEF Free
<1>2. /\ Lowest(o) \in Fds /\ o[Lowest(o)] = Closed
      /\ \A f \in Fds : o[f] = Closed => Lowest(o) <= f
  BY <1>1, LowestIs
<1> QED
  BY <1>2, FdsAre DEF NextOf

\* What an opened pipe leaves: r is the lowest free descriptor and w the next one.
Piped(o, q, p, r, w) ==
  /\ r \in Fds /\ w \in Fds /\ r < w /\ o[r] = Closed /\ o[w] = Closed
  /\ \A f \in Fds : o[f] = Closed => r <= f /\ (f = r \/ w <= f)
  /\ q \in [Fds -> End] /\ q[r] = Read(p) /\ q[w] = Write(p)
  /\ \A f \in Fds : f # r /\ f # w => q[f] = o[f]

\* pipe() takes the two lowest free descriptors.
LEMMA PipeInIs ==
  ASSUME ExecConstants, NEW o \in [Fds -> End], NEW p \in Pipes, Cardinality(Free(o)) >= 2
  PROVE  Piped(o, PipeIn(o, p).open, p, PipeIn(o, p).r, PipeIn(o, p).w)
<1> DEFINE r == Lowest(o)
           q == [o EXCEPT ![r] = Read(p)]
           w == Lowest(q)
<1>0. Free(o) \subseteq Fds /\ IsFiniteSet(Free(o)) /\ Fds \subseteq Nat
  BY FdsAre, FS_Subset DEF Free
<1>1. Free(o) # {}
  BY FS_EmptySet
<1>2. /\ r \in Fds /\ o[r] = Closed
      /\ \A f \in Fds : o[f] = Closed => r <= f
  <2>1. PICK z \in Fds : o[z] = Closed
    BY <1>1 DEF Free
  <2> QED
    BY <2>1, LowestIs
<1> HIDE DEF r
<1>3. Read(p) # Closed /\ Read(p) \in End /\ Write(p) \in End
  BY FdsAre DEF Read, Closed
<1>4. q \in [Fds -> End] /\ q[r] = Read(p) /\ \A f \in Fds : f # r => q[f] = o[f]
  BY <1>2, <1>3
<1>5. PICK z \in Fds : z # r /\ o[z] = Closed
  <2>1. r \in Free(o)
    BY <1>2 DEF Free
  <2>2. Cardinality(Free(o) \ {r}) = Cardinality(Free(o)) - 1
    BY <2>1, <1>0, FS_RemoveElement
  <2>3. Cardinality(Free(o) \ {r}) # 0
    BY <2>2, <1>0, FS_CardinalityType
  <2>4. Free(o) \ {r} # {}
    BY <2>3, FS_EmptySet
  <2> QED
    BY <2>4 DEF Free
<1> HIDE DEF q
<1>6. /\ w \in Fds /\ q[w] = Closed
      /\ \A f \in Fds : q[f] = Closed => w <= f
  BY <1>4, <1>5, LowestIs
<1>7. w # r /\ o[w] = Closed /\ r < w
  <2> HIDE DEF w
  <2>1. w # r
    BY <1>3, <1>4, <1>6
  <2>2. o[w] = Closed
    BY <2>1, <1>4, <1>6
  <2> QED
    BY <2>1, <2>2, <1>2, <1>6, <1>0
<1>8. \A f \in Fds : o[f] = Closed => r <= f /\ (f = r \/ w <= f)
  BY <1>2, <1>4, <1>6
<1> DEFINE a == [q EXCEPT ![w] = Write(p)]
<1>9. /\ a \in [Fds -> End] /\ a[r] = Read(p) /\ a[w] = Write(p)
      /\ \A f \in Fds : f # r /\ f # w => a[f] = o[f]
  BY <1>3, <1>4, <1>6, <1>7
<1>10. PipeIn(o, p) = [open |-> a, r |-> r, w |-> w]
  BY DEF PipeIn, r, q
<1> HIDE DEF a, w
<1>11. PipeIn(o, p).open = a /\ PipeIn(o, p).r = r /\ PipeIn(o, p).w = w
  BY <1>10
<1> QED
  BY <1>2, <1>6, <1>7, <1>8, <1>9, <1>11 DEF Piped

\* Close closes what it is told to.
LEMMA CloseIs ==
  ASSUME ExecConstants, NEW o \in [Fds -> End], NEW S
  PROVE  /\ Close(o, S) \in [Fds -> End]
         /\ \A f \in Fds : Close(o, S)[f] = IF f \in S THEN Closed ELSE o[f]
  BY FdsAre DEF Close

-----------------------------------------------------------------------------
(* The steps between calls, and those that begin one.                      *)

\* Each part of the invariant is about some of the variables.
LEMMA KidsSame ==
  ASSUME KidsSound, InCall, InCall', UNCHANGED <<kids, table, forgotten>>, ex'.pids = ex.pids
  PROVE  KidsSound'
<1>1. ex'.pc # "idle" /\ ex'.pc # "reap"
  BY DEF InCall, Forking, Reading
<1>2. /\ Known' = Known /\ Existing' = Existing /\ From(1)' = From(1)
      /\ OnceFrom(1)' = OnceFrom(1)
  BY DEF Known, Existing, From, OnceFrom
<1> QED
  BY <1>1, <1>2 DEF KidsSound

\* A call begins: all of the table is to be looked at.
LEMMA ExecStep ==
  ASSUME ExecConstants, ExecIInv, Exec
  PROVE  ExecIInv'
<1>1. /\ ex.pc = "idle"
      /\ ex' = [pc |-> "reap", at |-> 1, used |-> Len(table)]
      /\ UNCHANGED <<open, kids, table, host, lost, forgotten>>
      /\ table \in Seq(Entry) /\ Len(table) \in Nat
  BY DEF Exec, ExecIInv, ExecTypes
<1>2. ex'.pc = "reap" /\ ex'.at = 1 /\ ex'.used = Len(table) /\ ~InCall'
  BY <1>1 DEF InCall, Forking, Reading
<1>3. ExecTypes'
  BY <1>1, <1>2 DEF ExecIInv, ExecTypes, Locals
<1>4. KidsSound'
  <2>1. Known' = Known /\ Existing' = Existing /\ From(1)' = From(1)
        /\ OnceFrom(1)' = OnceFrom(1) /\ DetachedFrom(1)' = DetachedFrom(1)
    BY <1>1 DEF Known, Existing, From, OnceFrom, DetachedFrom
  <2>2. Known = From(1) /\ OnceFrom(1) /\ DetachedFrom(1) /\ forgotten \subseteq Existing
    BY <1>1 DEF ExecIInv, KidsSound
  <2>3. 1 \in 1..(Len(table) + 1) /\ Len(table) = Len(table) + 1 - 1
    BY <1>1
  <2> QED
    BY <1>1, <1>2, <2>1, <2>2, <2>3 DEF KidsSound
<1>5. FdsSound'
  BY <1>1, <1>2 DEF ExecIInv, FdsSound, OpenFds, Stay, Forking, Reading
<1>6. PipesSound'
  BY <1>1, <1>2 DEF ExecIInv, PipesSound
<1> QED
  BY <1>3, <1>4, <1>5, <1>6 DEF ExecIInv

\* An entry of the table is looked at: its child is gone or forgotten, since all are detached.
LEMMA ReapStep ==
  ASSUME ExecConstants, ExecIInv, Reap
  PROVE  ExecIInv'
<1>0. PICK at, used, n, pid : at = ex.at /\ used = ex.used /\ n = Len(table) /\ pid = table[at].pid
  OBVIOUS
<1>1. /\ ex.pc = "reap" /\ at <= n
      /\ ex = [pc |-> "reap", at |-> at, used |-> used]
      /\ table \in Seq(Entry) /\ n \in Nat
      /\ at \in 1..(n + 1) /\ used = n + 1 - at
      /\ UNCHANGED <<open, host, lost>>
  <2>1. ex.pc = "reap" => ex = [pc |-> "reap", at |-> at, used |-> used]
    BY <1>0 DEF ExecIInv, ExecTypes, Locals, Idle, Forking, Reading
  <2> QED
    BY <1>0, <2>1 DEF Reap, ExecIInv, ExecTypes, KidsSound
<1>2. /\ Known = From(at) /\ OnceFrom(at) /\ DetachedFrom(at) /\ forgotten \subseteq Existing
      /\ kids \in [Pids -> Kid]
  BY <1>0, <1>1 DEF ExecIInv, KidsSound, ExecTypes
<1>3. at \in 1..n /\ used \in 1..n /\ at \in Nat /\ used \in Nat
  BY <1>1
<1>4. table[at] \in Entry /\ table[used] \in Entry /\ \A k \in 1..n : table[k] \in Entry
  BY <1>0, <1>1, <1>3
<1>5. pid \in Pids /\ table[at].detached
  BY <1>0, <1>2, <1>3, <1>4 DEF DetachedFrom, Entry
<1>6. pid \in Existing /\ pid \notin forgotten /\ kids[pid].st # "none"
  <2>1. pid \in From(at)
    BY <1>0, <1>3 DEF From
  <2> QED
    BY <2>1, <1>2 DEF Known, Existing
<1>7. /\ table' = [table EXCEPT ![at] = table[used]]
      /\ ex' = [ex EXCEPT !.at = @ + 1, !.used = @ - 1]
      /\ kids' = IF kids[pid].st = "zombie" THEN [kids EXCEPT ![pid] = NoKid] ELSE kids
      /\ forgotten' = IF kids[pid].st = "zombie" THEN forgotten ELSE forgotten \cup {pid}
  BY <1>0, <1>5, <1>6 DEF Reap
<1>8. ex' = [pc |-> "reap", at |-> at + 1, used |-> used - 1]
  BY <1>1, <1>7
<1>9. ex'.pc = "reap" /\ ex'.at = at + 1 /\ ex'.used = used - 1 /\ ~InCall'
  BY <1>8 DEF InCall, Forking, Reading
<1>10. /\ table' \in Seq(Entry) /\ Len(table') = n
       /\ \A k \in 1..n : table'[k] = IF k = at THEN table[used] ELSE table[k]
  <2>1. DOMAIN table = 1..n
    BY <1>0, <1>1
  <2> QED
    BY <1>0, <1>1, <1>3, <1>4, <1>7, <2>1, ExceptSeq
<1>11. NoKid \in Kid
  BY FdsAre DEF Kid, NoKid
<1>12. ExecTypes'
  <2>1. kids' \in [Pids -> Kid]
    BY <1>2, <1>5, <1>7, <1>11
  <2>2. at + 1 \in Nat /\ used - 1 \in Nat
    BY <1>3
  <2> QED
    BY <1>1, <1>8, <1>9, <1>10, <2>1, <2>2 DEF ExecIInv, ExecTypes, Locals
<1>13. From(at + 1)' = From(at) \ {pid}
  <2>1. \A k \in at..n : table[k].pid = pid => k = at
    BY <1>0, <1>2, <1>3 DEF OnceFrom
  <2>2. \A k \in (at + 1)..n : table'[k] = table[k]
    BY <1>3, <1>10
  <2>3. From(at + 1)' = {table[k].pid : k \in (at + 1)..n}
    BY <1>10, <2>2 DEF From
  <2>4. \A k \in at..n : k = at \/ k \in (at + 1)..n
    BY <1>3
  <2>5. \A k \in (at + 1)..n : k \in at..n /\ k # at
    BY <1>3
  <2>6. From(at) = {table[k].pid : k \in at..n} /\ table[at].pid = pid /\ at \in at..n
    BY <1>0, <1>3 DEF From
  <2>7. \A c : c \in From(at + 1)' <=> c \in From(at) /\ c # pid
    BY <2>1, <2>3, <2>4, <2>5, <2>6
  <2> QED
    BY <2>7
<1>14. OnceFrom(at + 1)' /\ DetachedFrom(at + 1)'
  <2>1. \A k \in (at + 1)..n : k \in at..n /\ table'[k] = table[k]
    BY <1>3, <1>10
  <2> QED
    BY <1>0, <2>1, <1>2, <1>10 DEF OnceFrom, DetachedFrom
<1>15. Known' = Known \ {pid} /\ forgotten' \subseteq Existing'
  <2>1. CASE kids[pid].st = "zombie"
    <3>1. Existing' = Existing \ {pid} /\ forgotten' = forgotten
      <4>1. \A c \in Pids : kids'[c] = IF c = pid THEN NoKid ELSE kids[c]
        BY <1>2, <1>7, <2>1
      <4> QED
        BY <4>1, <1>7, <2>1 DEF Existing, NoKid
    <3> QED
      BY <3>1, <1>2, <1>6 DEF Known
  <2>2. CASE kids[pid].st # "zombie"
    BY <1>2, <1>6, <1>7, <2>2 DEF Known, Existing
  <2> QED
    BY <2>1, <2>2
<1>16. KidsSound'
  <2>1. at + 1 \in 1..(n + 1) /\ used - 1 = n + 1 - (at + 1)
    BY <1>1, <1>3
  <2> QED
    BY <1>2, <1>9, <1>10, <1>13, <1>14, <1>15, <2>1 DEF KidsSound
<1>17. FdsSound'
  BY <1>1, <1>9 DEF ExecIInv, FdsSound, OpenFds, Stay, Forking, Reading
<1>18. PipesSound'
  BY <1>1, <1>9 DEF ExecIInv, PipesSound
<1> QED
  BY <1>12, <1>16, <1>17, <1>18 DEF ExecIInv

\* A scan gives a list of words.
LEMMA ScanIs ==
  ASSUME NEW line \in Seq(STRING)
  PROVE  Len(Scan(line).args) \in Nat
<1> DEFINE own == OwnWords(line)
           bars == {i \in own : line[i] \in Bars}
           rest == {i \in own : line[i] \notin DOMAIN InputOf \cup DOMAIN OutputOf \cup DOMAIN ErrorOf}
           fails == \/ \E i \in bars : i = Len(line) \/ i - 1 \in bars \cup {0}
                    \/ \E i \in own : i = Len(line) /\ NameFollows(line[i])
           args == [k \in 1..Cardinality(rest) |-> line[Nth(rest, k)]]
           words == [input |-> LastOf(line, own, InputOf), output |-> LastOf(line, own, OutputOf),
                     error |-> LastOf(line, own, ErrorOf), args |-> args, bars |-> Cardinality(bars)]
<1>1. Scan(line) = IF fails THEN NoWords ELSE words
  BY DEF Scan
<1>2. own \subseteq 1..Len(line) /\ Len(line) \in Nat
  BY DEF OwnWords
<1>3. IsFiniteSet(rest)
  <2>1. 1 \in Int /\ Len(line) \in Int
    BY <1>2
  <2>2. rest \subseteq 1..Len(line)
    BY <1>2
  <2> QED
    BY <2>1, <2>2, FS_Interval, FS_Subset
<1>4. Cardinality(rest) \in Nat
  BY <1>3, FS_CardinalityType
<1> HIDE DEF own, bars, rest, fails
<1>5. Len(args) \in Nat
  <2>1. PICK m \in Nat : m = Cardinality(rest)
    BY <1>4
  <2> DEFINE T == {line[Nth(rest, k)] : k \in 1..m}
  <2>2. args = [k \in 1..m |-> line[Nth(rest, k)]]
    BY <2>1
  <2>3. args \in [1..m -> T]
    BY <2>2
  <2>4. args \in Seq(T)
    BY <2>1, <2>3 DEF Seq
  <2> QED
    BY <2>4, LenProperties
<1>6. words.args = args /\ NoWords.args = <<>> /\ Len(<<>>) = 0
  BY DEF NoWords
<1> HIDE DEF words, args
<1> QED
  BY <1>1, <1>5, <1>6

\* What is scanned of a line.
LEMMA LineIs ==
  ASSUME ExecConstants, NEW line \in Lines
  PROVE  Len(Scan(IF Background(line) THEN Front(line) ELSE line).args) \in Nat /\ Background(line) \in BOOLEAN
<1>1. line \in Seq(STRING)
  BY DEF ExecConstants
<1>2. Background(line) => Front(line) \in Seq(STRING)
  <2>1. Len(line) \in Nat
    BY <1>1
  <2>2. Background(line) => Len(line) > 1
    BY DEF Background
  <2>3. Len(line) > 1 => \A i \in 1..(Len(line) - 1) : line[i] \in STRING
    BY <1>1, <2>1
  <2> QED
    BY <1>1, <2>1, <2>2, <2>3, SubSeqProperties DEF Front
<1>3. Background(line) \in BOOLEAN
  BY DEF Background
<1> QED
  BY <1>1, <1>2, <1>3, ScanIs

\* The words are scanned when the whole table has been emptied.
LEMMA CreatePipelineStep ==
  ASSUME ExecConstants, ExecIInv, NEW line \in Lines, CreatePipeline(line)
  PROVE  ExecIInv'
<1>0. PICK s : s = Scan(IF Background(line) THEN Front(line) ELSE line)
  OBVIOUS
<1>1. /\ ex.pc = "reap" /\ ex.at > Len(table)
      /\ table \in Seq(Entry) /\ Len(table) \in Nat
      /\ ex.at \in 1..(Len(table) + 1) /\ ex.used = Len(table) + 1 - ex.at
      /\ Known = From(ex.at) /\ forgotten \subseteq Existing
      /\ UNCHANGED <<open, kids, host, lost, forgotten>>
      /\ table' = SubSeq(table, 1, ex.used)
  BY DEF CreatePipeline, ExecIInv, ExecTypes, KidsSound
<1>2. ex.at = Len(table) + 1 /\ ex.used = 0
  BY <1>1
<1>3. table' = <<>>
  BY <1>1, <1>2, SubSeqEmpty
<1>4. Known = {} /\ Known' = Known /\ Existing' = Existing
  BY <1>1, <1>2 DEF From, Known, Existing
<1>5. From(1)' = {} /\ OnceFrom(1)' /\ DetachedFrom(1)' /\ table' \in Seq(Entry)
  BY <1>3 DEF From, OnceFrom, DetachedFrom
<1>6. OpenFds = Stay /\ OpenFds' = OpenFds /\ Stay' = Stay
  BY <1>1 DEF ExecIInv, FdsSound, OpenFds, Stay
<1>7. CASE ex' = Idle
  <2>1. ex'.pc = "idle" /\ ~InCall'
    BY <1>7 DEF Idle, InCall, Forking, Reading
  <2>2. ExecTypes'
    BY <1>1, <1>5, <1>7 DEF ExecIInv, ExecTypes, Locals
  <2>3. KidsSound'
    BY <1>1, <1>4, <1>5, <2>1 DEF KidsSound
  <2>4. FdsSound'
    BY <1>6, <2>1 DEF FdsSound, Forking, Reading
  <2>5. PipesSound'
    BY <1>1, <2>1 DEF ExecIInv, PipesSound
  <2> QED
    BY <2>2, <2>3, <2>4, <2>5 DEF ExecIInv
<1>8. CASE ex' = [pc |-> "input", background |-> Background(line), words |-> s,
                  inputId |-> JSI_BAD_FD, lastOutputId |-> JSI_BAD_FD, errorId |-> JSI_BAD_FD,
                  outPipe |-> JSI_BAD_FD, errFile |-> JSI_BAD_FD,
                  pids |-> <<>>, firstArg |-> 1]
  <2>1. /\ ex'.pc = "input" /\ ex'.pids = <<>> /\ ex'.firstArg = 1
        /\ ex'.inputId = 0 /\ ex'.lastOutputId = 0 /\ ex'.errorId = 0
        /\ ex'.outPipe = 0 /\ ex'.errFile = 0 /\ ex'.words = s
        /\ ex'.background = Background(line)
    BY <1>8 DEF JSI_BAD_FD
  <2>2. InCall' /\ Range(ex'.pids) = {} /\ Len(ex'.pids) = 0
    BY <2>1 DEF InCall, Forking, Range
  <2>3. Len(s.args) \in Nat /\ Background(line) \in BOOLEAN
    BY <1>0, LineIs
  <2>4. Locals'
    BY <1>8, <2>1, <2>3 DEF Locals, Forking
  <2>5. ExecTypes'
    BY <1>1, <1>5, <2>4 DEF ExecIInv, ExecTypes
  <2>6. KidsSound'
    <3>1. ex'.pc # "idle" /\ ex'.pc # "reap" /\ forgotten' \subseteq Existing'
      BY <1>1, <1>4, <2>1
    <3>2. Known' = From(1)' /\ From(1)' = Range(ex'.pids)
      BY <1>4, <1>5, <2>2
    <3> QED
      BY <1>5, <2>2, <3>1, <3>2 DEF KidsSound
  <2>7. FdsSound'
    <3>1. AtWork' = {}
      BY <2>1 DEF AtWork
    <3> QED
      BY <1>6, <2>1, <3>1 DEF FdsSound, AllApart, Apart, Reading
  <2>8. PipesSound'
    <3>1. SUFFICES ASSUME lost = {} PROVE PipesSound'
      BY <1>1 DEF PipesSound
    <3>2. \A f \in host : open[f] = File
      BY <1>1, <3>1 DEF ExecIInv, PipesSound
    <3>3. \A f \in Fds : open[f] \in {File, Closed}
      BY <1>6, <3>1, <3>2 DEF OpenFds, Stay
    <3>4. \A f \in Fds, p \in Pipes :
             open[f][1] = 0 /\ open[f] # Read(p) /\ open[f] # Write(p)
      BY <3>3, FdsAre DEF File, Closed, Read, Write
    <3>5. Numbered' /\ InputForNext' /\ OutputReadByExec' /\ Chained'
      BY <2>1, <2>2 DEF Numbered, InputForNext, OutputReadByExec, Chained
    <3>6. FdsOnPipes'
      BY <1>1, <3>4 DEF FdsOnPipes
    <3>7. Fresh'
      <4>1. Own' = {} /\ \A f \in Fds : open'[f][1] = 0
        BY <1>1, <2>2, <3>3 DEF Own, File, Closed
      <4> QED
        BY <4>1 DEF Fresh
    <3> QED
      BY <1>1, <2>1, <3>2, <3>5, <3>6, <3>7 DEF PipesSound
  <2> QED
    BY <2>5, <2>6, <2>7, <2>8 DEF ExecIInv
<1>9. ex' = Idle \/ ex' = [pc |-> "input", background |-> Background(line), words |-> s,
                  inputId |-> JSI_BAD_FD, lastOutputId |-> JSI_BAD_FD, errorId |-> JSI_BAD_FD,
                  outPipe |-> JSI_BAD_FD, errFile |-> JSI_BAD_FD,
                  pids |-> <<>>, firstArg |-> 1]
  BY <1>0 DEF CreatePipeline
<1> QED
  BY <1>7, <1>8, <1>9

-----------------------------------------------------------------------------
(* The files and the pipe of a call.                                       *)

\* The local variables of a call, one by one.
CallIs(x, pc, background, words, in, out, err, op, ef, pids, firstArg) ==
  x = [pc |-> pc, background |-> background, words |-> words,
       inputId |-> in, lastOutputId |-> out, errorId |-> err, outPipe |-> op, errFile |-> ef,
       pids |-> pids, firstArg |-> firstArg]

\* The local variables of a call by name.
LEMMA CallFields ==
  ASSUME NEW x, NEW pc, NEW background, NEW words, NEW in, NEW out, NEW err, NEW op, NEW ef,
         NEW pids, NEW firstArg,
         CallIs(x, pc, background, words, in, out, err, op, ef, pids, firstArg)
  PROVE  /\ x.pc = pc /\ x.background = background /\ x.words = words
         /\ x.inputId = in /\ x.lastOutputId = out /\ x.errorId = err
         /\ x.outPipe = op /\ x.errFile = ef /\ x.pids = pids /\ x.firstArg = firstArg
  BY DEF CallIs

\* One local variable is assigned.
LEMMA CallPut ==
  ASSUME NEW x, NEW pc, NEW background, NEW words, NEW in, NEW out, NEW err, NEW op, NEW ef,
         NEW pids, NEW firstArg,
         CallIs(x, pc, background, words, in, out, err, op, ef, pids, firstArg),
         NEW v
  PROVE  /\ CallIs([x EXCEPT !.pc = v],
                   v, background, words, in, out, err, op, ef, pids, firstArg)
         /\ CallIs([x EXCEPT !.inputId = v],
                   pc, background, words, v, out, err, op, ef, pids, firstArg)
         /\ CallIs([x EXCEPT !.lastOutputId = v],
                   pc, background, words, in, v, err, op, ef, pids, firstArg)
         /\ CallIs([x EXCEPT !.errorId = v],
                   pc, background, words, in, out, v, op, ef, pids, firstArg)
         /\ CallIs([x EXCEPT !.outPipe = v],
                   pc, background, words, in, out, err, v, ef, pids, firstArg)
         /\ CallIs([x EXCEPT !.errFile = v],
                   pc, background, words, in, out, err, op, v, pids, firstArg)
         /\ CallIs([x EXCEPT !.pids = v],
                   pc, background, words, in, out, err, op, ef, v, firstArg)
         /\ CallIs([x EXCEPT !.firstArg = v],
                   pc, background, words, in, out, err, op, ef, pids, v)
<1>1. CallIs([x EXCEPT !.pc = v],
                   v, background, words, in, out, err, op, ef, pids, firstArg)
  BY DEF CallIs
<1>2. CallIs([x EXCEPT !.inputId = v],
                   pc, background, words, v, out, err, op, ef, pids, firstArg)
  BY DEF CallIs
<1>3. CallIs([x EXCEPT !.lastOutputId = v],
                   pc, background, words, in, v, err, op, ef, pids, firstArg)
  BY DEF CallIs
<1>4. CallIs([x EXCEPT !.errorId = v],
                   pc, background, words, in, out, v, op, ef, pids, firstArg)
  BY DEF CallIs
<1>5. CallIs([x EXCEPT !.outPipe = v],
                   pc, background, words, in, out, err, v, ef, pids, firstArg)
  BY DEF CallIs
<1>6. CallIs([x EXCEPT !.errFile = v],
                   pc, background, words, in, out, err, op, v, pids, firstArg)
  BY DEF CallIs
<1>7. CallIs([x EXCEPT !.pids = v],
                   pc, background, words, in, out, err, op, ef, v, firstArg)
  BY DEF CallIs
<1>8. CallIs([x EXCEPT !.firstArg = v],
                   pc, background, words, in, out, err, op, ef, pids, v)
  BY DEF CallIs
<1> QED
  BY <1>1, <1>2, <1>3, <1>4, <1>5, <1>6, <1>7, <1>8

\* The assignments that the steps of a call make.
LEMMA CallExcept ==
  ASSUME NEW x, NEW pc, NEW background, NEW words, NEW in, NEW out, NEW err, NEW op, NEW ef,
         NEW pids, NEW firstArg,
         CallIs(x, pc, background, words, in, out, err, op, ef, pids, firstArg),
         NEW a, NEW b, NEW c, NEW d
  PROVE  /\ CallIs([x EXCEPT !.inputId = b, !.pc = a],
                   a, background, words, b, out, err, op, ef, pids, firstArg)
         /\ CallIs([x EXCEPT !.lastOutputId = b, !.pc = a],
                   a, background, words, in, b, err, op, ef, pids, firstArg)
         /\ CallIs([x EXCEPT !.errorId = b, !.pc = a],
                   a, background, words, in, out, b, op, ef, pids, firstArg)
         /\ CallIs([x EXCEPT !.outPipe = b, !.pc = a],
                   a, background, words, in, out, err, b, ef, pids, firstArg)
         /\ CallIs([x EXCEPT !.lastOutputId = b, !.outPipe = c, !.pc = a],
                   a, background, words, in, b, err, c, ef, pids, firstArg)
         /\ CallIs([x EXCEPT !.errorId = b, !.errFile = c, !.pc = a],
                   a, background, words, in, out, b, op, c, pids, firstArg)
         /\ CallIs([x EXCEPT !.pids = b, !.inputId = c, !.firstArg = d, !.pc = a],
                   a, background, words, c, out, err, op, ef, b, d)
<1>1. CallIs([x EXCEPT !.inputId = b, !.pc = a],
                   a, background, words, b, out, err, op, ef, pids, firstArg)
  <2>1. CallIs([x EXCEPT !.inputId = b],
              pc, background, words, b, out, err, op, ef, pids, firstArg)
    BY CallPut
  <2>2. CallIs([[x EXCEPT !.inputId = b] EXCEPT !.pc = a],
              a, background, words, b, out, err, op, ef, pids, firstArg)
    BY <2>1, CallPut
  <2> QED
    BY <2>2
<1>2. CallIs([x EXCEPT !.lastOutputId = b, !.pc = a],
                   a, background, words, in, b, err, op, ef, pids, firstArg)
  <2>1. CallIs([x EXCEPT !.lastOutputId = b],
              pc, background, words, in, b, err, op, ef, pids, firstArg)
    BY CallPut
  <2>2. CallIs([[x EXCEPT !.lastOutputId = b] EXCEPT !.pc = a],
              a, background, words, in, b, err, op, ef, pids, firstArg)
    BY <2>1, CallPut
  <2> QED
    BY <2>2
<1>3. CallIs([x EXCEPT !.errorId = b, !.pc = a],
                   a, background, words, in, out, b, op, ef, pids, firstArg)
  <2>1. CallIs([x EXCEPT !.errorId = b],
              pc, background, words, in, out, b, op, ef, pids, firstArg)
    BY CallPut
  <2>2. CallIs([[x EXCEPT !.errorId = b] EXCEPT !.pc = a],
              a, background, words, in, out, b, op, ef, pids, firstArg)
    BY <2>1, CallPut
  <2> QED
    BY <2>2
<1>4. CallIs([x EXCEPT !.outPipe = b, !.pc = a],
                   a, background, words, in, out, err, b, ef, pids, firstArg)
  <2>1. CallIs([x EXCEPT !.outPipe = b],
              pc, background, words, in, out, err, b, ef, pids, firstArg)
    BY CallPut
  <2>2. CallIs([[x EXCEPT !.outPipe = b] EXCEPT !.pc = a],
              a, background, words, in, out, err, b, ef, pids, firstArg)
    BY <2>1, CallPut
  <2> QED
    BY <2>2
<1>5. CallIs([x EXCEPT !.lastOutputId = b, !.outPipe = c, !.pc = a],
                   a, background, words, in, b, err, c, ef, pids, firstArg)
  <2>1. CallIs([x EXCEPT !.lastOutputId = b],
              pc, background, words, in, b, err, op, ef, pids, firstArg)
    BY CallPut
  <2>2. CallIs([[x EXCEPT !.lastOutputId = b] EXCEPT !.outPipe = c],
              pc, background, words, in, b, err, c, ef, pids, firstArg)
    BY <2>1, CallPut
  <2>3. CallIs([[[x EXCEPT !.lastOutputId = b] EXCEPT !.outPipe = c] EXCEPT !.pc = a],
              a, background, words, in, b, err, c, ef, pids, firstArg)
    BY <2>2, CallPut
  <2> QED
    BY <2>3
<1>6. CallIs([x EXCEPT !.errorId = b, !.errFile = c, !.pc = a],
                   a, background, words, in, out, b, op, c, pids, firstArg)
  <2>1. CallIs([x EXCEPT !.errorId = b],
              pc, background, words, in, out, b, op, ef, pids, firstArg)
    BY CallPut
  <2>2. CallIs([[x EXCEPT !.errorId = b] EXCEPT !.errFile = c],
              pc, background, words, in, out, b, op, c, pids, firstArg)
    BY <2>1, CallPut
  <2>3. CallIs([[[x EXCEPT !.errorId = b] EXCEPT !.errFile = c] EXCEPT !.pc = a],
              a, background, words, in, out, b, op, c, pids, firstArg)
    BY <2>2, CallPut
  <2> QED
    BY <2>3
<1>7. CallIs([x EXCEPT !.pids = b, !.inputId = c, !.firstArg = d, !.pc = a],
                   a, background, words, c, out, err, op, ef, b, d)
  <2>1. CallIs([x EXCEPT !.pids = b],
              pc, background, words, in, out, err, op, ef, b, firstArg)
    BY CallPut
  <2>2. CallIs([[x EXCEPT !.pids = b] EXCEPT !.inputId = c],
              pc, background, words, c, out, err, op, ef, b, firstArg)
    BY <2>1, CallPut
  <2>3. CallIs([[[x EXCEPT !.pids = b] EXCEPT !.inputId = c] EXCEPT !.firstArg = d],
              pc, background, words, c, out, err, op, ef, b, d)
    BY <2>2, CallPut
  <2>4. CallIs([[[[x EXCEPT !.pids = b] EXCEPT !.inputId = c] EXCEPT !.firstArg = d] EXCEPT !.pc = a],
              a, background, words, c, out, err, op, ef, b, d)
    BY <2>3, CallPut
  <2> QED
    BY <2>4
<1> QED
  BY <1>1, <1>2, <1>3, <1>4, <1>5, <1>6, <1>7

\* In a call there are all of its local variables.
LEMMA InCallIs ==
  ASSUME ExecTypes, InCall
  PROVE  /\ CallIs(ex, ex.pc, ex.background, ex.words, ex.inputId, ex.lastOutputId, ex.errorId,
                   ex.outPipe, ex.errFile, ex.pids, ex.firstArg)
         /\ ex.background \in BOOLEAN
         /\ Len(ex.words.args) \in Nat /\ ex.firstArg \in Nat
         /\ ex.inputId \in Fds \cup {0} /\ ex.lastOutputId \in Fds \cup {0}
         /\ ex.errorId \in Fds \cup {0} /\ ex.outPipe \in Fds \cup {0} /\ ex.errFile \in Fds \cup {0}
         /\ ex.pids \in Seq(Pids)
<1>1. ex.pc # "idle" /\ ex.pc # "reap"
  BY DEF InCall, Forking, Reading
<1>2. ex # Idle /\ ex # [pc |-> "reap", at |-> ex.at, used |-> ex.used]
  <2>1. Idle.pc = "idle" /\ [pc |-> "reap", at |-> ex.at, used |-> ex.used].pc = "reap"
    BY DEF Idle
  <2> QED
    BY <1>1, <2>1
<1>3. /\ ex = [pc |-> ex.pc, background |-> ex.background, words |-> ex.words,
              inputId |-> ex.inputId, lastOutputId |-> ex.lastOutputId, errorId |-> ex.errorId,
              outPipe |-> ex.outPipe, errFile |-> ex.errFile,
              pids |-> ex.pids, firstArg |-> ex.firstArg]
      /\ ex.background \in BOOLEAN
      /\ Len(ex.words.args) \in Nat /\ ex.firstArg \in Nat
      /\ {ex.inputId, ex.lastOutputId, ex.errorId, ex.outPipe, ex.errFile} \subseteq Fds \cup {0}
      /\ ex.pids \in Seq(Pids)
  BY <1>2 DEF ExecTypes, Locals
<1>4. CallIs(ex, ex.pc, ex.background, ex.words, ex.inputId, ex.lastOutputId, ex.errorId,
             ex.outPipe, ex.errFile, ex.pids, ex.firstArg)
  BY <1>3 DEF CallIs
<1> QED
  BY <1>3, <1>4

\* The local variables of a call stay of their types.
LEMMA CallTyped ==
  ASSUME NEW pc \in Forking \cup Reading \cup {"memory overwritten"}, NEW background \in BOOLEAN,
         NEW words, Len(words.args) \in Nat,
         NEW in \in Fds \cup {0}, NEW out \in Fds \cup {0}, NEW err \in Fds \cup {0},
         NEW op \in Fds \cup {0}, NEW ef \in Fds \cup {0}, NEW pids \in Seq(Pids),
         NEW firstArg \in Nat,
         CallIs(ex', pc, background, words, in, out, err, op, ef, pids, firstArg)
  PROVE  Locals'
<1>1. /\ ex'.pc = pc /\ ex'.background = background /\ ex'.words = words
      /\ ex'.inputId = in /\ ex'.lastOutputId = out /\ ex'.errorId = err
      /\ ex'.outPipe = op /\ ex'.errFile = ef /\ ex'.pids = pids /\ ex'.firstArg = firstArg
  BY CallFields
<1>2. ex' = [pc |-> ex'.pc, background |-> ex'.background, words |-> ex'.words,
              inputId |-> ex'.inputId, lastOutputId |-> ex'.lastOutputId, errorId |-> ex'.errorId,
              outPipe |-> ex'.outPipe, errFile |-> ex'.errFile,
              pids |-> ex'.pids, firstArg |-> ex'.firstArg]
  BY <1>1 DEF CallIs
<1> QED
  BY <1>1, <1>2 DEF Locals

\* While nothing has been forked, what is said of pipes is about descriptors.
FreshFds(o) ==
  \A d \in Pids : Alive(d) => \A e \in Ends(d) : e[1] # 0 => \A f \in Fds : o[f][1] # e[1]

OnPipes(o, in, out, err, op) ==
  \A f \in Fds, p \in Pipes :
    /\ o[f] = Read(p) => f \in {in, op}
    /\ o[f] = Write(p) => f \in {out, err} /\ op # 0 /\ o[op] = Read(p)

NumberedIn(o, in, out, op) ==
  op # 0 =>
    /\ out > op
    /\ \A f, g \in Fds : f < op /\ g < op /\ o[f] = Closed =>
         /\ o[g] = Closed => f = g
         /\ in # 0 => in > op

Before(o, in, out, err, op, ef) ==
  /\ FreshFds(o) /\ OnPipes(o, in, out, err, op) /\ NumberedIn(o, in, out, op)
  /\ op # 0 => o[op] \in Pipes \X {"read"} /\ (in # 0 => o[in] # o[op])
  /\ ef # 0 => o[ef] = File

\* Before the first fork, the pipes are as Before says.
LEMMA BeforeIs ==
  ASSUME ExecConstants, ExecIInv, ex.pc \in {"input", "output", "error"}, lost = {}
  PROVE  /\ \A f \in host : open[f] = File
         /\ Before(open, ex.inputId, ex.lastOutputId, ex.errorId, ex.outPipe, ex.errFile)
<1>1. InCall /\ ex.pc # "memory overwritten" /\ ex.pc \in Forking /\ ex.pc # "fork"
  BY DEF InCall, Forking
<1>2. ex.pids = <<>> /\ ex.errFile = 0 /\ (ex.pc # "error" => ex.outPipe = 0)
  BY <1>1 DEF ExecIInv, FdsSound
<1>3. Own = {}
  BY <1>2 DEF Own, Range
<1>4. /\ \A f \in host : open[f] = File
      /\ Numbered /\ Fresh /\ FdsOnPipes /\ OutputReadByExec
  BY <1>1 DEF ExecIInv, PipesSound
<1>5. FreshFds(open)
  BY <1>3, <1>4 DEF Fresh, FreshFds
<1>6. NumberedIn(open, ex.inputId, ex.lastOutputId, ex.outPipe)
  BY <1>2, <1>4 DEF Numbered, NumberedIn
<1> QED
  BY <1>2, <1>4, <1>5, <1>6 DEF Before, OutputReadByExec, FdsOnPipes, OnPipes

\* A step before the first fork keeps PipesSound if it keeps Before.
LEMMA BeforeMeans ==
  ASSUME NEW in, NEW out, NEW err, NEW op, NEW ef,
         ex'.inputId = in, ex'.lastOutputId = out, ex'.errorId = err, ex'.outPipe = op,
         ex'.errFile = ef, ex'.pids = <<>>,
         UNCHANGED <<kids, host, lost>>,
         lost = {} => (\A f \in host : open'[f] = File) /\ Before(open', in, out, err, op, ef)
  PROVE  PipesSound'
<1>1. SUFFICES ASSUME lost = {} PROVE PipesSound'
  BY DEF PipesSound
<1>2. (\A f \in host : open'[f] = File) /\ Before(open', in, out, err, op, ef)
  BY <1>1
<1>3. Own' = {} /\ Len(ex'.pids) = 0 /\ 1..Len(ex'.pids) = {}
  BY DEF Own, Range
<1>4. \A d \in Pids : Alive(d)' = Alive(d) /\ Ends(d)' = Ends(d)
  BY DEF Alive, Ends
<1>5. Fresh'
  BY <1>2, <1>3, <1>4 DEF Fresh, Before, FreshFds
<1>6. FdsOnPipes'
  BY <1>2 DEF FdsOnPipes, Before, OnPipes
<1>7. Numbered'
  BY <1>2 DEF Numbered, Before, NumberedIn
<1>8. OutputReadByExec' /\ InputForNext'
  BY <1>2, <1>3 DEF OutputReadByExec, InputForNext, Before
<1>9. Chained'
  BY <1>3 DEF Chained
<1> QED
  BY <1>2, <1>5, <1>6, <1>7, <1>8, <1>9 DEF PipesSound, Before

\* While exec opens its files, or has another child to fork, every descriptor that is open
\* either stays or is that of one variable.
Owned(o, in, out, err, op, ef) ==
  /\ {f \in Fds : o[f] # Closed} = Stay \cup ({in, out, err, op, ef} \ {0})
  /\ {in, out, err, op, ef} \cap Stay = {}
  /\ AllApart(in, out, err, op, ef)

\* While files are opened or there is a child to fork, each descriptor is accounted for.
LEMMA OwnedIs ==
  ASSUME ExecConstants, ExecIInv, ex.pc \in Forking, ex.pc # "fork" \/ More
  PROVE  Owned(open, ex.inputId, ex.lastOutputId, ex.errorId, ex.outPipe, ex.errFile)
<1>1. /\ Stay \subseteq OpenFds /\ OpenFds \subseteq Stay \cup AtWork
      /\ AtWork \cap Stay = {} /\ AtWork \subseteq OpenFds
      /\ AllApart(ex.inputId, ex.lastOutputId, ex.errorId, ex.outPipe, ex.errFile)
  BY DEF ExecIInv, FdsSound
<1>2. 0 \notin Stay
  BY FdsAre DEF Stay, ExecIInv, ExecTypes
<1> QED
  BY <1>1, <1>2 DEF Owned, OpenFds, AtWork

\* A step that opens files keeps FdsSound if it keeps Owned.
LEMMA OwnedMeans ==
  ASSUME NEW pc, ex'.pc = pc, pc \in {"output", "error", "fork"},
         NEW in, NEW out, NEW err, NEW op, NEW ef,
         ex'.inputId = in, ex'.lastOutputId = out, ex'.errorId = err, ex'.outPipe = op,
         ex'.errFile = ef, ex'.pids = <<>>, ex'.firstArg = 1,
         UNCHANGED <<host, lost>>,
         Owned(open', in, out, err, op, ef), ex'.background => op = 0 /\ ef = 0,
         pc # "fork" => err = 0 /\ ef = 0,
         pc = "output" => out = 0 /\ op = 0
  PROVE  FdsSound'
<1>1. pc \in Forking /\ pc \notin Reading /\ pc \notin {"idle", "reap"} /\ pc # "input"
  BY DEF Forking, Reading
<1>2. /\ OpenFds' = Stay \cup AtWork'
      /\ AtWork' \cap Stay = {} /\ Stay' = Stay
  BY DEF Owned, OpenFds, AtWork, Stay
<1>3. {err, op, ef} \ {0} \subseteq AtWork'
  BY DEF AtWork
<1> QED
  BY <1>1, <1>2, <1>3 DEF FdsSound, Owned

\* The variable that was 0 has the new descriptor.
LEMMA OwnedOpened ==
  ASSUME ExecConstants, NEW o, NEW q, NEW in, NEW out, NEW err, NEW op, NEW ef,
         Owned(o, in, out, err, op, ef),
         NEW l \in Fds, o[l] = Closed, q[l] # Closed, \A f \in Fds : f # l => q[f] = o[f]
  PROVE  /\ in = 0 => Owned(q, l, out, err, op, ef)
         /\ out = 0 => Owned(q, in, l, err, op, ef)
         /\ err = 0 => Owned(q, in, out, l, op, ef)
         /\ op = 0 => Owned(q, in, out, err, l, ef)
         /\ ef = 0 => Owned(q, in, out, err, op, l)
<1>1. l # 0 /\ l \notin Stay
  BY FdsAre DEF Owned
<1>2. l \notin {in, out, err, op, ef}
  BY <1>1 DEF Owned
<1>3. {f \in Fds : q[f] # Closed} = {f \in Fds : o[f] # Closed} \cup {l}
  OBVIOUS
<1>4. in = 0 => Owned(q, l, out, err, op, ef)
  BY <1>1, <1>2, <1>3 DEF Owned, AllApart, Apart
<1>5. out = 0 => Owned(q, in, l, err, op, ef)
  BY <1>1, <1>2, <1>3 DEF Owned, AllApart, Apart
<1>6. err = 0 => Owned(q, in, out, l, op, ef)
  BY <1>1, <1>2, <1>3 DEF Owned, AllApart, Apart
<1>7. op = 0 => Owned(q, in, out, err, l, ef)
  BY <1>1, <1>2, <1>3 DEF Owned, AllApart, Apart
<1>8. ef = 0 => Owned(q, in, out, err, op, l)
  BY <1>1, <1>2, <1>3 DEF Owned, AllApart, Apart
<1> QED
  BY <1>4, <1>5, <1>6, <1>7, <1>8

\* A file is opened, or a descriptor of one that a variable has.
LEMMA FileOpened ==
  ASSUME ExecConstants, NEW o, NEW q, NEW in, NEW out, NEW err, NEW op, NEW ef,
         Owned(o, in, out, err, op, ef), Before(o, in, out, err, op, ef),
         {in, out, err, op, ef} \subseteq Fds \cup {0},
         NEW l \in Fds, o[l] = Closed, q[l] = File, \A f \in Fds : f # l => q[f] = o[f]
  PROVE  /\ in = 0 /\ op = 0 => Before(q, l, out, err, op, ef)
         /\ out = 0 /\ op = 0 => Before(q, in, l, err, op, ef)
         /\ err = 0 => Before(q, in, out, l, op, ef)
         /\ ef = 0 => Before(q, in, out, err, op, l)
<1>1. l # 0 /\ l \notin {in, out, err, op, ef}
  BY FdsAre DEF Owned
<1>2. q[l] # Closed /\ \A p \in Pipes : q[l] # Read(p) /\ q[l] # Write(p)
  BY FdsAre DEF File, Closed, Read, Write
<1>3. FreshFds(q)
  <2>1. q[l][1] = 0
    BY DEF File
  <2>2. FreshFds(o)
    BY DEF Before
  <2> QED
    BY <2>1, <2>2 DEF FreshFds
<1>4. \A f \in {in, out, err, op, ef} \ {0} : q[f] = o[f]
  BY <1>1
<1>5. /\ OnPipes(o, in, out, err, op)
      /\ NumberedIn(o, in, out, op)
      /\ op # 0 => o[op] \in Pipes \X {"read"} /\ (in # 0 => o[in] # o[op])
      /\ ef # 0 => o[ef] = File
  BY DEF Before
<1>6. op # 0 => q[op] \in Pipes \X {"read"} /\ (in # 0 => q[in] # q[op])
  BY <1>4, <1>5
<1>7. ef # 0 => q[ef] = File
  BY <1>4, <1>5
<1>8. NumberedIn(q, in, out, op)
  <2>1. \A f \in Fds : q[f] = Closed => o[f] = Closed
    BY <1>2
  <2> QED
    BY <1>5, <2>1 DEF NumberedIn
<1>9. OnPipes(q, in, out, err, op)
  <2> SUFFICES ASSUME NEW f \in Fds, NEW p \in Pipes
               PROVE  /\ q[f] = Read(p) => f \in {in, op}
                      /\ q[f] = Write(p) => f \in {out, err} /\ op # 0 /\ q[op] = Read(p)
    BY DEF OnPipes
  <2>1. (q[f] = Read(p) \/ q[f] = Write(p)) => f # l /\ q[f] = o[f]
    BY <1>2
  <2>2. /\ o[f] = Read(p) => f \in {in, op}
        /\ o[f] = Write(p) => f \in {out, err} /\ op # 0 /\ o[op] = Read(p)
    BY <1>5 DEF OnPipes
  <2> QED
    BY <1>4, <2>1, <2>2
<1>10. \A f \in Fds : f # 0
  BY FdsAre
<1>11. in = 0 /\ op = 0 => Before(q, l, out, err, op, ef)
  <2>1. in = 0 /\ op = 0 => OnPipes(q, l, out, err, op) /\ NumberedIn(q, l, out, op)
    BY <1>9, <1>10 DEF OnPipes, NumberedIn
  <2> QED
    BY <1>3, <1>7, <2>1 DEF Before
<1>12. out = 0 /\ op = 0 => Before(q, in, l, err, op, ef)
  <2>1. out = 0 /\ op = 0 => OnPipes(q, in, l, err, op) /\ NumberedIn(q, in, l, op)
    BY <1>9, <1>10 DEF OnPipes, NumberedIn
  <2> QED
    BY <1>3, <1>7, <2>1 DEF Before
<1>13. err = 0 => Before(q, in, out, l, op, ef)
  <2>1. err = 0 => OnPipes(q, in, out, l, op)
    BY <1>9, <1>10 DEF OnPipes
  <2> QED
    BY <1>3, <1>6, <1>7, <1>8, <2>1 DEF Before
<1>14. ef = 0 => Before(q, in, out, err, op, l)
  BY <1>3, <1>6, <1>8, <1>9 DEF Before
<1> QED
  BY <1>11, <1>12, <1>13, <1>14

\* The local variables while files are opened.
LEMMA OpeningIs ==
  ASSUME ExecConstants, ExecIInv, ex.pc \in {"input", "output", "error"}
  PROVE  /\ InCall /\ ex.pids = <<>> /\ ex.firstArg = 1
         /\ ex.errorId = 0 /\ ex.errFile = 0
         /\ ex.pc # "error" => ex.lastOutputId = 0 /\ ex.outPipe = 0
         /\ ex.pc = "input" => ex.inputId = 0
         /\ ex.background => ex.outPipe = 0 /\ ex.errFile = 0
         /\ open \in [Fds -> End]
         /\ Owned(open, ex.inputId, ex.lastOutputId, ex.errorId, ex.outPipe, ex.errFile)
         /\ lost = {} => Before(open, ex.inputId, ex.lastOutputId, ex.errorId, ex.outPipe, ex.errFile)
         /\ CallIs(ex, ex.pc, ex.background, ex.words, ex.inputId, ex.lastOutputId, ex.errorId,
                   ex.outPipe, ex.errFile, ex.pids, ex.firstArg)
         /\ {ex.inputId, ex.lastOutputId, ex.errorId, ex.outPipe, ex.errFile} \subseteq Fds \cup {0}
<1>1. InCall /\ ex.pc \in Forking /\ ex.pc # "fork" /\ ExecTypes
  BY DEF InCall, Forking, ExecIInv
<1>2. /\ ex.pids = <<>> /\ ex.firstArg = 1 /\ ex.errorId = 0 /\ ex.errFile = 0
      /\ ex.pc # "error" => ex.lastOutputId = 0 /\ ex.outPipe = 0
      /\ ex.pc = "input" => ex.inputId = 0
      /\ ex.background => ex.outPipe = 0 /\ ex.errFile = 0
  BY <1>1 DEF ExecIInv, FdsSound
<1>3. Owned(open, ex.inputId, ex.lastOutputId, ex.errorId, ex.outPipe, ex.errFile)
  BY <1>1, OwnedIs
<1>4. lost = {} => Before(open, ex.inputId, ex.lastOutputId, ex.errorId, ex.outPipe, ex.errFile)
  BY BeforeIs
<1>5. open \in [Fds -> End]
  BY <1>1 DEF ExecTypes
<1> QED
  BY <1>1, <1>2, <1>3, <1>4, <1>5, InCallIs

\* A step that opens files keeps the invariant.
LEMMA OpenedStep ==
  ASSUME ExecConstants, ExecIInv, ex.pc \in {"input", "output", "error"},
         NEW pc \in {"output", "error", "fork"},
         NEW in \in Fds \cup {0}, NEW out \in Fds \cup {0}, NEW err \in Fds \cup {0},
         NEW op \in Fds \cup {0}, NEW ef \in Fds \cup {0},
         CallIs(ex', pc, ex.background, ex.words, in, out, err, op, ef, ex.pids, ex.firstArg),
         UNCHANGED <<kids, table, host, lost, forgotten>>,
         open' \in [Fds -> End], \A f \in Fds : open[f] # Closed => open'[f] = open[f],
         Owned(open', in, out, err, op, ef), lost = {} => Before(open', in, out, err, op, ef),
         ex.background => op = 0 /\ ef = 0,
         pc # "fork" => err = 0 /\ ef = 0,
         pc = "output" => out = 0 /\ op = 0
  PROVE  ExecIInv'
<1>1. /\ InCall /\ ex.pids = <<>> /\ ex.firstArg = 1
  BY OpeningIs
<1>2. /\ ex'.pc = pc /\ ex'.background = ex.background /\ ex'.inputId = in /\ ex'.lastOutputId = out /\ ex'.errorId = err
      /\ ex'.outPipe = op /\ ex'.errFile = ef /\ ex'.pids = ex.pids /\ ex'.firstArg = ex.firstArg
  BY CallFields
<1>3. InCall'
  BY <1>2 DEF InCall, Forking
<1>4. ExecTypes'
  <2>1. /\ ex.background \in BOOLEAN /\ Len(ex.words.args) \in Nat /\ ex.firstArg \in Nat
        /\ ex.pids \in Seq(Pids)
    BY <1>1, InCallIs DEF ExecIInv
  <2>2. pc \in Forking \cup Reading \cup {"memory overwritten"}
    BY DEF Forking
  <2>3. Locals'
    BY <2>1, <2>2, CallTyped
  <2> QED
    BY <2>3 DEF ExecIInv, ExecTypes
<1>5. KidsSound'
  BY <1>1, <1>2, <1>3, KidsSame DEF ExecIInv
<1>6. FdsSound'
  BY <1>1, <1>2, OwnedMeans
<1>7. PipesSound'
  <2>1. lost = {} => \A f \in host : open'[f] = File
    <3>1. SUFFICES ASSUME lost = {}, NEW f \in host PROVE open'[f] = File
      OBVIOUS
    <3>2. open[f] = File /\ f \in Fds
      BY <3>1, BeforeIs DEF ExecIInv, ExecTypes
    <3> QED
      BY <3>2, FdsAre
  <2> QED
    BY <1>1, <1>2, <2>1, BeforeMeans
<1> QED
  BY <1>4, <1>5, <1>6, <1>7 DEF ExecIInv

\* The input is opened, or taken from a channel without success.
LEMMA OpenInputStep ==
  ASSUME ExecConstants, ExecIInv, OpenInput
  PROVE  ExecIInv'
<1>1. /\ ex.pc = "input" /\ UNCHANGED <<kids, table, host, lost, forgotten>>
  BY DEF OpenInput
<1>2. PICK out, err, op, ef : out = ex.lastOutputId /\ err = ex.errorId /\ op = ex.outPipe /\ ef = ex.errFile
  OBVIOUS
<1>3. /\ err = 0 /\ ef = 0 /\ out = 0 /\ op = 0 /\ ex.inputId = 0
      /\ open \in [Fds -> End]
      /\ Owned(open, 0, out, err, op, ef)
      /\ lost = {} => Before(open, 0, out, err, op, ef)
      /\ CallIs(ex, "input", ex.background, ex.words, 0, out, err, op, ef, ex.pids, ex.firstArg)
      /\ {0, out, err, op, ef} \subseteq Fds \cup {0}
  BY <1>1, <1>2, OpeningIs
<1>4. CASE Opens("inputId", "output")
  <2>1. PICK l : l = Lowest(open)
    OBVIOUS
  <2>2. /\ l \in Fds /\ open[l] = Closed /\ open' \in [Fds -> End]
        /\ open'[l] = File /\ \A f \in Fds : f # l => open'[f] = open[f]
    <3>1. Free(open) # {} /\ open' = NextOf(open, File)
      BY <1>4 DEF Opens
    <3> QED
      BY <1>3, <2>1, <3>1, NextOfIs, FdsAre
  <2>3. CallIs(ex', "output", ex.background, ex.words, l, out, err, op, ef, ex.pids, ex.firstArg)
    <3>1. ex' = [ex EXCEPT !.inputId = l, !.pc = "output"]
      BY <1>4, <2>1 DEF Opens
    <3>2. CallIs([ex EXCEPT !.inputId = l, !.pc = "output"], "output", ex.background, ex.words,
                 l, out, err, op, ef, ex.pids, ex.firstArg)
      BY <1>3, CallExcept
    <3> QED
      BY <3>1, <3>2
  <2>4. Owned(open', l, out, err, op, ef)
    BY <1>3, <2>2, OwnedOpened, FdsAre
  <2>5. lost = {} => Before(open', l, out, err, op, ef)
    BY <1>3, <2>2, FileOpened
  <2>6. \A f \in Fds : open[f] # Closed => open'[f] = open[f]
    BY <2>2
  <2> QED
    BY <1>1, <1>3, <2>2, <2>3, <2>4, <2>5, <2>6, OpenedStep
<1>5. CASE Goes("output")
  <2>1. open' = open
    BY <1>5 DEF Goes
  <2>2. CallIs(ex', "output", ex.background, ex.words, 0, out, err, op, ef, ex.pids, ex.firstArg)
    <3>1. ex' = [ex EXCEPT !.pc = "output"]
      BY <1>5 DEF Goes
    <3>2. CallIs([ex EXCEPT !.pc = "output"], "output", ex.background, ex.words,
                 0, out, err, op, ef, ex.pids, ex.firstArg)
      BY <1>3, CallPut
    <3> QED
      BY <3>1, <3>2
  <2>3. /\ open' \in [Fds -> End] /\ \A f \in Fds : open[f] # Closed => open'[f] = open[f]
        /\ Owned(open', 0, out, err, op, ef)
        /\ lost = {} => Before(open', 0, out, err, op, ef)
    BY <1>3, <2>1
  <2> QED
    BY <1>1, <1>3, <2>2, <2>3, OpenedStep
<1> QED
  BY <1>4, <1>5 DEF OpenInput

\* The pipe that exec reads: the descriptors before it were all in use.
LEMMA UnusedIs ==
  ASSUME ExecConstants, MayPipe
  PROVE  /\ UnusedPipe \in Pipes /\ ~Held(Read(UnusedPipe)) /\ ~Held(Write(UnusedPipe))
         /\ Cardinality(Free(open)) >= 2
<1>1. UnusedPipes \subseteq Nat /\ UnusedPipes # {}
  BY FdsAre DEF MayPipe, UnusedPipes
<1>2. UnusedPipe \in UnusedPipes
  BY <1>1, MinIs DEF UnusedPipe
<1> QED
  BY <1>2 DEF UnusedPipes, MayPipe

\* Nobody has an end of an unused pipe.
Unused(p) ==
  /\ \A f \in Fds : open[f] # Read(p) /\ open[f] # Write(p)
  /\ \A c \in Pids : Alive(c) => \A e \in Ends(c) : e # Read(p) /\ e # Write(p)

\* Unused says what Held does, by the table and the children.
LEMMA UnusedMeans ==
  ASSUME NEW p, ~Held(Read(p)), ~Held(Write(p))
  PROVE  Unused(p)
  BY DEF Held, Unused, Alive

\* What a descriptor is on, and what the ends of children are.
LEMMA EndIs ==
  ASSUME ExecConstants, NEW e \in End, NEW p \in Pipes
  PROVE  e[1] = p <=> e = Read(p) \/ e = Write(p)
  BY FdsAre DEF End, File, Closed, Read, Write

\* The ends that a child has are ends.
LEMMA EndsAre ==
  ASSUME ExecTypes, NEW c \in Pids
  PROVE  Ends(c) \subseteq End
<1>1. kids[c] \in Kid
  BY DEF ExecTypes
<1> QED
  BY <1>1 DEF Kid, Ends

\* The pipe for the output is opened: what lay before it was in use.
LEMMA OutputPiped ==
  ASSUME ExecConstants, ExecTypes, NEW q, NEW in \in Fds \cup {0}, NEW p \in Pipes, NEW r, NEW w,
         Owned(open, in, 0, 0, 0, 0), Before(open, in, 0, 0, 0, 0),
         Piped(open, q, p, r, w), Unused(p)
  PROVE  Before(q, in, w, 0, r, 0)
<1>1. /\ r \in Fds /\ w \in Fds /\ r < w /\ open[r] = Closed /\ open[w] = Closed
      /\ \A f \in Fds : open[f] = Closed => r <= f /\ (f = r \/ w <= f)
      /\ q \in [Fds -> End] /\ q[r] = Read(p) /\ q[w] = Write(p)
      /\ \A f \in Fds : f # r /\ f # w => q[f] = open[f]
  BY DEF Piped
<1>2. /\ Fds \subseteq Nat /\ r # w /\ r # 0 /\ w # 0 /\ Read(p) # Write(p)
      /\ Read(p) # Closed /\ Write(p) # Closed
  BY <1>1, FdsAre DEF Read, Write, Closed
<1>3. in # r /\ in # w
  BY <1>1, <1>2 DEF Owned
<1>4. FreshFds(q)
  <2> SUFFICES ASSUME NEW d \in Pids, Alive(d), NEW e \in Ends(d), e[1] # 0, NEW f \in Fds
               PROVE  q[f][1] # e[1]
    BY DEF FreshFds
  <2>1. open[f][1] # e[1]
    BY DEF Before, FreshFds
  <2>2. e[1] # p
    BY EndsAre, EndIs DEF Unused
  <2>3. Read(p)[1] = p /\ Write(p)[1] = p
    BY DEF Read, Write
  <2> QED
    BY <1>1, <2>1, <2>2, <2>3
<1>5. OnPipes(q, in, w, 0, r)
  <2> SUFFICES ASSUME NEW f \in Fds, NEW x \in Pipes
               PROVE  /\ q[f] = Read(x) => f \in {in, r}
                      /\ q[f] = Write(x) => f \in {w, 0} /\ r # 0 /\ q[r] = Read(x)
    BY DEF OnPipes
  <2>1. /\ open[f] = Read(x) => f = in
        /\ open[f] # Write(x)
    BY FdsAre DEF Before, OnPipes
  <2>2. Read(x) # Write(p) /\ Read(p) # Write(x) /\ (Write(x) = Write(p) => x = p)
    BY DEF Read, Write
  <2> QED
    BY <1>1, <1>2, <2>1, <2>2
<1>6. NumberedIn(q, in, w, r)
  <2>1. \A f \in Fds : f < r => q[f] # Closed
    BY <1>1, <1>2
  <2> QED
    BY <1>1, <1>2, <2>1 DEF NumberedIn
<1>7. q[r] \in Pipes \X {"read"} /\ (in # 0 => q[in] # q[r])
  BY <1>1, <1>3 DEF Read, Unused
<1> QED
  BY <1>4, <1>5, <1>6, <1>7 DEF Before

\* The output is opened, or a pipe that exec reads.
LEMMA OpenOutputStep ==
  ASSUME ExecConstants, ExecIInv, OpenOutput
  PROVE  ExecIInv'
<1>1. /\ ex.pc = "output" /\ UNCHANGED <<kids, table, host, lost, forgotten>>
  BY DEF OpenOutput
<1>2. PICK in, out, err, op, ef : /\ in = ex.inputId /\ out = ex.lastOutputId /\ err = ex.errorId
                                  /\ op = ex.outPipe /\ ef = ex.errFile
  OBVIOUS
<1>3. /\ err = 0 /\ ef = 0 /\ out = 0 /\ op = 0
      /\ open \in [Fds -> End]
      /\ Owned(open, in, out, err, op, ef)
      /\ lost = {} => Before(open, in, out, err, op, ef)
      /\ CallIs(ex, "output", ex.background, ex.words, in, out, err, op, ef, ex.pids, ex.firstArg)
      /\ {in, out, err, op, ef} \subseteq Fds \cup {0}
  BY <1>1, <1>2, OpeningIs
<1>4. CASE Opens("lastOutputId", "error")
  <2>1. PICK l : l = Lowest(open)
    OBVIOUS
  <2>2. /\ l \in Fds /\ open[l] = Closed /\ open' \in [Fds -> End]
        /\ open'[l] = File /\ \A f \in Fds : f # l => open'[f] = open[f]
    <3>1. Free(open) # {} /\ open' = NextOf(open, File)
      BY <1>4 DEF Opens
    <3> QED
      BY <1>3, <2>1, <3>1, NextOfIs, FdsAre
  <2>3. CallIs(ex', "error", ex.background, ex.words, in, l, err, op, ef, ex.pids, ex.firstArg)
    <3>1. ex' = [ex EXCEPT !.lastOutputId = l, !.pc = "error"]
      BY <1>4, <2>1 DEF Opens
    <3>2. CallIs([ex EXCEPT !.lastOutputId = l, !.pc = "error"], "error", ex.background, ex.words,
                 in, l, err, op, ef, ex.pids, ex.firstArg)
      BY <1>3, CallExcept
    <3> QED
      BY <3>1, <3>2
  <2>4. Owned(open', in, l, err, op, ef)
    BY <1>3, <2>2, OwnedOpened, FdsAre
  <2>5. lost = {} => Before(open', in, l, err, op, ef)
    BY <1>3, <2>2, FileOpened
  <2>6. \A f \in Fds : open[f] # Closed => open'[f] = open[f]
    BY <2>2
  <2> QED
    BY <1>1, <1>3, <2>2, <2>3, <2>4, <2>5, <2>6, OpenedStep
<1>5. CASE Goes("error")
  <2>1. open' = open
    BY <1>5 DEF Goes
  <2>2. CallIs(ex', "error", ex.background, ex.words, in, out, err, op, ef, ex.pids, ex.firstArg)
    <3>1. ex' = [ex EXCEPT !.pc = "error"]
      BY <1>5 DEF Goes
    <3>2. CallIs([ex EXCEPT !.pc = "error"], "error", ex.background, ex.words,
                 in, out, err, op, ef, ex.pids, ex.firstArg)
      BY <1>3, CallPut
    <3> QED
      BY <3>1, <3>2
  <2>3. /\ open' \in [Fds -> End] /\ \A f \in Fds : open[f] # Closed => open'[f] = open[f]
        /\ Owned(open', in, out, err, op, ef)
        /\ lost = {} => Before(open', in, out, err, op, ef)
    BY <1>3, <2>1
  <2> QED
    BY <1>1, <1>3, <2>2, <2>3, OpenedStep
<1>6. CASE /\ ~ex.background /\ MayPipe
           /\ LET p == PipeIn(open, UnusedPipe)
              IN /\ open' = p.open
                 /\ ex' = [ex EXCEPT !.lastOutputId = p.w, !.outPipe = p.r, !.pc = "error"]
  <2>0. ~ex.background
    BY <1>6
  <2>1. PICK p, r, w : p = UnusedPipe /\ r = PipeIn(open, UnusedPipe).r /\ w = PipeIn(open, UnusedPipe).w
    OBVIOUS
  <2>2. p \in Pipes /\ Unused(p) /\ Piped(open, open', p, r, w)
    BY <1>3, <1>6, <2>1, UnusedIs, UnusedMeans, PipeInIs
  <2>3. /\ r \in Fds /\ w \in Fds /\ r < w /\ open[r] = Closed /\ open[w] = Closed
        /\ open' \in [Fds -> End] /\ open'[r] = Read(p) /\ open'[w] = Write(p)
        /\ \A f \in Fds : f # r /\ f # w => open'[f] = open[f]
        /\ Read(p) # Closed /\ Write(p) # Closed
    BY <2>2 DEF Piped, Read, Write, Closed
  <2>4. CallIs(ex', "error", ex.background, ex.words, in, w, err, r, ef, ex.pids, ex.firstArg)
    <3>1. ex' = [ex EXCEPT !.lastOutputId = w, !.outPipe = r, !.pc = "error"]
      BY <1>6, <2>1
    <3>2. CallIs([ex EXCEPT !.lastOutputId = w, !.outPipe = r, !.pc = "error"], "error",
                 ex.background, ex.words, in, w, err, r, ef, ex.pids, ex.firstArg)
      BY <1>3, CallExcept
    <3> QED
      BY <3>1, <3>2
  <2>5. Owned(open', in, w, err, r, ef)
    <3>1. PICK q : q = [open EXCEPT ![r] = Read(p)]
      OBVIOUS
    <3>2. /\ q[r] = Read(p) /\ \A f \in Fds : f # r => q[f] = open[f]
      BY <1>3, <2>3, <3>1
    <3>3. Owned(q, in, out, err, r, ef)
      BY <1>3, <2>3, <3>2, OwnedOpened
    <3>4. r # w
      BY <2>3, FdsAre
    <3>5. q[w] = Closed /\ \A f \in Fds : f # w => open'[f] = q[f]
      BY <2>3, <3>2, <3>4
    <3> QED
      BY <1>3, <2>3, <3>3, <3>5, OwnedOpened
  <2>6. lost = {} => Before(open', in, w, err, r, ef)
    BY <1>3, <2>2, OutputPiped DEF ExecIInv
  <2>7. \A f \in Fds : open[f] # Closed => open'[f] = open[f]
    BY <2>3
  <2> QED
    BY <1>1, <1>3, <2>0, <2>3, <2>4, <2>5, <2>6, <2>7, OpenedStep
<1> QED
  BY <1>4, <1>5, <1>6 DEF OpenOutput

\* Errors that go where output goes.
LEMMA OutputJoined ==
  ASSUME ExecConstants, NEW o \in [Fds -> End], NEW q, NEW in, NEW out, NEW op,
         Owned(o, in, out, 0, op, 0), Before(o, in, out, 0, op, 0),
         {in, out, op} \subseteq Fds \cup {0}, out # 0,
         NEW l \in Fds, o[l] = Closed, q[l] = o[out], \A f \in Fds : f # l => q[f] = o[f]
  PROVE  Before(q, in, out, l, op, 0)
<1>1. l # 0 /\ l \notin {in, out, op} /\ o[out] # Closed
  BY FdsAre DEF Owned
<1>2. out # in /\ out # op
  BY DEF Owned, AllApart, Apart
<1>3. \A f \in {in, out, op} \ {0} : q[f] = o[f]
  BY <1>1
<1>4. /\ OnPipes(o, in, out, 0, op)
      /\ NumberedIn(o, in, out, op)
      /\ op # 0 => o[op] \in Pipes \X {"read"} /\ (in # 0 => o[in] # o[op])
      /\ FreshFds(o)
  BY DEF Before
<1>5. FreshFds(q)
  <2>1. \A f \in Fds : \E g \in Fds : q[f] = o[g]
    BY <1>1
  <2> QED
    BY <1>4, <2>1 DEF FreshFds
<1>6. OnPipes(q, in, out, l, op)
  <2> SUFFICES ASSUME NEW f \in Fds, NEW p \in Pipes
               PROVE  /\ q[f] = Read(p) => f \in {in, op}
                      /\ q[f] = Write(p) => f \in {out, l} /\ op # 0 /\ q[op] = Read(p)
    BY DEF OnPipes
  <2>1. \A g \in Fds : /\ o[g] = Read(p) => g \in {in, op}
                       /\ o[g] = Write(p) => g \in {out, 0} /\ op # 0 /\ o[op] = Read(p)
    BY <1>4 DEF OnPipes
  <2>2. CASE f = l
    BY <1>2, <1>3, <2>1, <2>2
  <2>3. CASE f # l
    BY <1>3, <2>1, <2>3, FdsAre
  <2> QED
    BY <2>2, <2>3
<1>7. NumberedIn(q, in, out, op)
  <2>1. \A f \in Fds : q[f] = Closed => o[f] = Closed
    BY <1>1
  <2> QED
    BY <1>4, <2>1 DEF NumberedIn
<1>8. op # 0 => q[op] \in Pipes \X {"read"} /\ (in # 0 => q[in] # q[op])
  BY <1>3, <1>4
<1> QED
  BY <1>5, <1>6, <1>7, <1>8 DEF Before

\* The errors get their file, with a second descriptor of a temporary one.
LEMMA OpenErrorStep ==
  ASSUME ExecConstants, ExecIInv, OpenError
  PROVE  ExecIInv'
<1>1. /\ ex.pc = "error" /\ UNCHANGED <<kids, table, host, lost, forgotten>>
  BY DEF OpenError
<1>2. PICK in, out, err, op, ef : /\ in = ex.inputId /\ out = ex.lastOutputId /\ err = ex.errorId
                                  /\ op = ex.outPipe /\ ef = ex.errFile
  OBVIOUS
<1>3. /\ err = 0 /\ ef = 0 /\ (ex.background => op = 0)
      /\ open \in [Fds -> End]
      /\ Owned(open, in, out, err, op, ef)
      /\ lost = {} => Before(open, in, out, err, op, ef)
      /\ CallIs(ex, "error", ex.background, ex.words, in, out, err, op, ef, ex.pids, ex.firstArg)
      /\ {in, out, err, op, ef} \subseteq Fds \cup {0}
  BY <1>1, <1>2, OpeningIs
<1>0. PICK l : l = Lowest(open)
  OBVIOUS
<1>4. CASE /\ out # JSI_BAD_FD /\ Free(open) # {}
           /\ open' = NextOf(open, open[out])
           /\ ex' = [ex EXCEPT !.errorId = Lowest(open), !.pc = "fork"]
  <2>1. out # 0 /\ open[out] \in End /\ open[out] # Closed
    BY <1>3, <1>4, FdsAre DEF JSI_BAD_FD, Owned
  <2>2. /\ l \in Fds /\ open[l] = Closed /\ open' \in [Fds -> End]
        /\ open'[l] = open[out] /\ \A f \in Fds : f # l => open'[f] = open[f]
    BY <1>0, <1>3, <1>4, <2>1, NextOfIs
  <2>3. CallIs(ex', "fork", ex.background, ex.words, in, out, l, op, ef, ex.pids, ex.firstArg)
    <3>1. ex' = [ex EXCEPT !.errorId = l, !.pc = "fork"]
      BY <1>0, <1>4
    <3>2. CallIs([ex EXCEPT !.errorId = l, !.pc = "fork"], "fork", ex.background, ex.words,
                 in, out, l, op, ef, ex.pids, ex.firstArg)
      BY <1>3, CallExcept
    <3> QED
      BY <3>1, <3>2
  <2>4. Owned(open', in, out, l, op, ef)
    BY <1>3, <2>1, <2>2, OwnedOpened
  <2>5. lost = {} => Before(open', in, out, l, op, ef)
    BY <1>3, <2>1, <2>2, OutputJoined
  <2>6. \A f \in Fds : open[f] # Closed => open'[f] = open[f]
    BY <2>2
  <2> QED
    BY <1>1, <1>3, <2>2, <2>3, <2>4, <2>5, <2>6, OpenedStep
<1>5. CASE Opens("errorId", "fork")
  <2>2. /\ l \in Fds /\ open[l] = Closed /\ open' \in [Fds -> End]
        /\ open'[l] = File /\ \A f \in Fds : f # l => open'[f] = open[f]
    <3>1. Free(open) # {} /\ open' = NextOf(open, File)
      BY <1>5 DEF Opens
    <3> QED
      BY <1>0, <1>3, <3>1, NextOfIs, FdsAre
  <2>3. CallIs(ex', "fork", ex.background, ex.words, in, out, l, op, ef, ex.pids, ex.firstArg)
    <3>1. ex' = [ex EXCEPT !.errorId = l, !.pc = "fork"]
      BY <1>0, <1>5 DEF Opens
    <3>2. CallIs([ex EXCEPT !.errorId = l, !.pc = "fork"], "fork", ex.background, ex.words,
                 in, out, l, op, ef, ex.pids, ex.firstArg)
      BY <1>3, CallExcept
    <3> QED
      BY <3>1, <3>2
  <2>4. Owned(open', in, out, l, op, ef)
    BY <1>3, <2>2, OwnedOpened, FdsAre
  <2>5. lost = {} => Before(open', in, out, l, op, ef)
    BY <1>3, <2>2, FileOpened
  <2>6. \A f \in Fds : open[f] # Closed => open'[f] = open[f]
    BY <2>2
  <2> QED
    BY <1>1, <1>3, <2>2, <2>3, <2>4, <2>5, <2>6, OpenedStep
<1>6. CASE Goes("fork")
  <2>1. open' = open
    BY <1>6 DEF Goes
  <2>2. CallIs(ex', "fork", ex.background, ex.words, in, out, err, op, ef, ex.pids, ex.firstArg)
    <3>1. ex' = [ex EXCEPT !.pc = "fork"]
      BY <1>6 DEF Goes
    <3>2. CallIs([ex EXCEPT !.pc = "fork"], "fork", ex.background, ex.words,
                 in, out, err, op, ef, ex.pids, ex.firstArg)
      BY <1>3, CallPut
    <3> QED
      BY <3>1, <3>2
  <2>3. /\ open' \in [Fds -> End] /\ \A f \in Fds : open[f] # Closed => open'[f] = open[f]
        /\ Owned(open', in, out, err, op, ef)
        /\ lost = {} => Before(open', in, out, err, op, ef)
    BY <1>3, <2>1
  <2> QED
    BY <1>1, <1>3, <2>2, <2>3, OpenedStep
<1>7. CASE /\ ~ex.background /\ Free(open) # {}
           /\ LET o == NextOf(open, File)
              IN \/ /\ Free(o) # {}
                    /\ open' = NextOf(o, File)
                    /\ ex' = [ex EXCEPT !.errorId = Lowest(open), !.errFile = Lowest(o), !.pc = "fork"]
                 \/ /\ open' = o
                    /\ ex' = [ex EXCEPT !.errorId = Lowest(open), !.pc = "fork"]
  <2>0. ~ex.background
    BY <1>7
  <2>1. PICK o : o = NextOf(open, File)
    OBVIOUS
  <2>2. /\ l \in Fds /\ open[l] = Closed /\ o \in [Fds -> End]
        /\ o[l] = File /\ \A f \in Fds : f # l => o[f] = open[f]
    BY <1>0, <1>3, <1>7, <2>1, NextOfIs, FdsAre
  <2>3. Owned(o, in, out, l, op, ef)
    BY <1>3, <2>2, OwnedOpened, FdsAre
  <2>4. lost = {} => Before(o, in, out, l, op, ef)
    BY <1>3, <2>2, FileOpened
  <2>5. \A f \in Fds : open[f] # Closed => o[f] = open[f]
    BY <2>2
  <2>6. CASE open' = o /\ ex' = [ex EXCEPT !.errorId = Lowest(open), !.pc = "fork"]
    <3>1. ex' = [ex EXCEPT !.errorId = l, !.pc = "fork"]
      BY <1>0, <2>6
    <3>2. CallIs([ex EXCEPT !.errorId = l, !.pc = "fork"], "fork", ex.background, ex.words,
                 in, out, l, op, ef, ex.pids, ex.firstArg)
      BY <1>3, CallExcept
    <3>3. CallIs(ex', "fork", ex.background, ex.words, in, out, l, op, ef, ex.pids, ex.firstArg)
      BY <3>1, <3>2
    <3> QED
      BY <1>1, <1>3, <2>2, <2>3, <2>4, <2>5, <2>6, <3>3, OpenedStep
  <2>7. CASE /\ Free(o) # {}
             /\ open' = NextOf(o, File)
             /\ ex' = [ex EXCEPT !.errorId = Lowest(open), !.errFile = Lowest(o), !.pc = "fork"]
    <3>0. PICK m : m = Lowest(o)
      OBVIOUS
    <3>1. /\ m \in Fds /\ o[m] = Closed /\ open' \in [Fds -> End]
          /\ open'[m] = File /\ \A f \in Fds : f # m => open'[f] = o[f]
      BY <2>2, <2>7, <3>0, NextOfIs, FdsAre
    <3>2. Owned(open', in, out, l, op, m)
      BY <1>3, <2>3, <3>1, OwnedOpened, FdsAre
    <3>3. lost = {} => Before(open', in, out, l, op, m)
      BY <1>3, <2>2, <2>3, <2>4, <3>1, FileOpened
    <3>4. ex' = [ex EXCEPT !.errorId = l, !.errFile = m, !.pc = "fork"]
      BY <1>0, <2>7, <3>0
    <3>5. CallIs([ex EXCEPT !.errorId = l, !.errFile = m, !.pc = "fork"], "fork", ex.background,
                 ex.words, in, out, l, op, m, ex.pids, ex.firstArg)
      BY <1>3, CallExcept
    <3>6. CallIs(ex', "fork", ex.background, ex.words, in, out, l, op, m, ex.pids, ex.firstArg)
      BY <3>4, <3>5
    <3>7. \A f \in Fds : open[f] # Closed => open'[f] = open[f]
      BY <2>5, <3>1
    <3> QED
      BY <1>1, <1>3, <2>0, <2>2, <3>1, <3>2, <3>3, <3>6, <3>7, OpenedStep
  <2> QED
    BY <1>7, <2>1, <2>6, <2>7
<1> QED
  BY <1>2, <1>4, <1>5, <1>6, <1>7 DEF OpenError

-----------------------------------------------------------------------------
(* Descriptors are closed and children end.                                *)

Same(c) == kids'[c] = kids[c] \/ kids'[c].st # "running"

\* Descriptors are closed, children end, and the first one may have been waited for.
Shrinks ==
  /\ \A f \in Fds : open'[f] = open[f] \/ open'[f] = Closed
  /\ \A c \in Pids : Same(c)
  /\ \/ ex'.pids = ex.pids
     \/ /\ ex.pids # <<>> /\ ex'.pids = Tail(ex.pids)
        /\ kids'[Head(ex.pids)].st # "running"

\* A child that is alive after the step was alive, with the same ends.
LEMMA AliveStill ==
  ASSUME NEW c, Same(c), Alive(c)'
  PROVE  Alive(c) /\ Ends(c)' = Ends(c) /\ kids'[c] = kids[c]
  BY DEF Same, Alive, Ends

\* The order of the children stays.
LEMMA OrderStays ==
  ASSUME NEW s \in Seq(Pids), NEW t,
         t = s \/ (s # <<>> /\ t = Tail(s))
  PROVE  /\ t \in Seq(Pids)
         /\ \E k \in {0, 1} : /\ k = 1 => s # <<>> /\ t = Tail(s)
                              /\ Len(t) = Len(s) - k
                              /\ \A j \in 1..Len(t) : j + k \in 1..Len(s) /\ t[j] = s[j + k]
         /\ Range(t) \subseteq Range(s)
         /\ \A c \in Range(s) : c \in Range(t) \/ (s # <<>> /\ t = Tail(s) /\ c = Head(s))
<1>1. CASE t = s
  <2>1. Len(t) = Len(s) - 0 /\ \A j \in 1..Len(t) : j + 0 \in 1..Len(s) /\ t[j] = s[j + 0]
    BY <1>1
  <2>2. \E k \in {0, 1} : /\ k = 1 => s # <<>> /\ t = Tail(s)
                          /\ Len(t) = Len(s) - k
                          /\ \A j \in 1..Len(t) : j + k \in 1..Len(s) /\ t[j] = s[j + k]
    <3> WITNESS 0 \in {0, 1}
    <3> QED
      BY <2>1
  <2> QED
    BY <1>1, <2>2
<1>2. CASE s # <<>> /\ t = Tail(s)
  <2>1. /\ t \in Seq(Pids) /\ Len(t) = Len(s) - 1 /\ Len(s) \in Nat \ {0}
        /\ \A j \in 1..Len(t) : t[j] = s[j + 1]
    BY <1>2, HeadTailProperties, EmptySeq
  <2>2. \A j \in 1..Len(t) : j + 1 \in 1..Len(s)
    BY <2>1
  <2>3. DOMAIN s = 1..Len(s) /\ DOMAIN t = 1..Len(t) /\ Head(s) = s[1]
    BY <2>1
  <2>4. Range(t) \subseteq Range(s)
    BY <2>1, <2>2, <2>3 DEF Range
  <2>5. \A c \in Range(s) : c \in Range(t) \/ c = Head(s)
    <3> SUFFICES ASSUME NEW i \in 1..Len(s), i # 1 PROVE s[i] \in Range(t)
      BY <2>3 DEF Range
    <3>1. i - 1 \in 1..Len(t) /\ (i - 1) + 1 = i
      BY <2>1
    <3>2. t[i - 1] = s[i]
      BY <2>1, <3>1
    <3> QED
      BY <2>3, <3>1, <3>2 DEF Range
  <2> QED
    BY <1>2, <2>1, <2>2, <2>4, <2>5
<1> QED
  BY <1>1, <1>2

\* A child that ends, or is waited for, keeps Fresh and Chained.
LEMMA Shrunk ==
  ASSUME ExecConstants, ExecTypes, InCall, Shrinks
  PROVE  /\ Own' \subseteq Own
         /\ \A c \in Own : Alive(c)' => c \in Own'
         /\ \A c \in Pids : Alive(c)' => Alive(c) /\ Ends(c)' = Ends(c) /\ kids'[c] = kids[c]
         /\ Fresh => Fresh'
         /\ Chained => Chained'
<1>0. PICK s, t : s = ex.pids /\ t = ex'.pids
  OBVIOUS
<1>1. s \in Seq(Pids) /\ (t = s \/ (s # <<>> /\ t = Tail(s)))
  BY <1>0, InCallIs DEF Shrinks
<1>2. Own = Range(s) /\ Own' = Range(t) /\ Own \subseteq Pids
  BY <1>0, <1>1 DEF Own, Range
<1>3. \A c \in Pids : Alive(c)' => Alive(c) /\ Ends(c)' = Ends(c) /\ kids'[c] = kids[c]
  BY AliveStill DEF Shrinks
<1>4. Own' \subseteq Own
  BY <1>1, <1>2, OrderStays
<1>5. \A c \in Own : Alive(c)' => c \in Own'
  <2> SUFFICES ASSUME NEW c \in Own, c \notin Own' PROVE ~Alive(c)'
    OBVIOUS
  <2>1. s # <<>> /\ t = Tail(s) /\ c = Head(s)
    BY <1>1, <1>2, OrderStays
  <2>2. t # s
    BY <1>2
  <2>3. kids'[Head(s)].st # "running"
    BY <1>0, <2>2 DEF Shrinks
  <2> QED
    BY <2>1, <2>3 DEF Alive
<1>6. \A f \in Fds : open'[f] = open[f] \/ open'[f] = Closed
  BY DEF Shrinks
<1>7. Fresh => Fresh'
  <2> SUFFICES ASSUME Fresh,
                      NEW d \in Pids, Alive(d)', d \notin Own', NEW e \in Ends(d)', e[1] # 0
               PROVE  /\ \A f \in Fds : open'[f][1] # e[1]
                      /\ \A c \in Own' : Alive(c)' => \A x \in Ends(c)' : x[1] # e[1]
    BY DEF Fresh
  <2>1. Alive(d) /\ d \notin Own /\ e \in Ends(d)
    BY <1>3, <1>5
  <2>2. /\ \A f \in Fds : open[f][1] # e[1]
        /\ \A c \in Own : Alive(c) => \A x \in Ends(c) : x[1] # e[1]
    BY <2>1 DEF Fresh
  <2>3. \A f \in Fds : open'[f][1] # e[1]
    BY <1>6, <2>2 DEF Closed
  <2>4. \A c \in Own' : Alive(c)' => \A x \in Ends(c)' : x[1] # e[1]
    BY <1>2, <1>3, <1>4, <2>2
  <2> QED
    BY <2>3, <2>4
<1>8. Chained => Chained'
  <2> SUFFICES ASSUME Chained,
                      NEW j \in 1..Len(t), NEW p \in Pipes, Alive(t[j])', Read(p) \in Ends(t[j])'
               PROVE  /\ kids'[t[j]].in = Read(p)
                      /\ \A f \in Fds : open'[f][1] # p
                      /\ \A i \in 1..Len(t) : Alive(t[i])' =>
                           /\ Read(p) \in Ends(t[i])' => i = j
                           /\ Write(p) \in Ends(t[i])' => i < j
    BY <1>0 DEF Chained
  <2>1. PICK k \in {0, 1} : /\ Len(t) = Len(s) - k
                            /\ \A i \in 1..Len(t) : i + k \in 1..Len(s) /\ t[i] = s[i + k]
    BY <1>1, OrderStays
  <2>2. Len(s) \in Nat /\ \A i \in 1..Len(s) : s[i] \in Pids
    BY <1>1
  <2>3. \A i \in 1..Len(t) : t[i] \in Pids
    BY <2>1, <2>2
  <2>4. Alive(t[j]) /\ Read(p) \in Ends(t[j]) /\ kids'[t[j]] = kids[t[j]]
    BY <1>3, <2>3
  <2>5. j + k \in 1..Len(s) /\ Alive(s[j + k]) /\ Read(p) \in Ends(s[j + k])
    BY <2>1, <2>4
  <2>6. PICK m : m = j + k
    OBVIOUS
  <2>7. /\ kids[s[m]].in = Read(p)
        /\ \A f \in Fds : open[f][1] # p
        /\ \A i \in 1..Len(s) : Alive(s[i]) =>
             /\ Read(p) \in Ends(s[i]) => i = m
             /\ Write(p) \in Ends(s[i]) => i < m
    BY <1>0, <2>5, <2>6 DEF Chained
  <2>8. kids'[t[j]].in = Read(p)
    BY <2>1, <2>4, <2>6, <2>7
  <2>9. \A f \in Fds : open'[f][1] # p
    BY <1>6, <2>7, FdsAre DEF Closed
  <2>10. \A i \in 1..Len(t) : Alive(t[i])' =>
            /\ Read(p) \in Ends(t[i])' => i = j
            /\ Write(p) \in Ends(t[i])' => i < j
    <3> SUFFICES ASSUME NEW i \in 1..Len(t), Alive(t[i])'
                 PROVE  /\ Read(p) \in Ends(t[i])' => i = j
                        /\ Write(p) \in Ends(t[i])' => i < j
      OBVIOUS
    <3>1. Alive(t[i]) /\ Ends(t[i])' = Ends(t[i])
      BY <1>3, <2>3
    <3>2. i + k \in 1..Len(s) /\ t[i] = s[i + k]
      BY <2>1
    <3>3. PICK h : h = i + k
      OBVIOUS
    <3>4. /\ Read(p) \in Ends(t[i]) => h = m
          /\ Write(p) \in Ends(t[i]) => h < m
      BY <2>7, <3>1, <3>2, <3>3
    <3> QED
      BY <2>1, <2>6, <3>1, <3>3, <3>4
  <2> QED
    BY <2>8, <2>9, <2>10
<1> QED
  BY <1>3, <1>4, <1>5, <1>7, <1>8

\* A child ends.
LEMMA ChildEndsStep ==
  ASSUME ExecConstants, ExecIInv, NEW c \in Pids, ChildEnds(c)
  PROVE  ExecIInv'
<1>1. /\ kids[c].st = "running" /\ UNCHANGED <<open, table, ex, host, lost, forgotten, execs>>
      /\ kids' = [kids EXCEPT ![c] = [NoKid EXCEPT !.st = "zombie"]]
      /\ kids \in [Pids -> Kid] /\ ExecTypes
  BY DEF ChildEnds, ExecIInv, ExecTypes
<1>2. [NoKid EXCEPT !.st = "zombie"] \in Kid /\ [NoKid EXCEPT !.st = "zombie"].st = "zombie"
  BY FdsAre DEF NoKid, Kid
<1>3. /\ kids' \in [Pids -> Kid]
      /\ \A d \in Pids : d # c => kids'[d] = kids[d]
      /\ kids'[c].st = "zombie"
  BY <1>1, <1>2
<1>4. ExecTypes'
  BY <1>1, <1>3 DEF ExecTypes, Locals
<1>5. KidsSound'
  <2>1. Existing' = Existing
    BY <1>1, <1>3 DEF Existing
  <2>2. /\ Known' = Known /\ InCall' = InCall
        /\ \A i : From(i)' = From(i) /\ OnceFrom(i)' = OnceFrom(i) /\ DetachedFrom(i)' = DetachedFrom(i)
    BY <1>1, <2>1 DEF Known, InCall, From, OnceFrom, DetachedFrom
  <2>3. From(ex.at)' = From(ex.at) /\ OnceFrom(ex.at)' = OnceFrom(ex.at)
        /\ DetachedFrom(ex.at)' = DetachedFrom(ex.at)
    BY <1>1 DEF From, OnceFrom, DetachedFrom
  <2> QED
    BY <1>1, <2>1, <2>2, <2>3 DEF KidsSound, ExecIInv
<1>6. FdsSound'
  <2>1. OpenFds' = OpenFds /\ Stay' = Stay /\ AtWork' = AtWork /\ More' = More
    BY <1>1 DEF OpenFds, Stay, AtWork, More
  <2> QED
    BY <1>1, <2>1 DEF ExecIInv, FdsSound
<1>7. PipesSound'
  <2>1. SUFFICES ASSUME lost = {}, ex.pc # "memory overwritten" PROVE PipesSound'
    BY <1>1 DEF PipesSound
  <2>2. /\ \A f \in host : open[f] = File
        /\ InCall => /\ Numbered /\ Fresh /\ FdsOnPipes /\ OutputReadByExec /\ InputForNext /\ Chained
                     /\ ex.errFile # 0 => open[ex.errFile] = File
    BY <2>1 DEF ExecIInv, PipesSound
  <2>3. ASSUME InCall
        PROVE  /\ Numbered' /\ Fresh' /\ FdsOnPipes' /\ OutputReadByExec' /\ InputForNext' /\ Chained'
    <3>1. Shrinks
      BY <1>1, <1>3 DEF Shrinks, Same
    <3>2. /\ Own' \subseteq Own /\ Own \subseteq Pids
          /\ \A d \in Pids : Alive(d)' => Alive(d) /\ Ends(d)' = Ends(d) /\ kids'[d] = kids[d]
          /\ Fresh' /\ Chained'
      BY <1>1, <2>2, <2>3, <3>1, Shrunk, InCallIs DEF Own, Range
    <3>3. Numbered' /\ FdsOnPipes'
      BY <1>1, <2>2, <2>3 DEF Numbered, FdsOnPipes
    <3>4. OutputReadByExec'
      BY <1>1, <2>2, <2>3, <3>2 DEF OutputReadByExec
    <3>5. InputForNext'
      BY <1>1, <2>2, <2>3, <3>2 DEF InputForNext
    <3> QED
      BY <3>2, <3>3, <3>4, <3>5
  <2>4. InCall' = InCall
    BY <1>1 DEF InCall
  <2> QED
    BY <1>1, <2>2, <2>3, <2>4 DEF PipesSound
<1> QED
  BY <1>4, <1>5, <1>6, <1>7 DEF ExecIInv

\* While exec reads and waits, the one pipe that it has is that of the output.
LEMMA ReadingFds ==
  ASSUME ExecConstants, ExecIInv, ex.pc \in Reading, lost = {}
  PROVE  /\ \A f \in Fds : \/ open[f] \in {File, Closed}
                           \/ f = ex.outPipe /\ open[f] \in Pipes \X {"read"}
         /\ Fresh /\ OutputReadByExec /\ Chained
         /\ \A f \in host : open[f] = File
         /\ ex.errFile # 0 => open[ex.errFile] = File
<1>1. InCall /\ ex.pc # "memory overwritten"
  BY DEF InCall, Reading
<1>2. /\ \A f \in host : open[f] = File
      /\ Fresh /\ OutputReadByExec /\ Chained
      /\ ex.errFile # 0 => open[ex.errFile] = File
  BY <1>1 DEF ExecIInv, PipesSound
<1>3. OpenFds = host \cup ({ex.outPipe, ex.errFile} \ {0})
  BY DEF ExecIInv, FdsSound, Stay
<1>4. \A f \in Fds : f # 0
  BY FdsAre
<1>5. \A f \in Fds : open[f] = Closed \/ f \in host \/ f = ex.errFile \/ f = ex.outPipe
  BY <1>3 DEF OpenFds
<1> QED
  BY <1>2, <1>4, <1>5 DEF OutputReadByExec

\* Steps while exec reads and waits keep PipesSound.
LEMMA ReadingPipes ==
  ASSUME ExecConstants, ExecTypes, InCall, ex'.pc \in Reading, Shrinks,
         UNCHANGED host,
         Fresh, OutputReadByExec, Chained,
         ex'.inputId = ex.inputId, ex'.inputId \in Fds \cup {0}, ex'.outPipe \in {ex.outPipe, 0},
         \A f \in Fds : open'[f] \in {File, Closed} \/ f = ex'.outPipe,
         ex'.outPipe # 0 => open'[ex'.outPipe] = open[ex'.outPipe],
         Apart(ex'.inputId, ex'.outPipe),
         \A f \in host : open'[f] = File,
         ex'.errFile # 0 => open'[ex'.errFile] = File
  PROVE  PipesSound'
<1>1. /\ Own' \subseteq Own /\ Own \subseteq Pids
      /\ \A d \in Pids : Alive(d)' => Alive(d) /\ Ends(d)' = Ends(d) /\ kids'[d] = kids[d]
      /\ Fresh' /\ Chained'
  <2>1. ex.pids \in Seq(Pids)
    BY InCallIs
  <2>2. Own \subseteq Pids
    BY <2>1 DEF Own, Range
  <2> QED
    BY <2>2, Shrunk
<1>2. Numbered'
  BY DEF Numbered, Reading
<1>3. \A p \in Pipes : Read(p) \notin {File, Closed} /\ Write(p) \notin {File, Closed}
  BY DEF Read, Write, File, Closed
<1>4. OutputReadByExec'
  <2>1. SUFFICES ASSUME ex'.outPipe # 0 PROVE OutputReadByExec'
    BY DEF OutputReadByExec
  <2>2. PICK op : op = ex'.outPipe /\ op = ex.outPipe /\ op # 0 /\ open'[op] = open[op]
    BY <2>1
  <2>3. /\ open[op] \in Pipes \X {"read"}
        /\ \A c \in Own : Alive(c) => open[op] \notin Ends(c)
    BY <2>2 DEF OutputReadByExec
  <2>4. ex'.inputId # 0 => open'[ex'.inputId] \in {File, Closed}
    BY <2>2 DEF Apart
  <2>5. open[op] \notin {File, Closed}
    BY <2>3 DEF File, Closed
  <2>6. \A c \in Own' : Alive(c)' => open'[op] \notin Ends(c)'
    BY <1>1, <2>2, <2>3
  <2> QED
    BY <2>2, <2>3, <2>4, <2>5, <2>6 DEF OutputReadByExec
<1>5. InputForNext'
  <2>1. ex'.inputId # 0 => open'[ex'.inputId] \in {File, Closed} \/ ex'.inputId = ex'.outPipe
    OBVIOUS
  <2>2. ~IsRead(File) /\ ~IsRead(Closed)
    BY DEF IsRead, File, Closed
  <2>3. ex'.inputId # 0 => ex'.inputId # ex'.outPipe
    BY DEF Apart
  <2> QED
    BY <2>1, <2>2, <2>3 DEF InputForNext, IsRead
<1>6. FdsOnPipes'
  <2> SUFFICES ASSUME NEW f \in Fds, NEW p \in Pipes
               PROVE  /\ open'[f] = Read(p) => f \in {ex'.inputId, ex'.outPipe}
                      /\ open'[f] # Write(p)
    BY DEF FdsOnPipes
  <2>1. f = ex'.outPipe => open'[f] \in Pipes \X {"read"}
    BY <1>4, FdsAre DEF OutputReadByExec
  <2>2. Write(p) \notin Pipes \X {"read"}
    BY DEF Write
  <2> QED
    BY <1>3, <2>1, <2>2
<1> QED
  BY <1>1, <1>2, <1>4, <1>5, <1>6 DEF PipesSound

\* The children of a call that ends are detached.
LEMMA DetachedIs ==
  ASSUME ExecIInv, InCall, ex' = Idle, table' = Detached(table, ex.pids),
         UNCHANGED <<kids, forgotten>>
  PROVE  KidsSound' /\ table' \in Seq(Entry)
<1>1. /\ table \in Seq(Entry) /\ Known = From(1) /\ OnceFrom(1) /\ From(1) = Range(ex.pids)
      /\ forgotten \subseteq Existing
  BY DEF ExecIInv, ExecTypes, KidsSound
<1>2. PICK n \in Nat : n = Len(table)
  BY <1>1
<1>3. \A k \in 1..n : table[k] \in Entry /\ table[k].pid \in Range(ex.pids)
  BY <1>1, <1>2 DEF From
<1>4. table' = [k \in 1..n |-> [table[k] EXCEPT !.detached = TRUE]]
  BY <1>2, <1>3 DEF Detached
<1>5. \A k \in 1..n : /\ [table[k] EXCEPT !.detached = TRUE] \in Entry
                      /\ [table[k] EXCEPT !.detached = TRUE].pid = table[k].pid
                      /\ [table[k] EXCEPT !.detached = TRUE].detached
  BY <1>3 DEF Entry
<1>6. table' \in [1..n -> Entry]
  BY <1>4, <1>5
<1>7. table' \in Seq(Entry) /\ Len(table') = n
  BY <1>2, <1>6 DEF Seq
<1>8. \A k \in 1..n : table'[k].pid = table[k].pid /\ table'[k].detached
  BY <1>4, <1>5
<1>9. From(1)' = From(1) /\ OnceFrom(1)' /\ DetachedFrom(1)'
  BY <1>1, <1>2, <1>7, <1>8 DEF From, OnceFrom, DetachedFrom
<1>10. Known' = Known /\ Existing' = Existing
  BY DEF Known, Existing
<1>11. ex'.pc = "idle" /\ ~InCall'
  BY DEF Idle, InCall, Forking, Reading
<1> QED
  BY <1>1, <1>7, <1>9, <1>10, <1>11 DEF KidsSound

\* When the call ends, the descriptors that stay are open and no others.
LEMMA IdleAgain ==
  ASSUME ExecIInv, ex' = Idle, open' \in [Fds -> End], table' \in Seq(Entry), kids' \in [Pids -> Kid],
         KidsSound', UNCHANGED host, lost \subseteq lost', lost' \subseteq Fds, OpenFds' = Stay',
         \A f \in host : open'[f] = open[f], ex.pc # "memory overwritten"
  PROVE  ExecIInv'
<1>1. ex'.pc = "idle" /\ ~InCall' /\ ex'.pc \notin Forking \cup Reading
  BY DEF Idle, InCall, Forking, Reading
<1>2. ExecTypes'
  BY DEF ExecIInv, ExecTypes, Locals
<1>3. FdsSound'
  BY <1>1 DEF FdsSound
<1>4. PipesSound'
  BY <1>1 DEF PipesSound, ExecIInv
<1> QED
  BY <1>2, <1>3, <1>4 DEF ExecIInv

\* The cleanup after an error closes what was opened, but for the descriptor that leaks.
LEMMA FailsStep ==
  ASSUME ExecConstants, ExecIInv, ex.pc \in Forking, ex.pc # "fork" \/ More,
         NEW o \in [Fds -> End], NEW others, NEW leak,
         \A f \in Fds : f \notin others => o[f] = open[f],
         \A f \in others : f \in Fds /\ open[f] = Closed,
         leak \subseteq {ex.errorId} \ {0},
         Fails(o, others, leak)
  PROVE  ExecIInv'
<1>1. PICK in, out, err, op, ef : /\ in = ex.inputId /\ out = ex.lastOutputId /\ err = ex.errorId
                                  /\ op = ex.outPipe /\ ef = ex.errFile
  OBVIOUS
<1>2. Owned(open, in, out, err, op, ef)
  BY <1>1, OwnedIs
<1>3. /\ open' = Close(o, (others \cup {in, out, err, op, ef}) \ leak)
      /\ table' = Detached(table, ex.pids) /\ ex' = Idle /\ lost' = lost \cup leak
      /\ UNCHANGED <<kids, host, forgotten, execs>>
      /\ leak \subseteq {err} \ {0}
      /\ InCall /\ ex.pc # "memory overwritten"
  <2>1. open' = Close(o, (others \cup {ex.outPipe, ex.errFile, ex.inputId, ex.lastOutputId, ex.errorId}) \ leak)
    BY DEF Fails
  <2>2. {ex.outPipe, ex.errFile, ex.inputId, ex.lastOutputId, ex.errorId} = {in, out, err, op, ef}
    BY <1>1
  <2> QED
    BY <1>1, <2>1, <2>2 DEF Fails, InCall, Forking
<1>4. /\ open' \in [Fds -> End]
      /\ \A f \in Fds : open'[f] = IF f \in (others \cup {in, out, err, op, ef}) \ leak THEN Closed ELSE o[f]
  <2>1. PICK S : S = (others \cup {in, out, err, op, ef}) \ leak
    OBVIOUS
  <2>2. open' = Close(o, S)
    BY <1>3, <2>1
  <2>3. open' \in [Fds -> End] /\ \A f \in Fds : open'[f] = IF f \in S THEN Closed ELSE o[f]
    BY <2>2, CloseIs
  <2> QED
    BY <2>1, <2>3
<1>5. /\ {f \in Fds : open[f] # Closed} = Stay \cup ({in, out, err, op, ef} \ {0})
      /\ {in, out, err, op, ef} \cap Stay = {}
  BY <1>2 DEF Owned
<1>6. /\ host \subseteq Fds /\ lost \subseteq Fds /\ {in, out, err, op, ef} \subseteq Fds \cup {0}
      /\ kids \in [Pids -> Kid]
  BY <1>1, <1>3, InCallIs DEF ExecIInv, ExecTypes
<1>7. \A f \in Stay : f \in Fds /\ open'[f] = open[f] /\ open[f] # Closed
  BY <1>4, <1>5, <1>6 DEF Stay
<1>8. \A f \in leak : f \in Fds /\ open'[f] = open[f] /\ open[f] # Closed
  BY <1>3, <1>4, <1>5, <1>6
<1>9. \A f \in Fds : f \notin Stay /\ f \notin leak => open'[f] = Closed
  BY <1>4, <1>5, FdsAre
<1>10. OpenFds' = Stay'
  <2>1. \A f : f \in Stay \cup leak <=> f \in Fds /\ open'[f] # Closed
    BY <1>7, <1>8, <1>9
  <2>2. Stay' = Stay \cup leak
    BY <1>3 DEF Stay
  <2> QED
    BY <2>1, <2>2 DEF OpenFds
<1>11. KidsSound' /\ table' \in Seq(Entry)
  BY <1>3, DetachedIs
<1>12. lost \subseteq lost' /\ lost' \subseteq Fds /\ kids' \in [Pids -> Kid]
  BY <1>3, <1>6, <1>8
<1>13. \A f \in host : open'[f] = open[f]
  BY <1>7 DEF Stay
<1> QED
  BY <1>3, <1>4, <1>10, <1>11, <1>12, <1>13, IdleAgain

\* A system call fails.
LEMMA FailureStep ==
  ASSUME ExecConstants, ExecIInv, Failure
  PROVE  ExecIInv'
<1>1. ex.pc \in Forking /\ (ex.pc # "fork" \/ More) /\ Fails(open, {}, {})
  BY DEF Failure, Forking, More
<1>2. open \in [Fds -> End]
  BY DEF ExecIInv, ExecTypes
<1> QED
  BY <1>1, <1>2, FailsStep

\* vfork() fails behind a pipe.
LEMMA ForkFailsStep ==
  ASSUME ExecConstants, ExecIInv, ForkFails
  PROVE  ExecIInv'
<1>1. ex.pc \in Forking /\ More /\ MayPipe
  BY DEF ForkFails, Forking
<1>2. PICK q, p, r, w, leak :
         /\ p = UnusedPipe /\ q = PipeIn(open, UnusedPipe).open
         /\ r = PipeIn(open, UnusedPipe).r /\ w = PipeIn(open, UnusedPipe).w
         /\ leak = IF JoinsErrors THEN {ex.errorId} \ {JSI_BAD_FD} ELSE {}
  OBVIOUS
<1>3. open \in [Fds -> End]
  BY DEF ExecIInv, ExecTypes
<1>4. p \in Pipes /\ Piped(open, q, p, r, w)
  BY <1>1, <1>2, <1>3, UnusedIs, PipeInIs
<1>5. /\ q \in [Fds -> End]
      /\ \A f \in Fds : f \notin {r, w} => q[f] = open[f]
      /\ \A f \in {r, w} : f \in Fds /\ open[f] = Closed
  BY <1>4 DEF Piped
<1>6. leak \subseteq {ex.errorId} \ {0}
  BY <1>2 DEF JSI_BAD_FD
<1>7. Fails(q, {r, w}, leak)
  BY <1>2 DEF ForkFails
<1> QED
  BY <1>1, <1>5, <1>6, <1>7, FailsStep

\* All children have been forked.
LEMMA StartedStep ==
  ASSUME ExecConstants, ExecIInv, Started
  PROVE  ExecIInv'
<1>1. PICK in, out, err, op, ef : /\ in = ex.inputId /\ out = ex.lastOutputId /\ err = ex.errorId
                                  /\ op = ex.outPipe /\ ef = ex.errFile
  OBVIOUS
<1>2. /\ ex.pc = "fork" /\ InCall /\ ex.pc # "memory overwritten" /\ ex.pc \in Forking
      /\ UNCHANGED <<kids, host, lost, forgotten>>
      /\ ExecTypes
  BY DEF Started, InCall, Forking, ExecIInv
<1>3. /\ open' \in [Fds -> End]
      /\ \A f \in Fds : open'[f] = IF f \in {in, out, err} THEN Closed ELSE open[f]
  <2>1. open' = Close(open, {in, out, err})
    BY <1>1 DEF Started
  <2>2. PICK S : S = {in, out, err}
    OBVIOUS
  <2>3. open' \in [Fds -> End] /\ \A f \in Fds : open'[f] = IF f \in S THEN Closed ELSE open[f]
    BY <1>2, <2>1, <2>2, CloseIs DEF ExecTypes
  <2> QED
    BY <2>2, <2>3
<1>4. /\ Stay \subseteq OpenFds /\ OpenFds \subseteq Stay \cup ({in, out, err, op, ef} \ {0})
      /\ ({in, out, err, op, ef} \ {0}) \cap Stay = {}
      /\ AllApart(in, out, err, op, ef)
      /\ {op, ef} \ {0} \subseteq OpenFds
      /\ ex.background => op = 0 /\ ef = 0
  BY <1>1, <1>2 DEF ExecIInv, FdsSound, AtWork
<1>5. /\ {in, out, err, op, ef} \subseteq Fds \cup {0} /\ 0 \notin Fds
      /\ host \subseteq Fds /\ lost \subseteq Fds /\ kids \in [Pids -> Kid] /\ table \in Seq(Entry)
  BY <1>1, <1>2, InCallIs, FdsAre DEF ExecTypes
<1>6. \A f \in {op, ef} : f # 0 => f \notin {in, out, err}
  BY <1>4 DEF AllApart, Apart
<1>7. OpenFds' = Stay \cup ({op, ef} \ {0}) /\ Stay' = Stay
  <2>1. \A f : f \in Stay => f \in Fds /\ open'[f] = open[f] /\ open[f] # Closed
    BY <1>3, <1>4, <1>5 DEF OpenFds, Stay
  <2>2. \A f \in {op, ef} \ {0} : f \in Fds /\ open'[f] = open[f] /\ open[f] # Closed
    BY <1>3, <1>4, <1>5, <1>6 DEF OpenFds
  <2>3. \A f \in Fds : open'[f] # Closed => f \in Stay \cup ({op, ef} \ {0})
    BY <1>3, <1>4 DEF OpenFds
  <2>4. \A f : f \in Stay \cup ({op, ef} \ {0}) <=> f \in Fds /\ open'[f] # Closed
    BY <2>1, <2>2, <2>3
  <2> QED
    BY <1>2, <2>4 DEF OpenFds, Stay
<1>8. \A f \in host : open'[f] = open[f]
  BY <1>3, <1>4, <1>5 DEF OpenFds, Stay
<1>9. CASE ex.background
  <2>1. ex' = Idle /\ table' = Detached(table, ex.pids)
    BY <1>9 DEF Started
  <2>2. KidsSound' /\ table' \in Seq(Entry)
    BY <1>2, <2>1, DetachedIs
  <2>3. OpenFds' = Stay' /\ lost \subseteq lost' /\ lost' \subseteq Fds /\ kids' \in [Pids -> Kid]
    BY <1>2, <1>4, <1>5, <1>7, <1>9
  <2> QED
    BY <1>2, <1>3, <1>8, <2>1, <2>2, <2>3, IdleAgain
<1>10. CASE ~ex.background
  <2>1. ex' = [ex EXCEPT !.pc = "read"] /\ table' = table
    BY <1>10 DEF Started
  <2>2. CallIs(ex, ex.pc, ex.background, ex.words, in, out, err, op, ef, ex.pids, ex.firstArg)
    BY <1>1, <1>2, InCallIs
  <2>3. CallIs(ex', "read", ex.background, ex.words, in, out, err, op, ef, ex.pids, ex.firstArg)
    <3>1. CallIs([ex EXCEPT !.pc = "read"], "read", ex.background, ex.words, in, out, err, op, ef,
                 ex.pids, ex.firstArg)
      BY <2>2, CallPut
    <3> QED
      BY <2>1, <3>1
  <2>4. /\ ex'.pc = "read" /\ ex'.inputId = in /\ ex'.lastOutputId = out /\ ex'.errorId = err
        /\ ex'.outPipe = op /\ ex'.errFile = ef /\ ex'.pids = ex.pids
    BY <2>3, CallFields
  <2>5. InCall' /\ ex'.pc \in Reading /\ ex'.pc \notin Forking
    BY <2>4 DEF InCall, Reading, Forking
  <2>6. ExecTypes'
    <3>1. /\ ex.background \in BOOLEAN /\ Len(ex.words.args) \in Nat /\ ex.firstArg \in Nat
          /\ ex.pids \in Seq(Pids)
      BY <1>2, InCallIs
    <3>2. "read" \in Forking \cup Reading \cup {"memory overwritten"}
      BY DEF Reading
    <3>3. Locals'
      BY <1>5, <2>3, <3>1, <3>2, CallTyped
    <3> QED
      BY <1>2, <1>3, <1>5, <2>1, <3>3 DEF ExecTypes
  <2>7. KidsSound'
    BY <1>2, <2>1, <2>4, <2>5, KidsSame DEF ExecIInv
  <2>8. FdsSound'
    <3>1. {op, ef} \cap Stay = {}
      BY <1>4, <1>5 DEF Stay
    <3> QED
      BY <1>4, <1>7, <2>4, <2>5, <3>1 DEF FdsSound
  <2>9. PipesSound'
    <3>1. SUFFICES ASSUME lost = {} PROVE PipesSound'
      BY <1>2 DEF PipesSound
    <3>2. /\ \A f \in host : open[f] = File
          /\ Fresh /\ OutputReadByExec /\ Chained /\ (ef # 0 => open[ef] = File)
      BY <1>1, <1>2, <3>1 DEF ExecIInv, PipesSound
    <3>3. \A f \in Fds : open'[f] \in {File, Closed} \/ f = op
      <4> SUFFICES ASSUME NEW f \in Fds, open'[f] # Closed, f # op PROVE open'[f] = File
        OBVIOUS
      <4>1. f \in host \/ f = ef
        BY <1>7, <3>1 DEF OpenFds, Stay
      <4>2. open'[f] = open[f] /\ f # 0
        BY <1>3, <1>5
      <4> QED
        BY <3>2, <4>1, <4>2
    <3>4. \A f \in {op, ef} : f # 0 => open'[f] = open[f]
      BY <1>3, <1>5, <1>6
    <3>5. Shrinks
      BY <1>2, <1>3, <2>4 DEF Shrinks, Same
    <3>6. Apart(in, op)
      BY <1>4 DEF AllApart
    <3>7. \A f \in host : open'[f] = File
      BY <1>8, <3>2
    <3>8. /\ ex'.inputId = ex.inputId /\ ex'.inputId \in Fds \cup {0} /\ ex'.outPipe \in {ex.outPipe, 0}
          /\ \A f \in Fds : open'[f] \in {File, Closed} \/ f = ex'.outPipe
          /\ ex'.outPipe # 0 => open'[ex'.outPipe] = open[ex'.outPipe]
          /\ Apart(ex'.inputId, ex'.outPipe)
          /\ ex'.errFile # 0 => open'[ex'.errFile] = File
      BY <1>1, <1>5, <2>4, <3>2, <3>3, <3>4, <3>6
    <3> QED
      BY <1>2, <2>5, <3>2, <3>5, <3>7, <3>8, ReadingPipes
  <2> QED
    BY <2>6, <2>7, <2>8, <2>9 DEF ExecIInv
<1> QED
  BY <1>9, <1>10

\* The output has been read to its end, or could not be.
LEMMA ReadOutputStep ==
  ASSUME ExecConstants, ExecIInv, ReadOutput
  PROVE  ExecIInv'
<1>1. PICK in, out, err, op, ef : /\ in = ex.inputId /\ out = ex.lastOutputId /\ err = ex.errorId
                                  /\ op = ex.outPipe /\ ef = ex.errFile
  OBVIOUS
<1>2. /\ ex.pc = "read" /\ InCall /\ ex.pc \in Reading /\ ExecTypes
      /\ UNCHANGED <<kids, table, host, forgotten>>
      /\ ex' = [ex EXCEPT !.outPipe = JSI_BAD_FD, !.pc = "wait"]
  BY DEF ReadOutput, Drops, InCall, Reading, ExecIInv
<1>3. \/ open' = Close(open, {op}) /\ lost' = lost
      \/ op # 0 /\ lost' = lost \cup {op} /\ open' = open
  BY <1>1 DEF ReadOutput, JSI_BAD_FD
<1>4. /\ OpenFds = Stay \cup ({op, ef} \ {0})
      /\ {op, ef} \cap Stay = {} /\ AllApart(in, out, err, op, ef)
  BY <1>1, <1>2 DEF ExecIInv, FdsSound
<1>5. /\ {in, out, err, op, ef} \subseteq Fds \cup {0} /\ 0 \notin Fds
      /\ host \subseteq Fds /\ lost \subseteq Fds /\ kids \in [Pids -> Kid] /\ table \in Seq(Entry)
      /\ open \in [Fds -> End]
  BY <1>1, <1>2, InCallIs, FdsAre DEF ExecTypes
<1>6. CallIs(ex', "wait", ex.background, ex.words, in, out, err, 0, ef, ex.pids, ex.firstArg)
  <2>1. CallIs(ex, ex.pc, ex.background, ex.words, in, out, err, op, ef, ex.pids, ex.firstArg)
    BY <1>1, <1>2, InCallIs
  <2>2. CallIs([ex EXCEPT !.outPipe = 0, !.pc = "wait"], "wait", ex.background, ex.words,
               in, out, err, 0, ef, ex.pids, ex.firstArg)
    BY <2>1, CallExcept
  <2> QED
    BY <1>2, <2>2 DEF JSI_BAD_FD
<1>7. /\ ex'.pc = "wait" /\ ex'.inputId = in /\ ex'.lastOutputId = out /\ ex'.errorId = err
      /\ ex'.outPipe = 0 /\ ex'.errFile = ef /\ ex'.pids = ex.pids
  BY <1>6, CallFields
<1>8. InCall' /\ ex'.pc \in Reading /\ ex'.pc \notin Forking
  BY <1>7 DEF InCall, Reading, Forking
<1>9. /\ open' \in [Fds -> End]
      /\ \A f \in Fds : open'[f] = open[f] \/ (f = op /\ lost' = lost /\ open'[f] = Closed)
      /\ lost' = lost => \A f \in Fds : f = op => open'[f] = Closed
  <2>1. op \notin lost
    BY <1>4 DEF Stay
  <2>2. CASE open' = Close(open, {op}) /\ lost' = lost
    <3>1. open' \in [Fds -> End] /\ \A f \in Fds : open'[f] = IF f \in {op} THEN Closed ELSE open[f]
      BY <1>5, <2>2, CloseIs
    <3> QED
      BY <2>2, <3>1
  <2>3. CASE op # 0 /\ lost' = lost \cup {op} /\ open' = open
    BY <1>5, <2>1, <2>3
  <2> QED
    BY <1>3, <2>2, <2>3
<1>10. ExecTypes'
  <2>1. /\ ex.background \in BOOLEAN /\ Len(ex.words.args) \in Nat /\ ex.firstArg \in Nat
        /\ ex.pids \in Seq(Pids)
    BY <1>2, InCallIs
  <2>2. "wait" \in Forking \cup Reading \cup {"memory overwritten"}
    BY DEF Reading
  <2>3. Locals'
    BY <1>5, <1>6, <2>1, <2>2, CallTyped
  <2>4. lost' \subseteq Fds
    BY <1>3, <1>5
  <2> QED
    BY <1>2, <1>5, <1>9, <2>3, <2>4 DEF ExecTypes
<1>11. KidsSound'
  BY <1>2, <1>7, <1>8, KidsSame DEF ExecIInv
<1>12. FdsSound'
  <2>1. op # 0 => op # ef
    BY <1>4 DEF AllApart, Apart
  <2>2. OpenFds' = Stay' \cup ({0, ef} \ {0}) /\ {0, ef} \cap Stay' = {}
    <3>1. CASE open' = Close(open, {op}) /\ lost' = lost
      <4>1. \A f \in Fds : open'[f] = IF f \in {op} THEN Closed ELSE open[f]
        BY <1>5, <3>1, CloseIs
      <4>2. Stay' = Stay
        BY <1>2, <3>1 DEF Stay
      <4>3. OpenFds' = OpenFds \ {op}
        BY <4>1 DEF OpenFds
      <4> QED
        BY <1>4, <1>5, <2>1, <4>2, <4>3 DEF Stay
    <3>2. CASE op # 0 /\ lost' = lost \cup {op} /\ open' = open
      <4>1. Stay' = Stay \cup {op} /\ OpenFds' = OpenFds
        BY <1>2, <3>2 DEF Stay, OpenFds
      <4>2. 0 \notin Stay
        BY <1>5 DEF Stay
      <4>3. ef # 0 => ef \notin Stay
        BY <1>4
      <4> QED
        BY <1>4, <2>1, <3>2, <4>1, <4>2, <4>3
    <3> QED
      BY <1>3, <3>1, <3>2
  <2>3. AllApart(in, out, err, 0, ef)
    BY <1>4 DEF AllApart, Apart
  <2> QED
    BY <1>7, <1>8, <2>2, <2>3 DEF FdsSound
<1>13. PipesSound'
  <2>1. SUFFICES ASSUME lost' = {} PROVE PipesSound'
    BY DEF PipesSound
  <2>2. lost = {} /\ lost' = lost
    BY <1>3, <2>1
  <2>3. /\ \A f \in Fds : open[f] \in {File, Closed} \/ f = op
        /\ Fresh /\ OutputReadByExec /\ Chained
        /\ \A f \in host : open[f] = File
        /\ ef # 0 => open[ef] = File
    BY <1>1, <1>2, <2>2, ReadingFds
  <2>4. \A f \in Fds : f # op => open'[f] = open[f]
    BY <1>9
  <2>5. Shrinks
    BY <1>2, <1>7, <1>9 DEF Shrinks, Same
  <2>6. \A f \in host : open'[f] = File
    BY <1>4, <1>5, <2>3, <2>4 DEF Stay
  <2>7. ef # 0 => open'[ef] = File
    BY <1>4, <1>5, <2>3, <2>4 DEF AllApart, Apart
  <2>8. \A f \in Fds : open'[f] \in {File, Closed}
    BY <1>9, <2>2, <2>3, <2>4
  <2>9. /\ ex'.inputId = ex.inputId /\ ex'.inputId \in Fds \cup {0} /\ ex'.outPipe \in {ex.outPipe, 0}
        /\ \A f \in Fds : open'[f] \in {File, Closed} \/ f = ex'.outPipe
        /\ ex'.outPipe # 0 => open'[ex'.outPipe] = open[ex'.outPipe]
        /\ Apart(ex'.inputId, ex'.outPipe)
        /\ ex'.errFile # 0 => open'[ex'.errFile] = File
    BY <1>1, <1>5, <1>7, <2>7, <2>8 DEF Apart
  <2> QED
    BY <1>2, <1>8, <2>3, <2>5, <2>6, <2>9, ReadingPipes
<1> QED
  BY <1>10, <1>11, <1>12, <1>13 DEF ExecIInv

\* An entry of the table is taken out.
Once(t) == \A j, k \in 1..Len(t) : t[j].pid = t[k].pid => j = k
Without(t, n, u) ==
  /\ u \in Seq(Entry) /\ Len(u) = Len(t) - 1
  /\ \A k \in 1..(Len(t) - 1) : u[k] = IF k = n THEN t[Len(t)] ELSE t[k]

\* The last entry takes the place of the one taken out.
LEMMA TakenOutIs ==
  ASSUME NEW t \in Seq(Entry), NEW pid, NEW n \in 1..Len(t), t[n].pid = pid, Once(t)
  PROVE  Without(t, n, TakenOut(t, pid))
<1>1. /\ Len(t) \in Nat \ {0} /\ DOMAIN t = 1..Len(t) /\ Len(t) \in 1..Len(t)
      /\ \A k \in 1..Len(t) : t[k] \in Entry
  OBVIOUS
<1>2. (CHOOSE i \in DOMAIN t : t[i].pid = pid) = n
  BY <1>1 DEF Once
<1>3. PICK u : u = [t EXCEPT ![n] = t[Len(t)]]
  OBVIOUS
<1>4. /\ u \in Seq(Entry) /\ Len(u) = Len(t)
      /\ \A k \in 1..Len(t) : u[k] = IF k = n THEN t[Len(t)] ELSE t[k]
  BY <1>1, <1>3, ExceptSeq
<1>5. TakenOut(t, pid) = SubSeq(u, 1, Len(t) - 1)
  BY <1>2, <1>3, <1>4 DEF TakenOut, Front
<1>6. PICK m \in Nat : m = Len(t) - 1
  <2>1. Len(t) - 1 \in Nat
    BY <1>1
  <2> QED
    BY <2>1
<1>7. /\ SubSeq(u, 1, m) \in Seq(Entry) /\ Len(SubSeq(u, 1, m)) = m
      /\ \A k \in 1..m : SubSeq(u, 1, m)[k] = u[k]
  <2>1. 1 \in 1..(Len(u) + 1) /\ m \in (1 - 1)..Len(u)
    BY <1>1, <1>4, <1>6
  <2>2. /\ SubSeq(u, 1, m) \in Seq(Entry) /\ Len(SubSeq(u, 1, m)) = m - 1 + 1
        /\ \A k \in 1..(m - 1 + 1) : SubSeq(u, 1, m)[k] = u[1 + k - 1]
    BY <1>4, <2>1, SubSeqProperties
  <2>3. m - 1 + 1 = m
    BY <1>6
  <2> QED
    BY <1>6, <2>2, <2>3
<1>8. \A k \in 1..m : k \in 1..Len(t)
  BY <1>1, <1>6
<1>9. Without(t, n, SubSeq(u, 1, m))
  BY <1>4, <1>6, <1>7, <1>8 DEF Without
<1> QED
  BY <1>5, <1>6, <1>9

\* The entry taken out is the only one that the table loses.
LEMMA TakenOutLeaves ==
  ASSUME NEW t \in Seq(Entry), NEW n \in 1..Len(t), NEW u, Without(t, n, u), Once(t)
  PROVE  {u[k].pid : k \in 1..Len(u)} = {t[k].pid : k \in 1..Len(t)} \ {t[n].pid} /\ Once(u)
<1>1. PICK m \in Nat : m = Len(t)
  OBVIOUS
<1>2. /\ Len(u) = m - 1 /\ n \in 1..m /\ m \in 1..m
      /\ \A k \in 1..(m - 1) : u[k] = IF k = n THEN t[m] ELSE t[k]
      /\ \A j, k \in 1..m : t[j].pid = t[k].pid => j = k
      /\ \A k \in 1..(m - 1) : k \in 1..m /\ k # m
  BY <1>1 DEF Without, Once
<1>3. \A k \in 1..(m - 1) : u[k].pid \in {t[i].pid : i \in 1..m} /\ u[k].pid # t[n].pid
  BY <1>2
<1>4. \A i \in 1..m : i # n => \E k \in 1..(m - 1) : u[k].pid = t[i].pid
  <2> SUFFICES ASSUME NEW i \in 1..m, i # n PROVE \E k \in 1..(m - 1) : u[k].pid = t[i].pid
    OBVIOUS
  <2>1. CASE i = m
    <3>1. n \in 1..(m - 1)
      BY <1>2, <2>1
    <3> QED
      BY <1>2, <2>1, <3>1
  <2>2. CASE i # m
    <3>1. i \in 1..(m - 1)
      BY <2>2
    <3> QED
      BY <1>2, <3>1
  <2> QED
    BY <2>1, <2>2
<1>5. \A j, k \in 1..(m - 1) : u[j].pid = u[k].pid => j = k
  BY <1>2
<1>6. \A c : c \in {u[k].pid : k \in 1..(m - 1)} <=> c \in {t[k].pid : k \in 1..m} /\ c # t[n].pid
  <2>1. \A c : c \in {u[k].pid : k \in 1..(m - 1)} => c \in {t[k].pid : k \in 1..m} /\ c # t[n].pid
    BY <1>3
  <2>2. ASSUME NEW c \in {t[k].pid : k \in 1..m}, c # t[n].pid
        PROVE  c \in {u[k].pid : k \in 1..(m - 1)}
    <3>1. PICK i \in 1..m : c = t[i].pid
      OBVIOUS
    <3>2. i # n
      BY <2>2, <3>1
    <3>3. PICK k \in 1..(m - 1) : u[k].pid = t[i].pid
      BY <1>4, <3>2
    <3> QED
      BY <3>1, <3>3
  <2> QED
    BY <2>1, <2>2
<1> QED
  BY <1>1, <1>2, <1>5, <1>6 DEF Once

\* A child is waited for: its entry and no other leaves the table.
LEMMA WaitForProcessStep ==
  ASSUME ExecConstants, ExecIInv, WaitForProcess
  PROVE  ExecIInv'
<1>1. PICK in, out, err, op, ef, s, pid :
         /\ in = ex.inputId /\ out = ex.lastOutputId /\ err = ex.errorId
         /\ op = ex.outPipe /\ ef = ex.errFile /\ s = ex.pids /\ pid = Head(ex.pids)
  OBVIOUS
<1>2. /\ ex.pc = "wait" /\ InCall /\ ex.pc \in Reading /\ ExecTypes /\ s # <<>>
      /\ UNCHANGED <<open, host, lost, forgotten>>
      /\ ex' = [ex EXCEPT !.pids = Tail(s)]
  BY <1>1 DEF WaitForProcess, InCall, Reading, ExecIInv
<1>3. /\ Known = From(1) /\ OnceFrom(1) /\ From(1) = Range(s) /\ forgotten \subseteq Existing
      /\ \A i, j \in 1..Len(s) : s[i] = s[j] => i = j
      /\ s \in Seq(Pids) /\ table \in Seq(Entry) /\ kids \in [Pids -> Kid]
  BY <1>1, <1>2, InCallIs DEF ExecIInv, KidsSound, ExecTypes
<1>4. /\ Tail(s) \in Seq(Pids) /\ Len(Tail(s)) = Len(s) - 1 /\ Len(s) \in Nat \ {0}
      /\ \A j \in 1..Len(Tail(s)) : Tail(s)[j] = s[j + 1]
      /\ pid = s[1] /\ DOMAIN s = 1..Len(s) /\ DOMAIN Tail(s) = 1..Len(Tail(s))
  BY <1>1, <1>2, <1>3, HeadTailProperties, EmptySeq
<1>5. pid \in Range(s) /\ pid \in Pids
  BY <1>3, <1>4 DEF Range
<1>6. PICK n \in 1..Len(table) : table[n].pid = pid
  BY <1>3, <1>5 DEF From
<1>7. /\ kids[pid].st = "zombie" /\ kids' = [kids EXCEPT ![pid] = NoKid]
      /\ table' = TakenOut(table, pid)
  BY <1>1, <1>6 DEF WaitForProcess
<1>8. /\ kids' \in [Pids -> Kid] /\ kids'[pid] = NoKid
      /\ \A c \in Pids : c # pid => kids'[c] = kids[c]
  BY <1>3, <1>5, <1>7, FdsAre DEF NoKid, Kid
<1>9. /\ table' \in Seq(Entry) /\ From(1)' = From(1) \ {pid} /\ OnceFrom(1)'
  <2>1. Once(table)
    BY <1>3 DEF OnceFrom, Once
  <2>2. PICK t \in Seq(Entry) : t = table
    BY <1>3
  <2>3. PICK u : u = TakenOut(t, pid)
    OBVIOUS
  <2>4. n \in 1..Len(t) /\ t[n].pid = pid /\ Once(t)
    BY <1>6, <2>1, <2>2
  <2>5. Without(t, n, u)
    BY <2>3, <2>4, TakenOutIs
  <2>6. {u[k].pid : k \in 1..Len(u)} = {t[k].pid : k \in 1..Len(t)} \ {t[n].pid} /\ Once(u)
    BY <2>4, <2>5, TakenOutLeaves
  <2>7. u \in Seq(Entry) /\ table' = u
    BY <1>7, <2>2, <2>3, <2>5 DEF Without
  <2>8. From(1)' = {u[k].pid : k \in 1..Len(u)} /\ From(1) = {t[k].pid : k \in 1..Len(t)}
    BY <2>2, <2>7 DEF From
  <2>9. OnceFrom(1)'
    BY <2>6, <2>7 DEF OnceFrom, Once
  <2> QED
    BY <2>4, <2>6, <2>7, <2>8, <2>9
<1>10. Range(Tail(s)) = Range(s) \ {pid}
  <2>1. \A c \in Range(s) : c \in Range(Tail(s)) \/ c = pid
    BY <1>1, <1>2, <1>3, OrderStays
  <2>2. Range(Tail(s)) \subseteq Range(s)
    BY <1>2, <1>3, OrderStays
  <2>3. pid \notin Range(Tail(s))
    <3> SUFFICES ASSUME NEW j \in 1..Len(Tail(s)), Tail(s)[j] = pid PROVE FALSE
      BY <1>4 DEF Range
    <3>1. j + 1 \in 1..Len(s) /\ 1 \in 1..Len(s) /\ s[j + 1] = s[1] /\ j + 1 # 1
      BY <1>4
    <3> QED
      BY <1>3, <3>1
  <2> QED
    BY <2>1, <2>2, <2>3
<1>11. CallIs(ex', "wait", ex.background, ex.words, in, out, err, op, ef, Tail(s), ex.firstArg)
  <2>1. CallIs(ex, "wait", ex.background, ex.words, in, out, err, op, ef, s, ex.firstArg)
    BY <1>1, <1>2, InCallIs
  <2>2. CallIs([ex EXCEPT !.pids = Tail(s)], "wait", ex.background, ex.words, in, out, err, op, ef,
               Tail(s), ex.firstArg)
    BY <2>1, CallPut
  <2> QED
    BY <1>2, <2>2
<1>12. /\ ex'.pc = "wait" /\ ex'.inputId = in /\ ex'.lastOutputId = out /\ ex'.errorId = err
       /\ ex'.outPipe = op /\ ex'.errFile = ef /\ ex'.pids = Tail(s)
  <2>1. PICK tl : tl = Tail(s)
    OBVIOUS
  <2>2. CallIs(ex', "wait", ex.background, ex.words, in, out, err, op, ef, tl, ex.firstArg)
    BY <1>11, <2>1
  <2>3. /\ ex'.pc = "wait" /\ ex'.inputId = in /\ ex'.lastOutputId = out /\ ex'.errorId = err
        /\ ex'.outPipe = op /\ ex'.errFile = ef /\ ex'.pids = tl
    BY <2>2, CallFields
  <2> QED
    BY <2>1, <2>3
<1>13. InCall' /\ ex'.pc \in Reading /\ ex'.pc \notin Forking
  BY <1>12 DEF InCall, Reading, Forking
<1>14. ExecTypes'
  <2>1. /\ ex.background \in BOOLEAN /\ Len(ex.words.args) \in Nat /\ ex.firstArg \in Nat
        /\ {in, out, err, op, ef} \subseteq Fds \cup {0}
    BY <1>1, <1>2, InCallIs
  <2>2. "wait" \in Forking \cup Reading \cup {"memory overwritten"}
    BY DEF Reading
  <2>3. Locals'
    BY <1>4, <1>11, <2>1, <2>2, CallTyped
  <2> QED
    BY <1>2, <1>8, <1>9, <2>3 DEF ExecTypes
<1>15. KidsSound'
  <2>1. Existing' = Existing \ {pid}
    BY <1>8 DEF Existing, NoKid
  <2>2. pid \in Known
    BY <1>3, <1>5
  <2>3. Known' = Known \ {pid} /\ forgotten' \subseteq Existing'
    BY <1>2, <1>3, <2>1, <2>2 DEF Known
  <2>4. \A i, j \in 1..Len(Tail(s)) : Tail(s)[i] = Tail(s)[j] => i = j
    <3> SUFFICES ASSUME NEW i \in 1..Len(Tail(s)), NEW j \in 1..Len(Tail(s)), Tail(s)[i] = Tail(s)[j]
                 PROVE  i = j
      OBVIOUS
    <3>1. i + 1 \in 1..Len(s) /\ j + 1 \in 1..Len(s) /\ s[i + 1] = s[j + 1]
      BY <1>4
    <3>2. i + 1 = j + 1
      BY <1>3, <3>1
    <3> QED
      BY <1>4, <3>2
  <2>5. ex'.pc # "idle" /\ ex'.pc # "reap"
    BY <1>12
  <2> QED
    BY <1>3, <1>9, <1>10, <1>12, <2>3, <2>4, <2>5 DEF KidsSound
<1>16. FdsSound'
  <2>1. /\ OpenFds = Stay \cup ({op, ef} \ {0})
        /\ {op, ef} \cap Stay = {} /\ AllApart(in, out, err, op, ef) /\ op = 0
    BY <1>1, <1>2 DEF ExecIInv, FdsSound
  <2>2. OpenFds' = OpenFds /\ Stay' = Stay
    BY <1>2 DEF OpenFds, Stay
  <2> QED
    BY <1>12, <1>13, <2>1, <2>2 DEF FdsSound
<1>17. PipesSound'
  <2>1. SUFFICES ASSUME lost = {} PROVE PipesSound'
    BY <1>2 DEF PipesSound
  <2>2. /\ \A f \in Fds : open[f] \in {File, Closed} \/ f = op
        /\ Fresh /\ OutputReadByExec /\ Chained
        /\ \A f \in host : open[f] = File
        /\ ef # 0 => open[ef] = File
    BY <1>1, <1>2, <2>1, ReadingFds
  <2>3. Shrinks
    <3>1. kids'[Head(ex.pids)].st # "running" /\ ex.pids # <<>> /\ ex'.pids = Tail(ex.pids)
      BY <1>1, <1>2, <1>8, <1>12 DEF NoKid
    <3>2. \A c \in Pids : Same(c)
      BY <1>8 DEF Same, NoKid
    <3> QED
      BY <1>2, <3>1, <3>2 DEF Shrinks
  <2>4. AllApart(in, out, err, op, ef) /\ {in, op, ef} \subseteq Fds \cup {0}
    BY <1>1, <1>2, InCallIs DEF ExecIInv, FdsSound
  <2>5. /\ ex'.inputId = ex.inputId /\ ex'.inputId \in Fds \cup {0} /\ ex'.outPipe \in {ex.outPipe, 0}
        /\ \A f \in Fds : open'[f] \in {File, Closed} \/ f = ex'.outPipe
        /\ ex'.outPipe # 0 => open'[ex'.outPipe] = open[ex'.outPipe]
        /\ Apart(ex'.inputId, ex'.outPipe)
        /\ ex'.errFile # 0 => open'[ex'.errFile] = File
        /\ \A f \in host : open'[f] = File
    BY <1>1, <1>2, <1>12, <2>2, <2>4 DEF AllApart
  <2> QED
    BY <1>2, <1>13, <2>2, <2>3, <2>5, ReadingPipes
<1> QED
  BY <1>14, <1>15, <1>16, <1>17 DEF ExecIInv

\* The errors have been read, and the call is over.
LEMMA ReadErrorsStep ==
  ASSUME ExecConstants, ExecIInv, ReadErrors
  PROVE  ExecIInv'
<1>1. PICK op, ef : op = ex.outPipe /\ ef = ex.errFile
  OBVIOUS
<1>2. /\ ex.pc = "wait" /\ InCall /\ ex.pc \in Reading /\ ExecTypes /\ ex.pids = <<>> /\ ex' = Idle
      /\ UNCHANGED <<kids, table, host, forgotten>>
  BY DEF ReadErrors, InCall, Reading, ExecIInv
<1>3. \/ open' = Close(open, {ef}) /\ lost' = lost
      \/ ef # 0 /\ lost' = lost \cup {ef} /\ open' = open
  BY <1>1 DEF ReadErrors, JSI_BAD_FD
<1>4. OpenFds = Stay \cup ({ef} \ {0}) /\ {ef} \cap Stay = {}
  BY <1>1, <1>2 DEF ExecIInv, FdsSound
<1>5. /\ ef \in Fds \cup {0} /\ 0 \notin Fds /\ open \in [Fds -> End]
      /\ host \subseteq Fds /\ lost \subseteq Fds /\ kids \in [Pids -> Kid] /\ table \in Seq(Entry)
  BY <1>1, <1>2, InCallIs, FdsAre DEF ExecTypes
<1>6. KidsSound'
  <2>1. Known = From(1) /\ OnceFrom(1) /\ From(1) = Range(<<>>) /\ forgotten \subseteq Existing
    BY <1>2 DEF ExecIInv, KidsSound
  <2>2. From(1) = {}
    BY <2>1 DEF Range
  <2>3. DetachedFrom(1)
    BY <2>2 DEF From, DetachedFrom
  <2>4. /\ Known' = Known /\ Existing' = Existing /\ From(1)' = From(1) /\ OnceFrom(1)' = OnceFrom(1)
        /\ DetachedFrom(1)' = DetachedFrom(1)
    BY <1>2 DEF Known, Existing, From, OnceFrom, DetachedFrom
  <2>5. ex'.pc = "idle" /\ ~InCall'
    BY <1>2 DEF Idle, InCall, Forking, Reading
  <2> QED
    BY <1>2, <2>1, <2>3, <2>4, <2>5 DEF KidsSound
<1>7. /\ open' \in [Fds -> End] /\ lost \subseteq lost' /\ lost' \subseteq Fds /\ OpenFds' = Stay'
      /\ \A f \in host : open'[f] = open[f]
  <2>1. CASE open' = Close(open, {ef}) /\ lost' = lost
    <3>1. open' \in [Fds -> End] /\ \A f \in Fds : open'[f] = IF f \in {ef} THEN Closed ELSE open[f]
      BY <1>5, <2>1, CloseIs
    <3>2. OpenFds' = OpenFds \ {ef} /\ Stay' = Stay
      BY <1>2, <2>1, <3>1 DEF OpenFds, Stay
    <3>3. 0 \notin OpenFds
      BY <1>5 DEF OpenFds
    <3> QED
      BY <1>4, <1>5, <2>1, <3>1, <3>2, <3>3 DEF Stay
  <2>2. CASE ef # 0 /\ lost' = lost \cup {ef} /\ open' = open
    BY <1>2, <1>4, <1>5, <2>2 DEF OpenFds, Stay
  <2> QED
    BY <1>3, <2>1, <2>2
<1>8. table' \in Seq(Entry) /\ kids' \in [Pids -> Kid]
  BY <1>2, <1>5
<1> QED
  BY <1>2, <1>6, <1>7, <1>8, IdleAgain

-----------------------------------------------------------------------------
(* A child is forked.                                                      *)

\* The arguments of a command end at a bar or behind the last word.
LEMMA LastArgIs ==
  ASSUME Len(ex.words.args) \in Nat, ex.firstArg \in Nat
  PROVE  LastArg \in Nat /\ (IsLast => LastArg + 1 > Len(ex.words.args))
<1> DEFINE S == {Len(ex.words.args) + 1} \cup
                {k \in ex.firstArg..Len(ex.words.args) : IsBar(ex.words.args[k])}
<1>1. S \subseteq Nat /\ S # {}
  OBVIOUS
<1>2. LastArg \in S
  BY <1>1, MinIs DEF LastArg
<1>3. LastArg \in Nat
  BY <1>1, <1>2
<1> QED
  BY <1>3 DEF IsLast

\* What a child is left with: what its three descriptors are on, and what lies behind them.
ChildHas(kid, o, in, out, err) ==
  /\ kid \in Kid /\ kid.st = "running" /\ kid.in = OpenOn(o, in)
  /\ \A e \in {kid.in, kid.out, kid.err} \cup kid.more :
       \/ e = File
       \/ \E f \in Fds : o[f] = e /\ (f \in {in, out, err} \/ (f > in /\ f > out /\ f > err))

\* The ends of a new child are of its three descriptors, or of one beyond them all.
LEMMA ChildIs ==
  ASSUME ExecConstants, NEW o \in [Fds -> End],
         NEW in \in Fds \cup {0}, NEW out \in Fds \cup {0}, NEW err \in Fds \cup {0}
  PROVE  ChildHas(Child(o, in, out, err), o, in, out, err)
<1>0. PICK kid : kid = Child(o, in, out, err)
  OBVIOUS
<1>1. in \in Nat /\ out \in Nat /\ err \in Nat /\ Fds \subseteq Nat /\ File \in End /\ 0 \notin Fds
  BY FdsAre
<1>2. PICK u \in Nat : u = UpTo(in, out, err) /\ u >= in /\ u >= out /\ u >= err
  BY <1>1, MaxIs DEF UpTo
<1>3. PICK more : more = {o[f] : f \in {g \in Fds : g > u}} \ {File, Closed}
  OBVIOUS
<1>4. \A f \in Fds \cup {0} : OpenOn(o, f) \in End /\ (OpenOn(o, f) = File \/ (f \in Fds /\ OpenOn(o, f) = o[f]))
  BY <1>1 DEF OpenOn, JSI_BAD_FD
<1>5. more \subseteq End /\ \A e \in more : \E f \in Fds : o[f] = e /\ f > u
  BY <1>3
<1>6. kid = [st |-> "running", in |-> OpenOn(o, in), out |-> OpenOn(o, out), err |-> OpenOn(o, err),
             more |-> more]
  BY <1>0, <1>2, <1>3 DEF Child
<1>7. /\ kid.st = "running" /\ kid.in = OpenOn(o, in) /\ kid.out = OpenOn(o, out)
      /\ kid.err = OpenOn(o, err) /\ kid.more = more
  BY <1>6
<1>8. kid \in Kid
  BY <1>4, <1>5, <1>6 DEF Kid
<1>9. \A f \in Fds : f > u => f > in /\ f > out /\ f > err
  BY <1>1, <1>2
<1>10. ASSUME NEW e \in {kid.in, kid.out, kid.err} \cup kid.more
       PROVE  \/ e = File
              \/ \E f \in Fds : o[f] = e /\ (f \in {in, out, err} \/ (f > in /\ f > out /\ f > err))
  <2>1. CASE e \in more
    BY <1>5, <1>9, <2>1
  <2>2. CASE e = OpenOn(o, in)
    BY <1>4, <2>2
  <2>3. CASE e = OpenOn(o, out)
    BY <1>4, <2>3
  <2>4. CASE e = OpenOn(o, err)
    BY <1>4, <2>4
  <2> QED
    BY <1>7, <2>1, <2>2, <2>3, <2>4
<1>11. ChildHas(kid, o, in, out, err)
  BY <1>7, <1>8, <1>10 DEF ChildHas
<1> QED
  BY <1>0, <1>11

\* The child, the table and the variables after a fork.
Forked(pid, kid, o, out, next) ==
  /\ pid \in Pids /\ kids[pid].st = "none" /\ pid \notin Own
  /\ \E err \in {out, ex.errorId} : kid = Child(o, ex.inputId, out, err)
  /\ kids' \in [Pids -> Kid] /\ kids'[pid] = kid /\ \A c \in Pids : c # pid => kids'[c] = kids[c]
  /\ open' = Close(o, {ex.inputId, out}) /\ UNCHANGED <<host, lost, forgotten>>
  /\ ex'.pc \in {"fork", "memory overwritten"}
  /\ ex'.background = ex.background /\ ex'.words = ex.words
  /\ ex'.inputId = next /\ ex'.lastOutputId = ex.lastOutputId /\ ex'.errorId = ex.errorId
  /\ ex'.outPipe = ex.outPipe /\ ex'.errFile = ex.errFile /\ ex'.pids = Append(ex.pids, pid)
  /\ ex'.firstArg = LastArg + 1

Appended(t, s, e, T) ==
  /\ t \in Seq(T) /\ Len(t) = Len(s) + 1 /\ Len(s) \in Nat
  /\ \A j \in 1..Len(s) : t[j] = s[j]
  /\ t[Len(s) + 1] = e
  /\ Range(t) = Range(s) \cup {e}

\* A child or an entry is appended.
LEMMA AppendIs ==
  ASSUME NEW T, NEW s \in Seq(T), NEW e \in T
  PROVE  Appended(Append(s, e), s, e, T)
<1>0. PICK t : t = Append(s, e)
  OBVIOUS
<1>1. /\ t \in Seq(T) /\ Len(t) = Len(s) + 1 /\ Len(s) \in Nat
      /\ \A j \in 1..Len(s) : t[j] = s[j]
      /\ t[Len(s) + 1] = e
      /\ DOMAIN s = 1..Len(s) /\ DOMAIN t = 1..Len(t)
  BY <1>0, AppendProperties
<1>2. PICK n \in Nat : n = Len(s)
  BY <1>1
<1>3. \A j \in 1..(n + 1) : j \in 1..n \/ j = n + 1
  OBVIOUS
<1>4. \A c : c \in Range(t) => c \in Range(s) \cup {e}
  BY <1>1, <1>2, <1>3 DEF Range
<1>5. \A c : c \in Range(s) \cup {e} => c \in Range(t)
  BY <1>1, <1>2 DEF Range
<1>6. Range(t) = Range(s) \cup {e}
  BY <1>4, <1>5
<1>7. Appended(t, s, e, T)
  BY <1>1, <1>6 DEF Appended
<1> QED
  BY <1>0, <1>7

\* A fork keeps the types and the accounts of children.
LEMMA ForksIs ==
  ASSUME ExecConstants, ExecIInv, ex.pc = "fork", MayFork, NEW o \in [Fds -> End],
         NEW out \in Fds \cup {0}, NEW next \in Fds \cup {0}, Forks(o, out, next)
  PROVE  /\ ExecTypes' /\ KidsSound'
         /\ \E pid, kid : Forked(pid, kid, o, out, next)
<1>1. /\ InCall /\ ExecTypes /\ kids \in [Pids -> Kid] /\ table \in Seq(Entry) /\ open \in [Fds -> End]
      /\ 0 \notin Fds
  BY FdsAre DEF InCall, Forking, ExecIInv, ExecTypes
<1>2. PICK pid, err, kid, s, n, la, pc :
        /\ pid = Min({c \in Pids : kids[c].st = "none"})
        /\ err = IF JoinsErrors THEN out ELSE ex.errorId
        /\ kid = Child(o, ex.inputId, out, err)
        /\ s = ex.pids /\ n = Append(s, pid) /\ la = LastArg + 1
        /\ pc = IF Len(ex.pids) > ex.words.bars THEN "memory overwritten" ELSE ex.pc
  OBVIOUS
<1>3. pid \in Pids /\ kids[pid].st = "none"
  <2>1. {c \in Pids : kids[c].st = "none"} \subseteq Nat /\ {c \in Pids : kids[c].st = "none"} # {}
    BY FdsAre DEF MayFork
  <2> QED
    BY <1>2, <2>1, MinIs
<1>4. /\ CallIs(ex, ex.pc, ex.background, ex.words, ex.inputId, ex.lastOutputId, ex.errorId,
                   ex.outPipe, ex.errFile, s, ex.firstArg)
      /\ ex.background \in BOOLEAN
      /\ Len(ex.words.args) \in Nat /\ ex.firstArg \in Nat
      /\ ex.inputId \in Fds \cup {0} /\ ex.lastOutputId \in Fds \cup {0}
      /\ ex.errorId \in Fds \cup {0} /\ ex.outPipe \in Fds \cup {0} /\ ex.errFile \in Fds \cup {0}
      /\ s \in Seq(Pids)
  BY <1>1, <1>2, InCallIs
<1>5. /\ kids' = [kids EXCEPT ![pid] = kid]
      /\ table' = Append(table, [pid |-> pid, detached |-> FALSE])
      /\ open' = Close(o, {ex.inputId, out})
      /\ UNCHANGED <<host, lost, forgotten>>
      /\ ex' = [ex EXCEPT !.pids = n, !.inputId = next, !.firstArg = la, !.pc = pc]
  BY <1>2 DEF Forks, Handed
<1>6. err \in {out, ex.errorId} /\ err \in Fds \cup {0} /\ kid \in Kid /\ kid.st = "running"
  <2>1. err \in {out, ex.errorId} /\ err \in Fds \cup {0}
    BY <1>2, <1>4
  <2>2. PICK in \in Fds \cup {0} : in = ex.inputId
    BY <1>4
  <2>3. kid = Child(o, in, out, err)
    BY <1>2, <2>2
  <2>4. err \in Fds \cup {0}
    BY <2>1
  <2>5. ChildHas(kid, o, in, out, err)
    BY <2>3, <2>4, ChildIs
  <2>6. kid \in Kid /\ kid.st = "running"
    BY <2>5 DEF ChildHas
  <2> QED
    BY <2>1, <2>6
<1>7. kids' \in [Pids -> Kid] /\ kids'[pid] = kid /\ \A c \in Pids : c # pid => kids'[c] = kids[c]
  BY <1>1, <1>3, <1>5, <1>6
<1>8. CallIs(ex', pc, ex.background, ex.words, next, ex.lastOutputId, ex.errorId,
             ex.outPipe, ex.errFile, n, la)
  <2>0. CallIs(ex, ex.pc, ex.background, ex.words, ex.inputId, ex.lastOutputId, ex.errorId,
                   ex.outPipe, ex.errFile, s, ex.firstArg)
    BY <1>4
  <2>1. CallIs([ex EXCEPT !.pids = n, !.inputId = next, !.firstArg = la, !.pc = pc],
               pc, ex.background, ex.words, next, ex.lastOutputId, ex.errorId,
               ex.outPipe, ex.errFile, n, la)
    BY <2>0, CallExcept
  <2> QED
    BY <1>5, <2>1
<1>9. /\ ex'.pc = pc /\ ex'.background = ex.background /\ ex'.words = ex.words
      /\ ex'.inputId = next /\ ex'.lastOutputId = ex.lastOutputId /\ ex'.errorId = ex.errorId
      /\ ex'.outPipe = ex.outPipe /\ ex'.errFile = ex.errFile /\ ex'.pids = n /\ ex'.firstArg = la
  BY <1>8, CallFields
<1>10. pc \in {"fork", "memory overwritten"}
  BY <1>2
<1>11. la \in Nat
  <2>1. LastArg \in Nat
    BY <1>4, LastArgIs
  <2>2. la = LastArg + 1
    BY <1>2
  <2> QED
    BY <2>1, <2>2
<1>12. /\ n \in Seq(Pids) /\ Len(n) = Len(s) + 1 /\ Len(s) \in Nat
       /\ \A j \in 1..Len(s) : n[j] = s[j]
       /\ n[Len(s) + 1] = pid /\ Range(n) = Range(s) \cup {pid}
  <2>1. n = Append(s, pid) /\ s \in Seq(Pids) /\ pid \in Pids
    BY <1>2, <1>3, <1>4
  <2>2. Appended(n, s, pid, Pids)
    BY <2>1, AppendIs
  <2> QED
    BY <2>2 DEF Appended
<1>13. Locals'
  <2>1. pc \in Forking \cup Reading \cup {"memory overwritten"}
    BY <1>10 DEF Forking
  <2> QED
    BY <1>4, <1>8, <1>11, <1>12, <2>1, CallTyped
<1>14. PICK e : e = [pid |-> pid, detached |-> FALSE] /\ e \in Entry /\ e.pid = pid
  <2>1. [pid |-> pid, detached |-> FALSE] \in Entry
    BY <1>3 DEF Entry
  <2> QED
    BY <2>1
<1>15. /\ table' \in Seq(Entry) /\ Len(table') = Len(table) + 1 /\ Len(table) \in Nat
       /\ \A j \in 1..Len(table) : table'[j] = table[j]
       /\ table'[Len(table) + 1] = e
  <2>1. Appended(table', table, e, Entry)
    BY <1>1, <1>5, <1>14, AppendIs
  <2> QED
    BY <2>1 DEF Appended
<1>16. ExecTypes'
  <2>1. open' \in [Fds -> End]
    BY <1>5, CloseIs
  <2> QED
    BY <1>1, <1>5, <1>7, <1>13, <1>15, <2>1 DEF ExecTypes
<1>17. /\ Known = From(1) /\ OnceFrom(1) /\ From(1) = Range(s) /\ forgotten \subseteq Existing
       /\ \A i, j \in 1..Len(s) : s[i] = s[j] => i = j
  BY <1>1, <1>2 DEF ExecIInv, KidsSound
<1>18. pid \notin Existing /\ pid \notin Range(s) /\ Existing' = Existing \cup {pid}
  <2>1. pid \notin Existing
    BY <1>3 DEF Existing
  <2>2. Existing' = Existing \cup {pid}
    BY <1>3, <1>6, <1>7 DEF Existing
  <2> QED
    BY <1>17, <2>1, <2>2 DEF Known
<1>19. Known' = Known \cup {pid} /\ forgotten' \subseteq Existing'
  BY <1>5, <1>17, <1>18 DEF Known
<1>20. From(1)' = From(1) \cup {pid} /\ OnceFrom(1)'
  <2>1. PICK m \in Nat : m = Len(table)
    BY <1>15
  <2>2. \A j \in 1..(m + 1) : j \in 1..m \/ j = m + 1
    OBVIOUS
  <2>3. \A j \in 1..m : table'[j] = table[j] /\ table[j].pid # pid /\ j \in 1..(m + 1)
    BY <1>15, <1>17, <1>18, <2>1 DEF From
  <2>4. table'[m + 1].pid = pid /\ m + 1 \in 1..(m + 1)
    BY <1>14, <1>15, <2>1
  <2>5. \A c : c \in {table'[k].pid : k \in 1..(m + 1)} <=> c \in {table[k].pid : k \in 1..m} \cup {pid}
    BY <2>2, <2>3, <2>4
  <2>6. \A j, k \in 1..(m + 1) : table'[j].pid = table'[k].pid => j = k
    BY <1>17, <2>1, <2>2, <2>3, <2>4 DEF OnceFrom
  <2> QED
    BY <1>15, <2>1, <2>5, <2>6 DEF From, OnceFrom
<1>21. \A i, j \in 1..Len(n) : n[i] = n[j] => i = j
  <2>1. PICK m \in Nat : m = Len(s)
    BY <1>12
  <2>2. \A j \in 1..(m + 1) : j \in 1..m \/ j = m + 1
    OBVIOUS
  <2>3. DOMAIN s = 1..m
    BY <1>4, <2>1
  <2>4. \A j \in 1..m : n[j] = s[j] /\ s[j] # pid
    BY <1>12, <1>18, <2>1, <2>3 DEF Range
  <2> QED
    BY <1>12, <1>17, <2>1, <2>2, <2>4
<1>22. KidsSound'
  <2>1. ex'.pc # "idle" /\ ex'.pc # "reap"
    BY <1>9, <1>10
  <2> QED
    BY <1>9, <1>12, <1>17, <1>19, <1>20, <1>21, <2>1 DEF KidsSound
<1>23. Forked(pid, kid, o, out, next)
  BY <1>2, <1>3, <1>5, <1>6, <1>7, <1>9, <1>10, <1>18 DEF Forked, Own
<1> QED
  BY <1>16, <1>22, <1>23

\* The pipes after a fork: P has the new pipe if there is one, whose reading end is at nx.
Grown(pid, in, nx, op, P) ==
  /\ pid \in Pids /\ pid \notin Own /\ ex'.pids = Append(ex.pids, pid)
  /\ \A c \in Pids : c # pid => kids'[c] = kids[c]
  /\ {in, nx, op} \subseteq Fds \cup {0} /\ in = ex.inputId /\ op = ex.outPipe
  /\ ex'.inputId = nx /\ ex'.outPipe = op
  /\ P \subseteq Pipes /\ \A x \in P : Unused(x)
  /\ \A f \in Fds : \/ open'[f] = Closed
                    \/ open'[f] = open[f] /\ f # in
                    \/ f = nx /\ \E x \in P : open'[f] = Read(x)
  /\ nx # 0 => \E x \in P : open'[nx] = Read(x)
  /\ op # 0 => open'[op] = open[op]
  /\ kids'[pid].in = File \/ (in # 0 /\ kids'[pid].in = open[in])
  /\ \A e \in Ends(pid)', x \in Pipes :
       /\ e = Read(x) => in # 0 /\ open[in] = Read(x) /\ kids'[pid].in = Read(x)
       /\ e = Write(x) => x \in P \/ (op # 0 /\ open[op] = Read(x))

\* What of it does not depend on the child that is looked at.
LEMMA GrownMeans ==
  ASSUME ExecConstants, ExecTypes, ExecTypes', InCall,
         NEW pid, NEW in, NEW nx, NEW op, NEW P, Grown(pid, in, nx, op, P)
  PROVE  /\ Own' = Own \cup {pid} /\ pid \notin Own /\ pid \in Pids /\ Own \subseteq Pids
         /\ \A c \in Pids : c # pid => (Alive(c)' <=> Alive(c)) /\ Ends(c)' = Ends(c) /\ kids'[c] = kids[c]
         /\ \A c \in Pids : Ends(c) \subseteq End /\ Ends(c)' \subseteq End
         /\ in = ex.inputId /\ op = ex.outPipe /\ in \in Fds \cup {0} /\ op \in Fds \cup {0}
         /\ ex'.inputId = nx /\ ex'.outPipe = op /\ nx \in Fds \cup {0}
<1>1. /\ pid \in Pids /\ pid \notin Own /\ ex'.pids = Append(ex.pids, pid)
      /\ \A c \in Pids : c # pid => kids'[c] = kids[c]
      /\ ex.pids \in Seq(Pids)
      /\ in = ex.inputId /\ op = ex.outPipe /\ in \in Fds \cup {0} /\ op \in Fds \cup {0}
      /\ ex'.inputId = nx /\ ex'.outPipe = op /\ nx \in Fds \cup {0}
  BY InCallIs DEF Grown
<1>2. Own' = Own \cup {pid} /\ Own \subseteq Pids
  <2>1. Appended(Append(ex.pids, pid), ex.pids, pid, Pids)
    BY <1>1, AppendIs
  <2>2. Range(ex'.pids) = Range(ex.pids) \cup {pid}
    BY <1>1, <2>1 DEF Appended
  <2>3. Range(ex.pids) \subseteq Pids
    BY <1>1 DEF Range
  <2> QED
    BY <2>2, <2>3 DEF Own
<1>3. \A c \in Pids : c # pid => (Alive(c)' <=> Alive(c)) /\ Ends(c)' = Ends(c)
  BY <1>1 DEF Alive, Ends
<1>4. \A c \in Pids : Ends(c) \subseteq End /\ Ends(c)' \subseteq End
  <2>1. \A c \in Pids : kids[c] \in Kid /\ kids'[c] \in Kid
    BY DEF ExecTypes
  <2> QED
    BY <2>1 DEF Kid, Ends
<1> QED
  BY <1>1, <1>2, <1>3, <1>4

\* The new child shares no pipe with a child of an earlier call.
LEMMA GrownFresh ==
  ASSUME ExecConstants, ExecTypes, ExecTypes', InCall, Fresh,
         NEW pid, NEW in, NEW nx, NEW op, NEW P, Grown(pid, in, nx, op, P)
  PROVE  Fresh'
<1>1. SUFFICES ASSUME NEW d \in Pids, Alive(d)', d \notin Own', NEW e \in Ends(d)', e[1] # 0
               PROVE  /\ \A f \in Fds : open'[f][1] # e[1]
                      /\ \A c \in Own' : Alive(c)' => \A x \in Ends(c)' : x[1] # e[1]
  BY DEF Fresh
<1>2. d # pid /\ d \notin Own /\ Alive(d) /\ e \in Ends(d) /\ e \in End
  BY <1>1, GrownMeans
<1>3. PICK y \in Pipes : y = e[1]
  BY <1>1, <1>2 DEF End, File, Closed
<1>4. e = Read(y) \/ e = Write(y)
  BY <1>2, <1>3, EndIs
<1>5. y \notin P
  BY <1>2, <1>4 DEF Grown, Unused
<1>6. /\ \A f \in Fds : open[f][1] # y
      /\ \A c \in Own : Alive(c) => \A x \in Ends(c) : x[1] # y
  BY <1>1, <1>2, <1>3 DEF Fresh
<1>7. Read(y)[1] = y /\ Write(y)[1] = y /\ Closed[1] = 0 /\ 0 \notin Pipes /\ \A x \in P : Read(x)[1] = x
  BY FdsAre DEF Read, Write, Closed
<1>8. ASSUME NEW f \in Fds PROVE open'[f][1] # y
  BY <1>5, <1>6, <1>7 DEF Grown
<1>9. ASSUME NEW c \in Own', Alive(c)', NEW x \in Ends(c)' PROVE x[1] # y
  <2>1. CASE c # pid
    BY <1>6, <1>9, <2>1, GrownMeans
  <2>2. CASE c = pid
    <3>1. x \in End
      BY <1>9, <2>2, GrownMeans
    <3>2. x # Read(y)
      BY <1>6, <1>7, <1>9, <2>2 DEF Grown
    <3>3. x # Write(y)
      BY <1>5, <1>6, <1>7, <1>9, <2>2 DEF Grown
    <3> QED
      BY <3>1, <3>2, <3>3, EndIs
  <2> QED
    BY <2>1, <2>2
<1> QED
  BY <1>3, <1>8, <1>9

\* The new child does not have the end that exec reads.
LEMMA GrownOutput ==
  ASSUME ExecConstants, ExecTypes, ExecTypes', InCall, OutputReadByExec,
         NEW pid, NEW in, NEW nx, NEW op, NEW P, Grown(pid, in, nx, op, P)
  PROVE  OutputReadByExec'
<1>1. SUFFICES ASSUME op # 0
               PROVE  /\ open'[op] \in Pipes \X {"read"}
                      /\ \A c \in Own' : Alive(c)' => open'[op] \notin Ends(c)'
                      /\ nx # 0 => open'[nx] # open'[op]
  BY GrownMeans DEF OutputReadByExec
<1>2. PICK y \in Pipes : open[op] = Read(y) /\ open'[op] = Read(y)
  <2>1. open[op] \in Pipes \X {"read"} /\ open'[op] = open[op]
    BY <1>1, GrownMeans DEF OutputReadByExec, Grown
  <2> QED
    BY <2>1 DEF Read
<1>3. /\ \A c \in Own : Alive(c) => Read(y) \notin Ends(c)
      /\ in # 0 => open[in] # Read(y)
  BY <1>1, <1>2, GrownMeans DEF OutputReadByExec
<1>4. y \notin P
  BY <1>1, <1>2, GrownMeans DEF Grown, Unused
<1>5. nx # 0 => open'[nx] # Read(y)
  BY <1>4 DEF Grown, Read
<1>6. ASSUME NEW c \in Own', Alive(c)' PROVE Read(y) \notin Ends(c)'
  <2>1. CASE c # pid
    BY <1>3, <1>6, <2>1, GrownMeans
  <2>2. CASE c = pid
    BY <1>3, <2>2 DEF Grown
  <2> QED
    BY <2>1, <2>2
<1> QED
  BY <1>2, <1>5, <1>6 DEF Read

\* Nobody but exec has the end that the next child will read.
LEMMA GrownInput ==
  ASSUME ExecConstants, ExecTypes, ExecTypes', InCall,
         NEW pid, NEW in, NEW nx, NEW op, NEW P, Grown(pid, in, nx, op, P)
  PROVE  InputForNext'
<1>1. SUFFICES ASSUME nx # 0, NEW c \in Own', Alive(c)' PROVE open'[nx] \notin Ends(c)'
  BY GrownMeans DEF InputForNext
<1>2. PICK x \in P : open'[nx] = Read(x)
  BY <1>1 DEF Grown
<1>3. Unused(x) /\ x \in Pipes
  BY DEF Grown
<1>4. CASE c # pid
  BY <1>1, <1>2, <1>3, <1>4, GrownMeans DEF Unused
<1>5. CASE c = pid
  <2>1. in # 0 => open[in] # Read(x)
    BY <1>3, GrownMeans DEF Unused
  <2> QED
    BY <1>2, <1>3, <1>5, <2>1 DEF Grown
<1> QED
  BY <1>4, <1>5

\* Of the pipes exec still has the same ends, and the one for the next child.
LEMMA GrownOnPipes ==
  ASSUME ExecConstants, ExecTypes, ExecTypes', InCall, FdsOnPipes,
         NEW pid, NEW in, NEW nx, NEW op, NEW P, Grown(pid, in, nx, op, P),
         ex'.lastOutputId = ex.lastOutputId, ex'.errorId = ex.errorId
  PROVE  FdsOnPipes'
<1>1. SUFFICES ASSUME NEW f \in Fds, NEW y \in Pipes
               PROVE  /\ open'[f] = Read(y) => f \in {nx, op}
                      /\ open'[f] = Write(y) =>
                           f \in {ex.lastOutputId, ex.errorId} /\ op # 0 /\ open'[op] = Read(y)
  BY GrownMeans DEF FdsOnPipes
<1>2. Closed # Read(y) /\ Closed # Write(y) /\ \A x \in P : Read(x) # Write(y)
  BY FdsAre DEF Closed, Read, Write
<1>3. /\ open[f] = Read(y) => f \in {in, op}
      /\ open[f] = Write(y) => f \in {ex.lastOutputId, ex.errorId} /\ op # 0 /\ open[op] = Read(y)
  BY GrownMeans DEF FdsOnPipes
<1>4. \/ open'[f] = Closed
      \/ open'[f] = open[f] /\ f # in
      \/ f = nx /\ \E x \in P : open'[f] = Read(x)
  BY DEF Grown
<1>5. op # 0 => open'[op] = open[op]
  BY DEF Grown
<1> QED
  BY <1>2, <1>3, <1>4, <1>5

\* The new child reads what the one before it writes, and nobody else does.
LEMMA GrownChain ==
  ASSUME ExecConstants, ExecTypes, ExecTypes', InCall,
         FdsOnPipes, OutputReadByExec, InputForNext, Chained,
         NEW pid, NEW in, NEW nx, NEW op, NEW P, Grown(pid, in, nx, op, P)
  PROVE  Chained'
<1>0. PICK s, t : s = ex.pids /\ t = ex'.pids
  OBVIOUS
<1>1. /\ s \in Seq(Pids) /\ Len(t) = Len(s) + 1 /\ Len(s) \in Nat
      /\ \A j \in 1..Len(s) : t[j] = s[j] /\ t[j] \in Own /\ t[j] # pid
      /\ t[Len(s) + 1] = pid
  <2>1. s \in Seq(Pids) /\ t = Append(s, pid) /\ pid \in Pids /\ pid \notin Own /\ DOMAIN s = 1..Len(s)
    BY <1>0, InCallIs DEF Grown
  <2>2. Appended(t, s, pid, Pids)
    BY <2>1, AppendIs
  <2>3. \A j \in 1..Len(s) : s[j] \in Own
    BY <1>0, <2>1 DEF Own, Range
  <2> QED
    BY <2>1, <2>2, <2>3 DEF Appended
<1>2. PICK n \in Nat : n = Len(s) /\ \A j \in 1..(n + 1) : j \in 1..n \/ j = n + 1
  BY <1>1
<1>3. SUFFICES ASSUME NEW j \in 1..(n + 1), NEW y \in Pipes, Alive(t[j])', Read(y) \in Ends(t[j])'
               PROVE  /\ kids'[t[j]].in = Read(y)
                      /\ \A f \in Fds : open'[f][1] # y
                      /\ \A i \in 1..(n + 1) : Alive(t[i])' =>
                           /\ Read(y) \in Ends(t[i])' => i = j
                           /\ Write(y) \in Ends(t[i])' => i < j
  BY <1>0, <1>1, <1>2 DEF Chained
<1>4. Read(y)[1] = y /\ Write(y)[1] = y /\ Closed[1] = 0 /\ 0 \notin Pipes /\ \A x \in P : Read(x)[1] = x
  BY FdsAre DEF Read, Write, Closed
<1>5. /\ \A e \in Ends(pid)' :
           /\ e = Read(y) => in # 0 /\ open[in] = Read(y) /\ kids'[pid].in = Read(y)
           /\ e = Write(y) => y \in P \/ (op # 0 /\ open[op] = Read(y))
      /\ \A f \in Fds : \/ open'[f] = Closed
                        \/ open'[f] = open[f] /\ f # in
                        \/ f = nx /\ \E x \in P : open'[f] = Read(x)
      /\ in \in Fds \cup {0} /\ op \in Fds \cup {0} /\ in = ex.inputId /\ op = ex.outPipe
  BY DEF Grown
<1>6. CASE j \in 1..n
  <2>1. t[j] = s[j] /\ t[j] \in Own /\ t[j] # pid
    BY <1>1, <1>2, <1>6
  <2>2. Alive(s[j]) /\ Read(y) \in Ends(s[j]) /\ kids'[s[j]] = kids[s[j]]
    BY <1>3, <2>1, GrownMeans
  <2>3. /\ kids[s[j]].in = Read(y)
        /\ \A f \in Fds : open[f][1] # y
        /\ \A i \in 1..n : Alive(s[i]) =>
             /\ Read(y) \in Ends(s[i]) => i = j
             /\ Write(y) \in Ends(s[i]) => i < j
    BY <1>0, <1>2, <1>6, <2>2 DEF Chained
  <2>4. y \notin P
    <3>1. s[j] \in Pids
      BY <2>1, GrownMeans
    <3>2. \A x \in P : Unused(x)
      BY DEF Grown
    <3> QED
      BY <2>2, <3>1, <3>2 DEF Unused
  <2>5. \A f \in Fds : open'[f][1] # y
    BY <1>4, <1>5, <2>3, <2>4
  <2>6. Read(y) \notin Ends(pid)' /\ Write(y) \notin Ends(pid)'
    BY <1>4, <1>5, <2>3, <2>4
  <2>7. ASSUME NEW i \in 1..n
        PROVE  t[i] = s[i] /\ (Alive(t[i])' <=> Alive(s[i])) /\ Ends(t[i])' = Ends(s[i])
    <3>1. t[i] = s[i] /\ t[i] \in Own /\ t[i] # pid
      BY <1>1, <1>2
    <3> QED
      BY <3>1, GrownMeans
  <2>8. ASSUME NEW i \in 1..(n + 1), Alive(t[i])'
        PROVE  /\ Read(y) \in Ends(t[i])' => i = j
               /\ Write(y) \in Ends(t[i])' => i < j
    <3>1. CASE i \in 1..n
      BY <2>3, <2>7, <2>8, <3>1
    <3>2. CASE i = n + 1
      BY <1>1, <1>2, <2>6, <3>2
    <3> QED
      BY <1>2, <3>1, <3>2
  <2> QED
    BY <2>1, <2>2, <2>3, <2>5, <2>8
<1>7. CASE j = n + 1
  <2>1. t[j] = pid
    BY <1>1, <1>2, <1>7
  <2>2. in # 0 /\ open[in] = Read(y) /\ kids'[pid].in = Read(y)
    BY <1>3, <1>5, <2>1
  <2>3. op # 0 => open[op] # Read(y)
    BY <1>5, <2>2 DEF OutputReadByExec
  <2>4. y \notin P
    BY <1>5, <2>2 DEF Grown, Unused
  <2>5. \A f \in Fds : f # in => open[f] # Read(y) /\ open[f] # Write(y)
    BY <1>5, <2>3, FdsAre DEF FdsOnPipes
  <2>6. ASSUME NEW f \in Fds PROVE open'[f][1] # y
    <3>1. CASE open'[f] = open[f] /\ f # in
      <4>1. open[f] \in End
        BY DEF ExecTypes
      <4> QED
        BY <2>5, <3>1, <4>1, EndIs
    <3> QED
      BY <1>4, <1>5, <2>4, <3>1
  <2>7. Write(y) \notin Ends(pid)'
    BY <1>5, <2>3, <2>4
  <2>8. ASSUME NEW i \in 1..(n + 1), Alive(t[i])'
        PROVE  /\ Read(y) \in Ends(t[i])' => i = j
               /\ Write(y) \in Ends(t[i])' => i < j
    <3>1. CASE i \in 1..n
      <4>1. t[i] = s[i] /\ t[i] \in Own /\ t[i] # pid
        BY <1>1, <1>2, <3>1
      <4>2. Alive(t[i]) /\ Ends(t[i])' = Ends(t[i])
        BY <2>8, <4>1, GrownMeans
      <4>3. Read(y) \notin Ends(t[i])
        BY <1>5, <2>2, <4>1, <4>2 DEF InputForNext, IsRead, Read
      <4> QED
        BY <1>7, <3>1, <4>2, <4>3
    <3>2. CASE i = n + 1
      BY <1>1, <1>2, <1>7, <2>7, <3>2
    <3> QED
      BY <1>2, <3>1, <3>2
  <2> QED
    BY <2>1, <2>2, <2>6, <2>8
<1> QED
  BY <1>2, <1>6, <1>7

\* A fork keeps PipesSound.
LEMMA ForkPipes ==
  ASSUME ExecConstants, ExecIInv, ExecTypes', ex.pc = "fork",
         NEW pid, NEW in, NEW nx, NEW op, NEW P, lost = {} => Grown(pid, in, nx, op, P),
         ex'.lastOutputId = ex.lastOutputId, ex'.errorId = ex.errorId, ex'.errFile = ex.errFile,
         UNCHANGED <<host, lost>>, \A f \in host : open'[f] = open[f],
         ex.errFile # 0 => open'[ex.errFile] = open[ex.errFile],
         lost = {} => NumberedIn(open', nx, ex.lastOutputId, op)
  PROVE  PipesSound'
<1>1. InCall /\ ExecTypes /\ ex.pc # "memory overwritten"
  BY DEF InCall, Forking, ExecIInv
<1>2. SUFFICES ASSUME lost = {} PROVE PipesSound'
  BY DEF PipesSound
<1>3. /\ Fresh /\ FdsOnPipes /\ OutputReadByExec /\ InputForNext /\ Chained
      /\ ex.errFile # 0 => open[ex.errFile] = File
      /\ \A f \in host : open[f] = File
  BY <1>1, <1>2 DEF ExecIInv, PipesSound
<1>4. Grown(pid, in, nx, op, P) /\ NumberedIn(open', nx, ex.lastOutputId, op)
  BY <1>2
<1>5. Fresh' /\ FdsOnPipes' /\ OutputReadByExec' /\ InputForNext' /\ Chained'
  BY <1>1, <1>3, <1>4, GrownFresh, GrownOutput, GrownInput, GrownOnPipes, GrownChain
<1>6. Numbered'
  BY <1>1, <1>4, GrownMeans DEF Numbered, NumberedIn
<1> QED
  BY <1>3, <1>5, <1>6 DEF PipesSound

\* What holds of descriptors when a child is to be forked.
LEMMA ForkFds ==
  ASSUME ExecConstants, ExecIInv, ex.pc = "fork", More,
         NEW in, NEW out, NEW err, NEW op, NEW ef,
         in = ex.inputId, out = ex.lastOutputId, err = ex.errorId, op = ex.outPipe, ef = ex.errFile
  PROVE  /\ InCall /\ ExecTypes /\ open \in [Fds -> End]
         /\ in \in Fds \cup {0} /\ out \in Fds \cup {0} /\ err \in Fds \cup {0}
         /\ op \in Fds \cup {0} /\ ef \in Fds \cup {0}
         /\ Len(ex.words.args) \in Nat /\ ex.firstArg \in Nat /\ 0 \notin Fds /\ Fds \subseteq Nat
         /\ AllApart(in, out, err, op, ef)
         /\ OpenFds = Stay \cup ({in, out, err, op, ef} \ {0})
         /\ {in, out, err, op, ef} \cap Stay = {}
         /\ \A f \in Fds : f \in OpenFds <=> open[f] # Closed
         /\ ex.background => op = 0 /\ ef = 0
         /\ lost = {} => FdsOnPipes /\ OutputReadByExec /\ NumberedIn(open, in, out, op)
<1>1. InCall /\ ExecTypes /\ ex.pc \in Forking /\ ex.pc # "memory overwritten"
  BY DEF InCall, Forking, ExecIInv
<1>2. Owned(open, in, out, err, op, ef)
  BY <1>1, OwnedIs
<1>3. lost = {} => FdsOnPipes /\ OutputReadByExec /\ Numbered
  BY <1>1 DEF ExecIInv, PipesSound
<1>4. lost = {} => NumberedIn(open, in, out, op)
  BY <1>3 DEF Numbered, NumberedIn
<1>5. ex.background => op = 0 /\ ef = 0
  BY <1>1 DEF ExecIInv, FdsSound
<1>6. /\ open \in [Fds -> End] /\ 0 \notin Fds /\ Fds \subseteq Nat
  BY <1>1, FdsAre DEF ExecTypes
<1> QED
  BY <1>1, <1>2, <1>3, <1>4, <1>5, <1>6, InCallIs DEF Owned, OpenFds

\* The last child is forked.
LEMMA ForkLastStep ==
  ASSUME ExecConstants, ExecIInv, ForkLast
  PROVE  ExecIInv'
<1>1. PICK in, out, err, op, ef : /\ in = ex.inputId /\ out = ex.lastOutputId /\ err = ex.errorId
                                  /\ op = ex.outPipe /\ ef = ex.errFile
  OBVIOUS
<1>2. ex.pc = "fork" /\ More /\ IsLast /\ MayFork /\ Forks(open, out, 0)
  BY <1>1 DEF ForkLast, JSI_BAD_FD
<1>3. /\ InCall /\ ExecTypes /\ open \in [Fds -> End]
      /\ in \in Fds \cup {0} /\ out \in Fds \cup {0} /\ err \in Fds \cup {0}
      /\ op \in Fds \cup {0} /\ ef \in Fds \cup {0}
      /\ Len(ex.words.args) \in Nat /\ ex.firstArg \in Nat /\ 0 \notin Fds /\ Fds \subseteq Nat
      /\ AllApart(in, out, err, op, ef)
      /\ OpenFds = Stay \cup ({in, out, err, op, ef} \ {0})
      /\ {in, out, err, op, ef} \cap Stay = {}
      /\ \A f \in Fds : f \in OpenFds <=> open[f] # Closed
      /\ ex.background => op = 0 /\ ef = 0
      /\ lost = {} => FdsOnPipes /\ OutputReadByExec /\ NumberedIn(open, in, out, op)
  BY <1>1, <1>2, ForkFds
<1>4. /\ ExecTypes' /\ KidsSound'
      /\ \E pid, kid : Forked(pid, kid, open, out, 0)
  BY <1>2, <1>3, ForksIs
<1>5. PICK pid, kid : Forked(pid, kid, open, out, 0)
  BY <1>4
<1>6. /\ pid \in Pids /\ pid \notin Own /\ kids'[pid] = kid
      /\ \A c \in Pids : c # pid => kids'[c] = kids[c]
      /\ open' = Close(open, {in, out}) /\ UNCHANGED <<host, lost, forgotten>>
      /\ ex'.pc \in {"fork", "memory overwritten"}
      /\ ex'.background = ex.background /\ ex'.words = ex.words
      /\ ex'.inputId = 0 /\ ex'.lastOutputId = out /\ ex'.errorId = err
      /\ ex'.outPipe = op /\ ex'.errFile = ef /\ ex'.pids = Append(ex.pids, pid)
      /\ ex'.firstArg = LastArg + 1
  BY <1>1, <1>5 DEF Forked
<1>7. PICK ce \in {out, err} : kid = Child(open, in, out, ce)
  BY <1>1, <1>5 DEF Forked
<1>8. ChildHas(kid, open, in, out, ce)
  <2>1. ce \in Fds \cup {0}
    BY <1>3
  <2> QED
    BY <1>3, <1>7, <2>1, ChildIs
<1>9. \A f \in Fds : open'[f] = IF f \in {in, out} THEN Closed ELSE open[f]
  <2>1. PICK S : S = {in, out}
    OBVIOUS
  <2>2. open' = Close(open, S)
    BY <1>6, <2>1
  <2>3. \A f \in Fds : open'[f] = IF f \in S THEN Closed ELSE open[f]
    BY <1>3, <2>2, CloseIs
  <2> QED
    BY <2>1, <2>3
<1>10. /\ \A f \in host : open'[f] = open[f]
       /\ ef # 0 => open'[ef] = open[ef]
       /\ op # 0 => open'[op] = open[op]
       /\ \A f \in {err, op, ef} : f # 0 => f # in /\ f # out
  <2>1. \A f \in host : f \in Fds /\ f # in /\ f # out
    BY <1>3 DEF Stay, ExecTypes
  <2>2. \A f \in {err, op, ef} : f # 0 => f # in /\ f # out
    BY <1>3 DEF AllApart, Apart
  <2> QED
    BY <1>3, <1>9, <2>1, <2>2
<1>11. ASSUME lost = {} PROVE Grown(pid, in, 0, op, {})
  <2>1. kid.in = File \/ (in # 0 /\ kid.in = open[in])
    BY <1>8 DEF ChildHas, OpenOn, JSI_BAD_FD
  <2>2. Ends(pid)' = {kid.in, kid.out, kid.err} \cup kid.more
    BY <1>6 DEF Ends
  <2>3. ASSUME NEW e \in Ends(pid)', NEW x \in Pipes
        PROVE  /\ e = Read(x) => in # 0 /\ open[in] = Read(x) /\ kid.in = Read(x)
               /\ e = Write(x) => op # 0 /\ open[op] = Read(x)
    <3>1. SUFFICES ASSUME e = Read(x) \/ e = Write(x)
                   PROVE  /\ e = Read(x) => in # 0 /\ open[in] = Read(x) /\ kid.in = Read(x)
                          /\ e = Write(x) => op # 0 /\ open[op] = Read(x)
      OBVIOUS
    <3>2. e # File
      BY <3>1, FdsAre DEF File, Read, Write
    <3>3. PICK f \in Fds : open[f] = e /\ (f \in {in, out, ce} \/ (f > in /\ f > out /\ f > ce))
      BY <1>8, <2>2, <3>2 DEF ChildHas
    <3>4. /\ open[f] = Read(x) => f \in {in, op}
          /\ open[f] = Write(x) => op # 0 /\ open[op] = Read(x)
      BY <1>1, <1>3, <1>11 DEF FdsOnPipes
    <3>5. f = op => f = in
      <4> SUFFICES ASSUME f = op, f # in PROVE FALSE
        OBVIOUS
      <4>1. op # 0
        BY <1>3
      <4>2. op # out /\ op # err
        BY <1>3, <1>10, <4>1 DEF AllApart, Apart
      <4>3. out > op
        BY <1>3, <1>11, <4>1 DEF NumberedIn
      <4>4. op > out
        BY <3>3, <4>2
      <4> QED
        BY <1>3, <4>3, <4>4
    <3>6. f = in => in # 0 /\ kid.in = open[in]
      BY <1>3, <1>8 DEF ChildHas, OpenOn, JSI_BAD_FD
    <3> QED
      BY <3>3, <3>4, <3>5, <3>6
  <2>4. \A f \in Fds : open'[f] = Closed \/ (open'[f] = open[f] /\ f # in)
    BY <1>9
  <2>5. {in, 0, op} \subseteq Fds \cup {0} /\ (op # 0 => open'[op] = open[op])
    BY <1>3, <1>10
  <2> QED
    BY <1>1, <1>6, <2>1, <2>3, <2>4, <2>5 DEF Grown
<1>12. ASSUME lost = {} PROVE NumberedIn(open', 0, out, op)
  <2>1. SUFFICES ASSUME op # 0
                 PROVE  /\ out > op
                        /\ \A f, g \in Fds : f < op /\ g < op /\ open'[f] = Closed /\ open'[g] = Closed => f = g
    BY DEF NumberedIn
  <2>2. /\ out > op
        /\ \A f, g \in Fds : f < op /\ g < op /\ open[f] = Closed =>
             /\ open[g] = Closed => f = g
             /\ in # 0 => in > op
    BY <1>3, <1>12, <2>1 DEF NumberedIn
  <2>3. SUFFICES ASSUME NEW f \in Fds, NEW g \in Fds, f < op, g < op, open'[f] = Closed, open'[g] = Closed
                 PROVE  f = g
    BY <2>2
  <2>4. f \in Nat /\ g \in Nat /\ op \in Nat /\ out \in Nat /\ in \in Nat /\ f # 0 /\ g # 0
    BY <1>3
  <2>5. (f = in \/ open[f] = Closed) /\ (g = in \/ open[g] = Closed)
    BY <1>9, <2>2, <2>3, <2>4
  <2> QED
    BY <2>2, <2>3, <2>4, <2>5
<1>13. PipesSound'
  <2>1. /\ ex.pc = "fork" /\ UNCHANGED <<host, lost>>
        /\ ex'.lastOutputId = ex.lastOutputId /\ ex'.errorId = ex.errorId /\ ex'.errFile = ex.errFile
        /\ ex.errFile # 0 => open'[ex.errFile] = open[ex.errFile]
        /\ \A f \in host : open'[f] = open[f]
    BY <1>1, <1>2, <1>6, <1>10
  <2>2. lost = {} => NumberedIn(open', 0, ex.lastOutputId, op)
    BY <1>1, <1>12
  <2>3. lost = {} => Grown(pid, in, 0, op, {})
    BY <1>11
  <2> QED
    BY <1>4, <2>1, <2>2, <2>3, ForkPipes
<1>14. FdsSound'
  <2>1. CASE ex'.pc = "memory overwritten"
    BY <2>1 DEF FdsSound, Forking, Reading
  <2>2. CASE ex'.pc = "fork"
    <3>1. ~More'
      <4>1. LastArg + 1 > Len(ex.words.args) /\ LastArg \in Nat
        BY <1>2, <1>3, LastArgIs
      <4>2. PICK a, b : a = LastArg + 1 /\ b = Len(ex.words.args)
        OBVIOUS
      <4>3. a \in Nat /\ b \in Nat /\ a > b
        BY <1>3, <4>1, <4>2
      <4>4. ex'.firstArg = a /\ Len(ex'.words.args) = b
        BY <1>6, <4>2
      <4> QED
        BY <4>3, <4>4 DEF More
    <3>2. OpenFds' = OpenFds \ {in, out} /\ Stay' = Stay
      <4>1. \A f \in Fds : open'[f] # Closed <=> open[f] # Closed /\ f \notin {in, out}
        BY <1>9
      <4> QED
        BY <1>6, <4>1 DEF OpenFds, Stay
    <3>3. AtWork' = {out, err, op, ef} \ {0}
      BY <1>6 DEF AtWork
    <3>4. /\ Stay \subseteq OpenFds' /\ OpenFds' \subseteq Stay \cup AtWork'
          /\ AtWork' \cap Stay = {}
      BY <1>3, <3>2, <3>3
    <3>5. {err, op, ef} \ {0} \subseteq OpenFds'
      BY <1>3, <1>10, <3>2
    <3>6. AllApart(0, out, err, op, ef)
      BY <1>3 DEF AllApart, Apart
    <3>7. ex'.pc \notin Reading /\ ex'.pc \notin {"idle", "reap", "input", "output"}
      BY <2>2 DEF Reading
    <3> QED
      BY <1>3, <1>6, <2>2, <3>1, <3>2, <3>4, <3>5, <3>6, <3>7 DEF FdsSound
  <2> QED
    BY <1>6, <2>1, <2>2
<1> QED
  BY <1>4, <1>13, <1>14 DEF ExecIInv

\* A child is forked with a pipe to the next one.
LEMMA ForkNextStep ==
  ASSUME ExecConstants, ExecIInv, ForkNext
  PROVE  ExecIInv'
<1>1. PICK in, out, err, op, ef : /\ in = ex.inputId /\ out = ex.lastOutputId /\ err = ex.errorId
                                  /\ op = ex.outPipe /\ ef = ex.errFile
  OBVIOUS
<1>2. PICK q, p, r, w :
         /\ p = UnusedPipe /\ q = PipeIn(open, UnusedPipe).open
         /\ r = PipeIn(open, UnusedPipe).r /\ w = PipeIn(open, UnusedPipe).w
  OBVIOUS
<1>3. ex.pc = "fork" /\ More /\ MayFork /\ MayPipe /\ Forks(q, w, r)
  BY <1>2 DEF ForkNext
<1>4. /\ InCall /\ ExecTypes /\ open \in [Fds -> End]
      /\ in \in Fds \cup {0} /\ out \in Fds \cup {0} /\ err \in Fds \cup {0}
      /\ op \in Fds \cup {0} /\ ef \in Fds \cup {0}
      /\ Len(ex.words.args) \in Nat /\ ex.firstArg \in Nat /\ 0 \notin Fds /\ Fds \subseteq Nat
      /\ AllApart(in, out, err, op, ef)
      /\ OpenFds = Stay \cup ({in, out, err, op, ef} \ {0})
      /\ {in, out, err, op, ef} \cap Stay = {}
      /\ \A f \in Fds : f \in OpenFds <=> open[f] # Closed
      /\ ex.background => op = 0 /\ ef = 0
      /\ lost = {} => FdsOnPipes /\ OutputReadByExec /\ NumberedIn(open, in, out, op)
  BY <1>1, <1>3, ForkFds
<1>5. p \in Pipes /\ Unused(p) /\ Piped(open, q, p, r, w)
  BY <1>2, <1>3, <1>4, UnusedIs, UnusedMeans, PipeInIs
<1>6. /\ r \in Fds /\ w \in Fds /\ r < w /\ open[r] = Closed /\ open[w] = Closed
      /\ \A f \in Fds : open[f] = Closed => r <= f /\ (f = r \/ w <= f)
      /\ q \in [Fds -> End] /\ q[r] = Read(p) /\ q[w] = Write(p)
      /\ \A f \in Fds : f # r /\ f # w => q[f] = open[f]
      /\ Read(p) # Closed /\ Write(p) # Closed
  BY <1>5 DEF Piped, Read, Write, Closed
<1>7. r # w /\ \A f \in {in, out, err, op, ef} \cup Stay : f # r /\ f # w
  BY <1>4, <1>6
<1>8. /\ ExecTypes' /\ KidsSound'
      /\ \E pid, kid : Forked(pid, kid, q, w, r)
  BY <1>3, <1>6, ForksIs
<1>9. PICK pid, kid : Forked(pid, kid, q, w, r)
  BY <1>8
<1>10. /\ pid \in Pids /\ pid \notin Own /\ kids'[pid] = kid
       /\ \A c \in Pids : c # pid => kids'[c] = kids[c]
       /\ open' = Close(q, {in, w}) /\ UNCHANGED <<host, lost, forgotten>>
       /\ ex'.pc \in {"fork", "memory overwritten"}
       /\ ex'.background = ex.background /\ ex'.words = ex.words
       /\ ex'.inputId = r /\ ex'.lastOutputId = out /\ ex'.errorId = err
       /\ ex'.outPipe = op /\ ex'.errFile = ef /\ ex'.pids = Append(ex.pids, pid)
  BY <1>1, <1>9 DEF Forked
<1>11. PICK ce \in {w, err} : kid = Child(q, in, w, ce)
  BY <1>1, <1>9 DEF Forked
<1>12. ChildHas(kid, q, in, w, ce)
  <2>1. ce \in Fds \cup {0} /\ w \in Fds \cup {0}
    BY <1>4, <1>6
  <2> QED
    BY <1>4, <1>6, <1>11, <2>1, ChildIs
<1>13. /\ \A f \in Fds : f \in {in, w} => open'[f] = Closed
       /\ \A f \in Fds : f \notin {in, w, r} => open'[f] = open[f]
       /\ open'[r] = Read(p)
  <2>1. PICK S : S = {in, w}
    OBVIOUS
  <2>2. open' = Close(q, S)
    BY <1>10, <2>1
  <2>3. \A f \in Fds : open'[f] = IF f \in S THEN Closed ELSE q[f]
    BY <1>6, <2>2, CloseIs
  <2> QED
    BY <1>6, <1>7, <2>1, <2>3
<1>14. /\ \A f \in host : open'[f] = open[f]
       /\ ef # 0 => open'[ef] = open[ef]
       /\ op # 0 => open'[op] = open[op]
       /\ in # 0 => q[in] = open[in]
       /\ \A f \in {out, err, op, ef} : f # 0 => f # in
  <2>1. \A f \in host : f \in Fds /\ f # in /\ f \in Stay
    BY <1>4 DEF Stay, ExecTypes
  <2>2. \A f \in {out, err, op, ef} : f # 0 => f # in
    BY <1>4 DEF AllApart, Apart
  <2> QED
    BY <1>4, <1>6, <1>7, <1>13, <2>1, <2>2
\* The pipe lies behind the one that exec reads.
<1>15. ASSUME lost = {}, op # 0
       PROVE  /\ out > op /\ w > op
              /\ \A f, g \in Fds : f < op /\ g < op /\ open[f] = Closed =>
                   /\ open[g] = Closed => f = g
                   /\ in # 0 => in > op
  <2>1. /\ out > op
        /\ \A f, g \in Fds : f < op /\ g < op /\ open[f] = Closed =>
             /\ open[g] = Closed => f = g
             /\ in # 0 => in > op
    BY <1>4, <1>15 DEF NumberedIn
  <2>2. op \in Nat /\ r \in Nat /\ w \in Nat /\ op # w
    BY <1>4, <1>6, <1>7
  <2>3. ~(w < op)
    <3> SUFFICES ASSUME w < op PROVE FALSE
      OBVIOUS
    <3>1. r < op
      BY <1>6, <2>2
    <3> QED
      BY <1>6, <1>7, <2>1, <3>1
  <2> QED
    BY <2>1, <2>2, <2>3
<1>16. ASSUME lost = {} PROVE Grown(pid, in, r, op, {p})
  <2>1. kid.in = File \/ (in # 0 /\ kid.in = open[in])
    BY <1>12, <1>14 DEF ChildHas, OpenOn, JSI_BAD_FD
  <2>2. Ends(pid)' = {kid.in, kid.out, kid.err} \cup kid.more
    BY <1>10 DEF Ends
  <2>3. ASSUME NEW e \in Ends(pid)', NEW x \in Pipes
        PROVE  /\ e = Read(x) => in # 0 /\ open[in] = Read(x) /\ kid.in = Read(x)
               /\ e = Write(x) => x = p \/ (op # 0 /\ open[op] = Read(x))
    <3>1. SUFFICES ASSUME e = Read(x) \/ e = Write(x)
                   PROVE  /\ e = Read(x) => in # 0 /\ open[in] = Read(x) /\ kid.in = Read(x)
                          /\ e = Write(x) => x = p \/ (op # 0 /\ open[op] = Read(x))
      OBVIOUS
    <3>2. e # File
      BY <3>1, FdsAre DEF File, Read, Write
    <3>3. PICK f \in Fds : q[f] = e /\ (f \in {in, w, ce} \/ (f > in /\ f > w /\ f > ce))
      BY <1>12, <2>2, <3>2 DEF ChildHas
    <3>4. CASE f = w
      BY <1>6, <3>3, <3>4 DEF Read, Write
    <3>5. f # r
      <4>1. r # in /\ r # w /\ r # err /\ ~(r > w)
        BY <1>4, <1>6, <1>7
      <4> QED
        BY <3>3, <4>1
    <3>6. CASE f # w
      <4>1. open[f] = e
        BY <1>6, <3>3, <3>5, <3>6
      <4>2. /\ open[f] = Read(x) => f \in {in, op}
            /\ open[f] = Write(x) => op # 0 /\ open[op] = Read(x)
        BY <1>1, <1>4, <1>16 DEF FdsOnPipes
      <4>3. f = op => f = in
        <5> SUFFICES ASSUME f = op, f # in PROVE FALSE
          OBVIOUS
        <5>1. op # 0
          BY <1>4
        <5>2. op # w /\ op # err
          BY <1>4, <1>7, <5>1 DEF AllApart, Apart
        <5>3. w > op
          BY <1>15, <1>16, <5>1
        <5>4. op > w
          BY <3>3, <5>2
        <5> QED
          BY <1>4, <1>6, <5>3, <5>4
      <4>4. f = in => in # 0 /\ kid.in = open[in]
        BY <1>4, <1>12, <1>14 DEF ChildHas, OpenOn, JSI_BAD_FD
      <4> QED
        BY <4>1, <4>2, <4>3, <4>4
    <3> QED
      BY <3>4, <3>6
  <2>4. \A f \in Fds : \/ open'[f] = Closed
                       \/ open'[f] = open[f] /\ f # in
                       \/ f = r /\ \E x \in {p} : open'[f] = Read(x)
    BY <1>13
  <2>5. {in, r, op} \subseteq Fds \cup {0} /\ (op # 0 => open'[op] = open[op])
    BY <1>4, <1>6, <1>14
  <2>6. {p} \subseteq Pipes /\ \A x \in {p} : Unused(x)
    BY <1>5
  <2>7. r # 0 => \E x \in {p} : open'[r] = Read(x)
    BY <1>13
  <2> QED
    BY <1>1, <1>10, <2>1, <2>3, <2>4, <2>5, <2>6, <2>7 DEF Grown
<1>17. ASSUME lost = {} PROVE NumberedIn(open', r, out, op)
  <2>1. SUFFICES ASSUME op # 0
                 PROVE  /\ out > op
                        /\ \A f, g \in Fds : f < op /\ g < op /\ open'[f] = Closed =>
                             /\ open'[g] = Closed => f = g
                             /\ r # 0 => r > op
    BY DEF NumberedIn
  <2>2. /\ out > op /\ w > op
        /\ \A f, g \in Fds : f < op /\ g < op /\ open[f] = Closed =>
             /\ open[g] = Closed => f = g
             /\ in # 0 => in > op
    BY <1>15, <1>17, <2>1
  <2>3. op \in Nat /\ w \in Nat /\ r \in Nat /\ in \in Nat /\ r # op
    BY <1>4, <1>6, <1>7
  \* A descriptor before it that is free now is that of the input.
  <2>4. ASSUME NEW f \in Fds, f < op, open'[f] = Closed PROVE f = in
    <3>1. f \in Nat /\ f # w /\ f # r
      BY <1>4, <1>6, <1>13, <2>2, <2>3, <2>4
    <3> SUFFICES ASSUME f # in PROVE FALSE
      OBVIOUS
    <3>2. open[f] = Closed
      BY <1>13, <2>4, <3>1
    <3>3. w <= f
      BY <1>6, <3>1, <3>2
    <3> QED
      BY <2>2, <2>3, <2>4, <3>1, <3>3
  <2>5. ASSUME NEW f \in Fds, f < op, open'[f] = Closed PROVE r > op
    <3>1. f = in /\ in # 0
      BY <1>4, <2>4, <2>5
    <3>2. ~(r < op)
      <4> SUFFICES ASSUME r < op PROVE FALSE
        OBVIOUS
      <4>1. in > op
        BY <1>6, <2>2, <3>1
      <4> QED
        BY <2>3, <2>5, <3>1, <4>1
    <3> QED
      BY <2>3, <3>2
  <2> QED
    BY <2>2, <2>4, <2>5
<1>18. PipesSound'
  <2>1. /\ ex.pc = "fork" /\ UNCHANGED <<host, lost>>
        /\ ex'.lastOutputId = ex.lastOutputId /\ ex'.errorId = ex.errorId /\ ex'.errFile = ex.errFile
        /\ ex.errFile # 0 => open'[ex.errFile] = open[ex.errFile]
        /\ \A f \in host : open'[f] = open[f]
    BY <1>1, <1>3, <1>10, <1>14
  <2>2. lost = {} => NumberedIn(open', r, ex.lastOutputId, op)
    BY <1>1, <1>17
  <2>3. lost = {} => Grown(pid, in, r, op, {p})
    BY <1>16
  <2> QED
    BY <1>8, <2>1, <2>2, <2>3, ForkPipes
<1>19. FdsSound'
  <2>1. CASE ex'.pc = "memory overwritten"
    BY <2>1 DEF FdsSound, Forking, Reading
  <2>2. CASE ex'.pc = "fork"
    <3>1. OpenFds' = (OpenFds \ {in}) \cup {r} /\ Stay' = Stay
      <4>1. \A f \in Fds : open'[f] # Closed <=> (open[f] # Closed /\ f # in) \/ f = r
        BY <1>6, <1>7, <1>13
      <4>2. \A f : f \in OpenFds' <=> f \in (OpenFds \ {in}) \cup {r}
        BY <1>6, <4>1 DEF OpenFds
      <4>3. OpenFds' = (OpenFds \ {in}) \cup {r}
        BY <4>2
      <4> QED
        BY <1>10, <4>3 DEF Stay
    <3>2. AtWork' = {r, out, err, op, ef} \ {0}
      BY <1>10 DEF AtWork
    <3>3. /\ Stay \subseteq OpenFds' /\ OpenFds' \subseteq Stay \cup AtWork'
          /\ AtWork' \cap Stay = {} /\ AtWork' \subseteq OpenFds'
      <4>1. r # 0 /\ r \notin Stay /\ r # in
        BY <1>4, <1>6, <1>7
      <4>2. \A f \in {out, err, op, ef} : f # 0 => f \in OpenFds /\ f # in
        BY <1>4, <1>14
      <4>3. \A f \in Stay : f \in OpenFds /\ f # in
        BY <1>4
      <4> QED
        BY <1>4, <3>1, <3>2, <4>1, <4>2, <4>3
    <3>4. {err, op, ef} \ {0} \subseteq OpenFds'
      BY <3>2, <3>3
    <3>5. AllApart(r, out, err, op, ef)
      BY <1>4, <1>7 DEF AllApart, Apart
    <3>6. ex'.pc \notin Reading /\ ex'.pc \notin {"idle", "reap", "input", "output"}
      BY <2>2 DEF Reading
    <3> QED
      BY <1>4, <1>10, <2>2, <3>1, <3>3, <3>4, <3>5, <3>6 DEF FdsSound
  <2> QED
    BY <1>10, <2>1, <2>2
<1> QED
  BY <1>8, <1>18, <1>19 DEF ExecIInv

-----------------------------------------------------------------------------
(* The theorem.                                                            *)

\* At first nothing is open but what the program has.
LEMMA ExecInitIs ==
  ASSUME ExecConstants, ExecInit
  PROVE  ExecIInv
<1>1. /\ host \in Hosts /\ open = [f \in Fds |-> IF f \in host THEN File ELSE Closed]
      /\ kids = [c \in Pids |-> NoKid] /\ table = <<>> /\ ex = Idle
      /\ lost = {} /\ forgotten = {}
  BY DEF ExecInit, ExecFrom
<1>2. host \subseteq Fds
  BY <1>1 DEF ExecConstants
<1>3. /\ open \in [Fds -> End] /\ \A f \in Fds : open[f] = IF f \in host THEN File ELSE Closed
      /\ File # Closed
  BY <1>1, FdsAre
<1>4. kids \in [Pids -> Kid] /\ \A c \in Pids : kids[c].st = "none"
  <2>1. NoKid \in Kid /\ NoKid.st = "none"
    BY FdsAre DEF NoKid, Kid
  <2> QED
    BY <1>1, <2>1
<1>5. ex.pc = "idle" /\ ~InCall
  BY <1>1 DEF Idle, InCall, Forking, Reading
<1>6. ExecTypes
  BY <1>1, <1>2, <1>3, <1>4 DEF ExecTypes, Locals
<1>7. KidsSound
  <2>1. Existing = {} /\ Known = {}
    BY <1>1, <1>4 DEF Existing, Known
  <2>2. 1..Len(table) = {}
    BY <1>1
  <2>3. From(1) = {} /\ OnceFrom(1) /\ DetachedFrom(1)
    BY <2>2 DEF From, OnceFrom, DetachedFrom
  <2> QED
    BY <1>1, <1>5, <2>1, <2>3 DEF KidsSound
<1>8. FdsSound
  <2>1. OpenFds = Stay
    BY <1>1, <1>2, <1>3 DEF OpenFds, Stay
  <2> QED
    BY <1>5, <2>1 DEF FdsSound, Forking, Reading
<1>9. PipesSound
  BY <1>2, <1>3, <1>5 DEF PipesSound
<1> QED
  BY <1>6, <1>7, <1>8, <1>9 DEF ExecIInv

\* A stuttering step keeps the invariant.
LEMMA ExecStutter ==
  ASSUME ExecIInv, UNCHANGED execVars
  PROVE  ExecIInv'
<1>1. UNCHANGED <<open, kids, table, ex, host, lost, forgotten>>
  BY DEF execVars
<1>2. ExecTypes'
  BY <1>1 DEF ExecIInv, ExecTypes, Locals
<1>3. KidsSound'
  BY <1>1 DEF ExecIInv, KidsSound, Known, Existing, From, OnceFrom, DetachedFrom, InCall
<1>4. FdsSound'
  BY <1>1 DEF ExecIInv, FdsSound, OpenFds, Stay, AtWork, More
<1>5. /\ (Numbered' <=> Numbered) /\ (FdsOnPipes' <=> FdsOnPipes)
      /\ Own' = Own /\ InCall' = InCall
      /\ \A c \in Pids : (Alive(c)' <=> Alive(c)) /\ Ends(c)' = Ends(c)
  BY <1>1 DEF Numbered, FdsOnPipes, Own, InCall, Alive, Ends
<1>6. /\ Own \subseteq Pids => (Fresh' <=> Fresh) /\ (OutputReadByExec' <=> OutputReadByExec)
                               /\ (InputForNext' <=> InputForNext)
  BY <1>1, <1>5 DEF Fresh, OutputReadByExec, InputForNext
<1>7. Chained' <=> Chained
  BY <1>1 DEF Chained, Alive, Ends
<1>8. InCall => Own \subseteq Pids
  BY InCallIs DEF ExecIInv, Own, Range
<1>9. PipesSound'
  BY <1>1, <1>5, <1>6, <1>7, <1>8 DEF ExecIInv, PipesSound
<1> QED
  BY <1>2, <1>3, <1>4, <1>9 DEF ExecIInv

\* Every step keeps the invariant.
LEMMA ExecNextStep ==
  ASSUME ExecConstants, ExecIInv, ExecNext
  PROVE  ExecIInv'
<1>1. CASE Exec
  BY <1>1, ExecStep
<1>2. CASE Reap
  BY <1>2, ReapStep
<1>3. CASE \E line \in Lines : CreatePipeline(line)
  BY <1>3, CreatePipelineStep
<1>4. CASE Failure
  BY <1>4, FailureStep
<1>5. CASE OpenInput
  BY <1>5, OpenInputStep
<1>6. CASE OpenOutput
  BY <1>6, OpenOutputStep
<1>7. CASE OpenError
  BY <1>7, OpenErrorStep
<1>8. CASE ForkLast
  BY <1>8, ForkLastStep
<1>9. CASE ForkNext
  BY <1>9, ForkNextStep
<1>10. CASE ForkFails
  BY <1>10, ForkFailsStep
<1>11. CASE Started
  BY <1>11, StartedStep
<1>12. CASE ReadOutput
  BY <1>12, ReadOutputStep
<1>13. CASE WaitForProcess
  BY <1>13, WaitForProcessStep
<1>14. CASE ReadErrors
  BY <1>14, ReadErrorsStep
<1>15. CASE \E c \in Pids : ChildEnds(c)
  BY <1>15, ChildEndsStep
<1> QED
  BY <1>1, <1>2, <1>3, <1>4, <1>5, <1>6, <1>7, <1>8, <1>9, <1>10, <1>11, <1>12, <1>13, <1>14, <1>15
  DEF ExecNext

\* What somebody holds while exec reads or waits.
LEMMA HeldIs ==
  ASSUME ExecConstants, ExecIInv, ex.pc \in Reading, lost = {}, NEW p \in Pipes
  PROVE  /\ Held(Read(p)) => \/ ex.outPipe # 0 /\ open[ex.outPipe] = Read(p)
                             \/ \E c \in Pids : Alive(c) /\ Read(p) \in Ends(c)
         /\ Held(Write(p)) => \E c \in Pids : Alive(c) /\ Write(p) \in Ends(c)
<1>1. \A f \in Fds : \/ open[f] \in {File, Closed}
                     \/ f = ex.outPipe /\ open[f] \in Pipes \X {"read"}
  BY ReadingFds
<1>2. \A f \in Fds : open[f] # Write(p) /\ (open[f] = Read(p) => f = ex.outPipe)
  BY <1>1, FdsAre DEF File, Closed, Read, Write
<1> QED
  BY <1>2, FdsAre DEF Held, Alive

\* The first child that is alive reads from a pipe that nobody writes any more.
LEMMA NeverStuckHolds ==
  ASSUME ExecConstants, ExecIInv
  PROVE  NeverStuck
<1>1. SUFFICES ASSUME ex.pc \in Reading, lost = {} PROVE NeverStuck
  BY DEF NeverStuck, Reading
<1>2. InCall /\ ExecTypes
  BY <1>1 DEF InCall, ExecIInv
<1>3. PICK s \in Seq(Pids) : s = ex.pids
  BY <1>2, InCallIs
<1>4. /\ \A f \in Fds : \/ open[f] \in {File, Closed}
                        \/ f = ex.outPipe /\ open[f] \in Pipes \X {"read"}
      /\ Fresh /\ OutputReadByExec /\ Chained
  BY <1>1, ReadingFds
<1>5. /\ ex.outPipe \in Fds \cup {0} /\ 0 \notin Pipes
      /\ \A p \in Pipes : Read(p)[1] = p /\ Write(p)[1] = p
  BY <1>2, InCallIs, FdsAre DEF Read, Write
<1>6. /\ Own = {s[j] : j \in 1..Len(s)} /\ Len(s) \in Nat /\ Own \subseteq Pids
  BY <1>3 DEF Own, Range
<1>7. Running = {c \in Own : Alive(c)}
  BY DEF Running, Own, Alive
<1>8. ASSUME Running = {}, ex.outPipe # 0 PROVE AtEnd(open[ex.outPipe])
  <2>1. PICK y \in Pipes : open[ex.outPipe] = Read(y) /\ open[ex.outPipe][1] = y
    BY <1>4, <1>8 DEF OutputReadByExec, Read
  <2>2. SUFFICES ASSUME NEW d \in Pids, Alive(d), Write(y) \in Ends(d) PROVE FALSE
    BY <1>1, <2>1, HeldIs DEF AtEnd
  <2>3. d \notin Own
    BY <1>7, <1>8, <2>2
  <2>4. \A f \in Fds : open[f][1] # y
    BY <1>4, <1>5, <2>2, <2>3 DEF Fresh
  <2> QED
    BY <1>5, <1>8, <2>1, <2>4
<1>9. ASSUME Running # {} PROVE \E c \in Running : IsRead(kids[c].in) => AtEnd(kids[c].in)
  <2> DEFINE S == {j \in 1..Len(s) : Alive(s[j])}
  <2>1. S \subseteq Nat /\ S # {}
    BY <1>6, <1>7, <1>9
  <2>2. PICK j \in S : \A i \in S : j <= i
    BY <2>1, Least
  <2>3. s[j] \in Running /\ s[j] \in Own /\ s[j] \in Pids /\ j \in 1..Len(s) /\ Alive(s[j])
    BY <1>6, <1>7, <2>2
  <2>4. SUFFICES ASSUME IsRead(kids[s[j]].in) PROVE AtEnd(kids[s[j]].in)
    BY <2>3
  <2>5. kids[s[j]].in \in Ends(s[j]) /\ kids[s[j]].in \in End
    BY <1>2, <2>3 DEF Ends, ExecTypes, Kid
  <2>6. PICK y \in Pipes : kids[s[j]].in = Read(y) /\ kids[s[j]].in[1] = y
    BY <2>4, <2>5 DEF IsRead, End, File, Closed, Read
  <2>7. SUFFICES ASSUME NEW d \in Pids, Alive(d), Write(y) \in Ends(d) PROVE FALSE
    BY <1>1, <2>6, HeldIs DEF AtEnd
  <2>8. CASE d \in Own
    <3>1. PICK i \in 1..Len(s) : d = s[i]
      BY <1>6, <2>8
    <3>2. i < j
      BY <1>3, <1>4, <2>3, <2>5, <2>6, <2>7, <3>1 DEF Chained
    <3>3. j <= i
      BY <2>2, <2>7, <3>1
    <3> QED
      BY <1>6, <2>3, <3>1, <3>2, <3>3
  <2>9. CASE d \notin Own
    <3>1. \A x \in Ends(s[j]) : x[1] # y
      BY <1>4, <1>5, <2>3, <2>7, <2>9 DEF Fresh
    <3> QED
      BY <2>5, <2>6, <3>1
  <2> QED
    BY <2>8, <2>9
<1>10. ASSUME NEW c \in Running, NEW p \in Pipes, kids[c].out = Write(p), Held(Read(p))
       PROVE  \/ \E d \in Running : kids[d].in = Read(p)
              \/ ex.outPipe # 0 /\ open[ex.outPipe] = Read(p)
  <2>1. SUFFICES ASSUME NEW d \in Pids, Alive(d), Read(p) \in Ends(d)
                 PROVE  \E b \in Running : kids[b].in = Read(p)
    BY <1>1, <1>10, HeldIs
  <2>2. CASE d \in Own
    <3>1. PICK j \in 1..Len(s) : d = s[j]
      BY <1>6, <2>2
    <3>2. kids[d].in = Read(p)
      BY <1>3, <1>4, <2>1, <3>1 DEF Chained
    <3> QED
      BY <1>7, <2>1, <2>2, <3>2
  <2>3. CASE d \notin Own
    <3>1. c \in Own /\ Alive(c) /\ Write(p) \in Ends(c)
      BY <1>7, <1>10 DEF Ends
    <3> QED
      BY <1>4, <1>5, <2>1, <2>3, <3>1 DEF Fresh
  <2> QED
    BY <2>2, <2>3
<1> QED
  BY <1>8, <1>9, <1>10 DEF NeverStuck, JSI_BAD_FD

\* What the invariant says between calls and while exec waits.
LEMMA ExecSoundHolds ==
  ASSUME ExecConstants, ExecIInv
  PROVE  ExecSound
<1>1. DescriptorsBack
  BY DEF ExecIInv, FdsSound, DescriptorsBack, OpenFds, Stay
<1>2. ChildrenAccounted
  BY DEF ExecIInv, KidsSound, ChildrenAccounted, Known, Existing, From, OnceFrom, DetachedFrom
<1>3. NeverStuck
  BY NeverStuckHolds
<1> QED
  BY <1>1, <1>2, <1>3 DEF ExecSound

\* exec() is sound, whatever the commands, the descriptors the program has, and their number,
\* and whichever calls of the system fail: between calls the descriptors are those of before
\* and every child is in the table or was forgotten; and it never waits for what cannot come
\* (jsi_execCmd, JsiCreatePipeline, JsiCleanupChildren and the table of children).
THEOREM ExecIsSound == ExecSpec => []ExecSound
<1>0. ExecConstants
  BY ExecAssumption
<1>1. ExecInit => ExecIInv
  BY <1>0, ExecInitIs
<1>2. ExecIInv /\ [ExecNext]_execVars => ExecIInv'
  BY <1>0, ExecNextStep, ExecStutter
<1>3. ExecIInv => ExecSound
  BY <1>0, ExecSoundHolds
<1> QED
  BY <1>1, <1>2, <1>3, PTL DEF ExecSpec
=============================================================================
