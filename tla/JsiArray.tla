------------------------------ MODULE JsiArray ------------------------------
(***************************************************************************)
(* Arrays (jsiArray.c, and the parts of jsiObj.c and jsiValue.c for them). *)
(*                                                                         *)
(* An array is a block of arrMaxSize pointers to values, the first arrCnt  *)
(* of them its elements; NULL is a hole.  A value has a count of           *)
(* references.  Methods move pointers within the block, copy values to new *)
(* arrays, or, filter, share them; map, filter, forEach and some call a    *)
(* function of the script for each element, in which the script may do     *)
(* anything to the array.                                                  *)
(*                                                                         *)
(* Elements are read by index, and what an array should hold is kept as a  *)
(* sequence beside it.  A value that no block points to is left out.       *)
(***************************************************************************)
EXTENDS Integers, Sequences, FiniteSetsExt, SequencesExt

CONSTANTS Names,     \* the arrays that there may be
          Data,      \* the values put into them, numbers
          Lists,     \* the lists of them that calls are given
          MOD,       \* what the size of a block is a multiple of (ARRAY_MOD_SIZE)
          MaxLen,    \* bound on the lengths that calls are made for
          MaxCalls   \* bound on the calls

VARIABLES obj,     \* the arrays: arr (the block), arrCnt
          val,     \* the values: v, refCnt
          iter,    \* the iteration that is calling a function
          js,      \* ghost: what each array should hold
          tainted, \* ghost: the arrays that shared a value, or kept one past the end
          odd,     \* ghost: a call was made past the bounds that the code allows for
          crashed, \* an assertion failed, or freed or foreign memory was used
          calls

vars == <<obj, val, iter, js, tainted, odd, crashed, calls>>

NULL == 0
Undef == 0
Hole == -1
None == [arr |-> <<>>, arrCnt |-> -1]   \* no array of that name
NoIter == [op |-> "none", a |-> "", b |-> ""]

MaxOf(S) == Max(S \cup {0})
Slot(x, i) == x.arr[i + 1]
arrMaxSize(x) == Len(x.arr)
Holes(n) == SubSeq([i \in 1..n |-> NULL], 1, n)
Reset(x) == [v |-> Undef, refCnt |-> x.refCnt]

\* A state within a call: the arrays, the values, whether all is well.
Now == [obj |-> obj, val |-> val, ok |-> TRUE]
Failed(st) == [st EXCEPT !.ok = FALSE]

-----------------------------------------------------------------------------
(***************************************************************************)
(* jsiObj.c.                                                               *)
(***************************************************************************)
\* Room for the index len, in a block that is a multiple of MOD; the count grows to len.
ArraySizer(x, len) ==
    LET nsiz == ((len + 1 + MOD - 1) \div MOD) * MOD
    IN [arr |-> IF len >= arrMaxSize(x) THEN x.arr \o Holes(nsiz - arrMaxSize(x)) ELSE x.arr,
        arrCnt |-> MaxOf({len, x.arrCnt})]

SetLength(st, a, len) ==
    IF len > arrMaxSize(st.obj[a]) THEN Failed(st)
    ELSE [st EXCEPT !.obj[a].arrCnt = len]

Pointers(x) == {x.arr[i] : i \in DOMAIN x.arr} \ {NULL}
Used(st) == DOMAIN st.val \cup UNION {Pointers(st.obj[a]) : a \in Names}
Unused(st) == Min(1..(Cardinality(Used(st)) + 1) \ Used(st))

\* A new value, copied from another, in a place of the block.
Store(st, a, i, v) ==
    LET p == Unused(st)
    IN IF i >= arrMaxSize(st.obj[a]) THEN Failed(st)
       ELSE [st EXCEPT !.obj[a].arr[i + 1] = p, !.val = (p :> [v |-> v, refCnt |-> 1]) @@ @]

\* jsi_ObjArraySetDup.  A value that is there is overwritten, whoever has it, and its count
\* set to 1; and the length is only set when there was none.
SetDup(st, a, n, v) ==
    LET sized == [st EXCEPT !.obj[a] = ArraySizer(@, n)]
        p == Slot(sized.obj[a], n)
    IN IF p = NULL
       THEN LET s == Store(sized, a, n, v)
            IN SetLength(s, a, MaxOf({n + 1, s.obj[a].arrCnt}))
       ELSE IF p \notin DOMAIN st.val THEN Failed(st)
       ELSE [sized EXCEPT !.val[p] = [v |-> v, refCnt |-> 1]]

\* Faulty: the values are not copied.
SharedTo(st, b, to, ps) ==
    FoldLeft(LAMBDA s, i : [s EXCEPT !.obj[b].arr[to + i] = ps[i]],
             st, [i \in DOMAIN ps |-> i])

\* Copies of values to a new array, from its place to on; holes stay holes.
CopyTo(st, b, to, ps) ==
    FoldLeft(LAMBDA s, i :
                 IF ps[i] = NULL \/ ~s.ok THEN s
                 ELSE IF ps[i] \notin DOMAIN s.val THEN Failed(s)
                 ELSE Store(s, b, to + i - 1, s.val[ps[i]].v),
             st, [i \in DOMAIN ps |-> i])

NewArray(st, b, size) == [st EXCEPT !.obj[b] = [arr |-> Holes(size), arrCnt |-> 0]]

\* Jsi_ObjFree.  What lies past the end is left.
ObjFree(st, a) ==
    LET x == st.obj[a]
        Drop(s, p) ==
            IF p = NULL \/ ~s.ok THEN s
            ELSE IF p \notin DOMAIN s.val THEN Failed(s)
            ELSE IF s.val[p].refCnt > 1 THEN [s EXCEPT !.val[p].refCnt = @ - 1]
            ELSE [s EXCEPT !.val = [q \in DOMAIN @ \ {p} |-> @[q]]]
        s == FoldLeft(Drop, st, SubSeq(x.arr, 1, x.arrCnt))
    IN [s EXCEPT !.obj[a] = None]

-----------------------------------------------------------------------------
(***************************************************************************)
(* jsiArray.c: what each call does to the blocks.                          *)
(***************************************************************************)
Cnt(a) == obj[a].arrCnt
Block(a, from, n) == SubSeq(obj[a].arr, from + 1, from + n)

Literal(b, vs) ==
    LET st == [Now EXCEPT !.obj[b] = ArraySizer([arr |-> Holes(1), arrCnt |-> 0], Len(vs))]
    IN FoldLeft(LAMBDA s, i : Store(s, b, i - 1, vs[i]), st, [i \in DOMAIN vs |-> i])

Push(a, vs) ==
    FoldLeft(LAMBDA s, i : IF s.ok THEN SetDup(s, a, Cnt(a) + i - 1, vs[i]) ELSE s,
             Now, [i \in DOMAIN vs |-> i])

\* The value is set to undefined.
Pop(a) ==
    LET i == Cnt(a) - 1
        p == Slot(obj[a], i)
        taken == [Now EXCEPT !.obj[a].arr[i + 1] = NULL]
    IN IF i < 0 THEN Now
       ELSE IF p = NULL THEN SetLength(Now, a, i)
       ELSE IF p \notin DOMAIN val THEN Failed(Now)
       ELSE SetLength([taken EXCEPT !.val[p] = Reset(@)], a, i)

Shift(a) ==
    LET n == Cnt(a) - 1
    IN IF n < 0 THEN Now
       ELSE IF Slot(obj[a], 0) \notin DOMAIN val \cup {NULL} THEN Failed(Now)
       ELSE SetLength([Now EXCEPT !.obj[a].arr = Block(a, 1, n) \o <<NULL>>
                                                  \o SubSeq(@, n + 2, Len(@))], a, n)

Unshift(a, vs) ==
    LET n == Cnt(a)
        k == Len(vs)
        x == ArraySizer(obj[a], n + k)
        st == [Now EXCEPT !.obj[a].arr =
                  Holes(k) \o SubSeq(x.arr, 1, n) \o SubSeq(x.arr, n + k + 1, Len(x.arr))]
    IN SetLength(FoldLeft(LAMBDA s, i : Store(s, a, i - 1, vs[i]), st, [i \in 1..k |-> i]),
                 a, n + k)

Reversed(a) ==
    [Now EXCEPT !.obj[a].arr = Reverse(Block(a, 0, Cnt(a))) \o SubSeq(@, Cnt(a) + 1, Len(@))]

\* qsort with SortSubCmd: holes come first.
Before(p, q) == q # NULL /\ (p = NULL \/ val[p].v < val[q].v)
Sort(a) ==
    LET ps == Block(a, 0, Cnt(a))
    IN IF \E i \in DOMAIN ps : ps[i] \notin DOMAIN val \cup {NULL} THEN Failed(Now)
       ELSE [Now EXCEPT !.obj[a].arr = SortSeq(ps, Before) \o SubSeq(@, Cnt(a) + 1, Len(@))]

\* The end is included, and may be one past the last element.
SliceEnd(a, end) == IF end >= Cnt(a) THEN Cnt(a) ELSE end
Slice(a, start, end, b) ==
    LET nsiz == SliceEnd(a, end) - start + 1
    IN IF start >= Cnt(a) \/ nsiz <= 0 THEN Now
       ELSE IF SliceEnd(a, end) >= arrMaxSize(obj[a]) THEN Failed(Now)
       ELSE SetLength(CopyTo(NewArray(Now, b, nsiz), b, 0, Block(a, start, nsiz)), b, nsiz)

Concat(a, c, b) ==
    LET new == NewArray(Now, b, arrMaxSize(obj[a]))
        own == CopyTo(new, b, 0, Block(a, 0, Cnt(a)))
        sized == [own EXCEPT !.obj[b] = ArraySizer(@, Cnt(a) + Cnt(c))]
    IN SetLength(CopyTo(sized, b, Cnt(a), Block(c, 0, Cnt(c))), b, Cnt(a) + Cnt(c))

\* The elements removed go to an array of start + 1 places.  Those after them move down and
\* their places are emptied; when there are none the removed ones stay where they are.
HowMany(a, start, howmany) ==
    IF howmany > Cnt(a) - start THEN Cnt(a) - start ELSE howmany
Splice(a, start, howmany, vs, b) ==
    LET n == Cnt(a)
        k == HowMany(a, start, howmany)
        out == SetLength(CopyTo(NewArray(Now, b, start + 1), b, 0, Block(a, start, k)), b, k)
        moved == n - start - k
        down == [out EXCEPT !.obj[a].arr =
                    IF k = 0 \/ moved = 0 THEN @
                    ELSE SubSeq(@, 1, start) \o Block(a, start + k, moved)
                           \o SubSeq(@, start + moved + 1, IF moved < k THEN start + k ELSE start + moved)
                           \o Holes(IF moved < k THEN moved ELSE k)
                           \o SubSeq(@, n + 1, Len(@))]
        newlen == n - k + Len(vs)
        sized == [down EXCEPT !.obj[a] = ArraySizer(@, newlen + 3)]
        up == IF vs = <<>> THEN sized
              ELSE [sized EXCEPT !.obj[a].arr =
                       SubSeq(@, 1, start) \o Holes(Len(vs)) \o SubSeq(@, start + 1, n - k)
                         \o SubSeq(@, newlen + 1, Len(@))]
    IN IF start >= n THEN NewArray(Now, b, 1)
       ELSE IF ~out.ok THEN out
       ELSE SetLength(FoldLeft(LAMBDA s, i : Store(s, a, start + i - 1, vs[i]),
                               up, [i \in DOMAIN vs |-> i]),
                      a, newlen)

-----------------------------------------------------------------------------
(***************************************************************************)
(* The iterations.  map and filter make their array first and go as far as *)
(* the length was then; forEach and some look at the length each time.     *)
(***************************************************************************)
Within == IF iter.op \in {"map", "filter"} THEN iter.curlen ELSE Cnt(iter.a)

StartIter(op, a, b) ==
    LET n == Cnt(a)
    IN IF op \in {"map", "filter"} THEN NewArray(Now, b, MaxOf({n, 1})) ELSE Now

\* The next element for which the function is called: filter leaves out the holes.
NextItem(i) ==
    Min({Within} \cup {k \in i..(Within - 1) :
                          iter.op # "filter" \/ Slot(obj[iter.a], k) # NULL})

\* The function returned.  map keeps what it returned, which is its argument here;
\* filter shares the value that is there now.
MapReturned == Store(Now, iter.b, iter.i, iter.x)

FilterReturned(r) ==
    LET p == Slot(obj[iter.a], iter.i)
    IN IF ~r THEN Now
       ELSE IF p \notin DOMAIN val THEN Failed(Now)
       ELSE [Now EXCEPT !.obj[iter.b].arr[iter.n + 1] = p, !.val[p].refCnt = @ + 1]

Returned(r) ==
    CASE iter.op = "map" -> MapReturned
      [] iter.op = "filter" -> FilterReturned(r)
      [] OTHER -> Now

SomeStops(r) == iter.op = "some" /\ r

Ended ==
    CASE iter.op = "map" -> SetLength(Now, iter.b, iter.curlen)
      [] iter.op = "filter" -> SetLength(Now, iter.b, iter.n)
      [] OTHER -> Now

-----------------------------------------------------------------------------
(***************************************************************************)
(* What the arrays should hold.                                            *)
(***************************************************************************)
Take(s, n) == SubSeq(s, 1, IF n > Len(s) THEN Len(s) ELSE n)
From(s, n) == SubSeq(s, n + 1, Len(s))
Padded(s, n) == s \o [i \in 1..(n - Len(s)) |-> Hole]
Assigned(s, i, v) == [Padded(s, i + 1) EXCEPT ![i + 1] = v]
Sorted(s) == SortSeq(s, LAMBDA v, w : v < w)
\* The end of slice() is included.
Sliced(s, start, end) == From(Take(Padded(s, IF end >= Len(s) THEN Len(s) + 1 ELSE 0), end + 1), start)
Spliced(s, start, k, vs) == Take(s, start) \o vs \o From(s, start + k)

Stale(x) == \E i \in (x.arrCnt + 1)..arrMaxSize(x) : x.arr[i] # NULL
Shared(st, a) ==
    \E p \in Pointers(st.obj[a]) : p \in DOMAIN st.val /\ st.val[p].refCnt > 1

\* The end of a call: the values that nothing points to are gone.  should: what the arrays
\* it changes hold then; from: the arrays it copies from.
Done(st, should, from) ==
    LET kept == UNION {Pointers(st.obj[a]) : a \in Names} \cap DOMAIN st.val
        there == {a \in Names : st.obj[a] # None}
    IN IF ~st.ok THEN crashed' = TRUE /\ UNCHANGED <<obj, val, js, tainted>>
       ELSE /\ obj' = st.obj
            /\ val' = [p \in kept |-> st.val[p]]
            /\ js' = [a \in Names |-> IF a \notin there THEN <<>>
                                       ELSE IF a \in DOMAIN should THEN should[a] ELSE js[a]]
            /\ tainted' = {a \in there : \/ a \in tainted
                                     \/ Stale(st.obj[a])
                                     \/ Shared(st, a)
                                     \/ (a \in DOMAIN should /\ from \cap tainted # {})}
            /\ UNCHANGED crashed

\* Calls are made by the program, or by the function that an iteration calls.
Call(st, should, from) ==
    /\ calls < MaxCalls
    /\ calls' = calls + 1
    /\ iter.op # "none" => iter.in
    /\ Done(st, should, from)
    /\ UNCHANGED iter

Ours(a) == obj[a] # None /\ a # iter.b
Fresh(b) == obj[b] = None

Make(b, vs) == Fresh(b) /\ Call(Literal(b, vs), b :> vs, {}) /\ UNCHANGED odd

Change(a) ==
    /\ Ours(a)
    /\ \/ \E vs \in Lists : /\ vs # <<>> /\ Cnt(a) + Len(vs) <= MaxLen
                            /\ \/ Call(Push(a, vs), a :> (js[a] \o vs), {})
                               \/ Call(Unshift(a, vs), a :> (vs \o js[a]), {})
       \/ Call(Pop(a), a :> Take(js[a], Len(js[a]) - 1), {})
       \/ Call(Shift(a), a :> From(js[a], IF js[a] = <<>> THEN 0 ELSE 1), {})
       \/ Call(Reversed(a), a :> Reverse(js[a]), {})
       \/ \E i \in 0..(MaxLen - 1), v \in Data :
             Call(SetDup(Now, a, i, v), a :> Assigned(js[a], i, v), {})
       \/ /\ \A i \in 1..Cnt(a) : obj[a].arr[i] \in DOMAIN val => val[obj[a].arr[i]].v # Undef
          /\ Call(Sort(a), a :> Sorted(js[a]), {})
    /\ UNCHANGED odd

SliceCall(a, b) ==
    /\ Ours(a) /\ Fresh(b)
    /\ \E start \in 0..1, end \in 0..MaxLen :
         /\ start < Cnt(a) /\ start <= end
         /\ odd' = (odd \/ end >= arrMaxSize(obj[a]))
         /\ Call(Slice(a, start, end, b),
                 b :> Sliced(js[a], start, end), {a})

ConcatCall(a, c, b) ==
    /\ Ours(a) /\ Ours(c) /\ Fresh(b)
    /\ Cnt(a) + Cnt(c) <= MaxLen
    /\ Call(Concat(a, c, b), b :> (js[a] \o js[c]), {a, c})
    /\ UNCHANGED odd

SpliceCall(a, b) ==
    /\ Ours(a) /\ Fresh(b)
    /\ \E start \in 0..1, howmany \in 0..2, vs \in Lists :
         /\ Cnt(a) + Len(vs) <= MaxLen
         /\ odd' = (odd \/ (start < Cnt(a) /\ HowMany(a, start, howmany) > start + 1))
         /\ Call(Splice(a, start, howmany, vs, b),
                 IF start >= Cnt(a) THEN b :> <<>>
                 ELSE (a :> Spliced(js[a], start, HowMany(a, start, howmany), vs))
                        @@ (b :> Take(From(js[a], start), HowMany(a, start, howmany))), {a})

\* The last reference to an array goes.
Drop(a) == Ours(a) /\ a # iter.a /\ Call(ObjFree(Now, a), <<>>, {}) /\ UNCHANGED odd

-----------------------------------------------------------------------------
BeginIter(op, a, b) ==
    /\ iter.op = "none" /\ calls < MaxCalls /\ Ours(a)
    /\ IF op \in {"map", "filter"} THEN Fresh(b) ELSE b = a
    /\ calls' = calls + 1
    /\ iter' = [op |-> op, a |-> a, b |-> IF b = a THEN "" ELSE b, i |-> 0, in |-> FALSE,
                 curlen |-> Cnt(a), n |-> 0, x |-> Undef]
    /\ Done(StartIter(op, a, b), IF b = a THEN <<>> ELSE b :> <<>>, {})
    /\ UNCHANGED odd

\* The function is called with a copy of the element.
Invoke ==
    LET i == NextItem(iter.i)
        p == Slot(obj[iter.a], i)
    IN /\ iter.op # "none" /\ ~iter.in
       /\ IF i >= Within
          THEN /\ Done(Ended, <<>>, {})
               /\ iter' = NoIter
          ELSE IF p \notin DOMAIN val \cup {NULL}
          THEN crashed' = TRUE /\ UNCHANGED <<obj, val, js, tainted, iter>>
          ELSE /\ iter' = [iter EXCEPT !.i = i, !.in = TRUE,
                                       !.x = IF p = NULL THEN Undef ELSE val[p].v]
               /\ UNCHANGED <<obj, val, js, tainted, crashed>>
       /\ UNCHANGED <<odd, calls>>

\* r: what the function returned, for filter and some.
Return(r) ==
    /\ iter.op # "none" /\ iter.in
    /\ odd' = (odd \/ (r /\ iter.op = "filter" /\ Slot(obj[iter.a], iter.i) = NULL))
    /\ Done(Returned(r), IF iter.b = "" THEN <<>>
                         ELSE iter.b :> IF iter.op = "map" \/ r THEN Append(js[iter.b], iter.x)
                                        ELSE js[iter.b],
            {iter.a})
    /\ iter' = IF SomeStops(r) THEN NoIter
               ELSE [iter EXCEPT !.i = @ + 1, !.in = FALSE, !.x = Undef,
                                 !.n = @ + IF iter.op = "filter" /\ r THEN 1 ELSE 0]
    /\ UNCHANGED calls

\* The function threw, and the iteration is over.  map and filter give null: the array that
\* they made is freed, whose length is still 0, so that the values in it keep their counts.
Throws ==
    /\ iter.op # "none" /\ iter.in
    /\ Done(IF iter.b = "" THEN Now ELSE ObjFree(Now, iter.b), <<>>, {})
    /\ iter' = NoIter
    /\ UNCHANGED <<odd, calls>>

-----------------------------------------------------------------------------
Init ==
    /\ obj = [a \in Names |-> None]
    /\ val = <<>>
    /\ js = [a \in Names |-> <<>>]
    /\ tainted = {}
    /\ iter = NoIter
    /\ odd = FALSE /\ crashed = FALSE
    /\ calls = 0

Next ==
    /\ ~crashed
    /\ \/ \E b \in Names, vs \in Lists : Make(b, vs)
       \/ \E a \in Names : Change(a) \/ Drop(a)
       \/ \E a, b \in Names : SliceCall(a, b) \/ SpliceCall(a, b)
       \/ \E a, c, b \in Names : ConcatCall(a, c, b)
       \/ \E op \in {"map", "filter", "forEach", "some"}, a, b \in Names : BeginIter(op, a, b)
       \/ Invoke
       \/ \E r \in BOOLEAN : Return(r)
       \/ Throws

Spec == Init /\ [][Next]_vars

-----------------------------------------------------------------------------
(***************************************************************************)
(* Properties.                                                             *)
(***************************************************************************)
Sound(a) == obj[a] # None /\ a \notin tainted /\ a # iter.b

\* An array that never shared a value with another, as filter makes them do, and never
\* kept one past its end, as splice makes it, holds what the calls should have left in it,
\* also when they came from functions that iterated over it.
ArraysAsWritten ==
    \A a \in Names : Sound(a) =>
        js[a] = [i \in 1..Cnt(a) |-> IF obj[a].arr[i] = NULL THEN Hole ELSE val[obj[a].arr[i]].v]

\* Such an array has room for its elements, its values are live and its own; and what
\* crashes is a call past the bounds, or has to do with arrays that shared or kept values.
SlotsSound ==
    /\ \A a \in Names : Sound(a) =>
          /\ Cnt(a) <= arrMaxSize(obj[a])
          /\ Pointers(obj[a]) \subseteq DOMAIN val
          /\ \A i, j \in DOMAIN obj[a].arr :
                i # j => obj[a].arr[i] = NULL \/ obj[a].arr[i] # obj[a].arr[j]
          /\ \A b \in Names \ {a} : Pointers(obj[a]) \cap Pointers(obj[b]) = {}
    /\ crashed => odd \/ tainted # {}

\* push adds its arguments at the end.
PushPushes ==
    (\A p \in DOMAIN val : val[p].refCnt = 1) =>
        \A a \in Names : obj[a] # None /\ a # iter.b => Cnt(a) = Len(js[a])
=============================================================================
