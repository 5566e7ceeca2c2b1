------------------------------ MODULE InterpLife ------------------------------
(***************************************************************************)
(* The life of the interps of one thread (jsiInterp.c, jsiEval.c, main.c). *)
(*                                                                         *)
(* A script makes an interp with new Interp(): the script object owns an   *)
(* InterpObj, which points to the sub-interp and keeps the table of the    *)
(* aliases given to it.  A sub-interp runs its start script inside the     *)
(* constructor, then what its parent evals or calls; a command made by     *)
(* alias() runs a function of the parent, and so does onExit.  All this    *)
(* nests on one C stack (frames).  exit() only marks an interp; the end of *)
(* Jsi_EvalString frees it when none of its code is left on the stack.     *)
(* The end of the owner frees it too: when the last reference to the       *)
(* object goes, or when the parent is freed.                               *)
(*                                                                         *)
(* Threaded interps, whose frames are on a stack of their own, are in      *)
(* InterpQueues and InterpLocks.  An alias has one name, the one its table *)
(* is given.                                                               *)
(***************************************************************************)
EXTENDS Integers, Sequences, FiniteSets

CONSTANTS Main,        \* jsiMainInterp
          Subs,        \* the interps that scripts make
          Recs,        \* the AliasCmd records that can be allocated
          None,
          Asking,      \* the interps made with the option onExit
          Preserved,   \* the interps that a C extension preserves while it works
          MaxFrames    \* bound on the depth of the stack

Interps == Subs \cup {Main}

ASSUME LifeAssumption ==
  /\ Main \notin Subs /\ None \notin Interps /\ None \notin Recs
  /\ "empty" \notin Recs /\ "null" \notin Recs
  /\ IsFiniteSet(Subs) /\ Asking \subseteq Subs /\ Preserved \subseteq Interps
  /\ MaxFrames \in Nat \ {0}

VARIABLES interp,    \* the Jsi_Interp structures
          udf,       \* the InterpObj that owns each sub-interp
          rec,       \* the AliasCmd records
          frames,    \* what runs, outermost first
          selfEnded, \* the interps that their own start script freed
          fault      \* memory that the code misused, which ends the behaviour

vars == <<interp, udf, rec, frames, selfEnded, fault>>

Kinds == {"top", "start", "eval", "call", "alias", "onExit"}
Frame == [in : Interps, kind : Kinds, of : Subs \cup Recs \cup {None}]

\* Entries of fo->aliases: no entry, an entry whose value was never set, a record.
Entries == {"empty", "null"} \cup Recs

Faults == {"none", "freedInterp", "freedAlias", "nullAlias", "freedOwner"}

TypeOK ==
  /\ interp \in [Interps -> [st : {"none", "live", "freed"}, parent : Interps \cup {None},
                             level : Nat, exited : BOOLEAN, code : {0, 1}, deleting : BOOLEAN,
                             kept : BOOLEAN]]
  /\ udf \in [Subs -> [st : {"none", "building", "live", "freed"}, sub : BOOLEAN,
                       ref : BOOLEAN, entry : Entries]]
  /\ rec \in [Recs -> [st : {"none", "used", "freed"}, of : Subs \cup {None},
                       cmd : BOOLEAN, self : BOOLEAN]]
  /\ frames \in Seq(Frame)
  /\ selfEnded \subseteq Subs
  /\ fault \in Faults

NoInterp == [st |-> "none", parent |-> None, level |-> 0, exited |-> FALSE, code |-> 0,
             deleting |-> FALSE, kept |-> FALSE]

\* main() has made the main interp and evaluates the script it was given.
Init ==
  /\ interp = [i \in Interps |-> IF i = Main THEN [NoInterp EXCEPT !.st = "live", !.level = 1]
                                             ELSE NoInterp]
  /\ udf = [s \in Subs |-> [st |-> "none", sub |-> FALSE, ref |-> FALSE, entry |-> "empty"]]
  /\ rec = [r \in Recs |-> [st |-> "none", of |-> None, cmd |-> FALSE, self |-> FALSE]]
  /\ frames = << [in |-> Main, kind |-> "top", of |-> None] >>
  /\ selfEnded = {}
  /\ fault = "none"

-----------------------------------------------------------------------------
(***************************************************************************)
(* The running code.  Once its interp has exited no instruction runs, and  *)
(* try catches nothing.                                                    *)
(***************************************************************************)
Top == frames[Len(frames)]
Active == fault = "none" /\ frames # <<>>
Running(i) == Active /\ Top.in = i /\ ~interp[i].exited

\* Faulty: call does not hold a reference to the object.
InEval(s, stack) == \E k \in 1..Len(stack) : stack[k].kind = "eval" /\ stack[k].of = s
\* Methods of the object of s that are running hold a reference to it (newthis).
InMethod(s, stack) == \E k \in 1..Len(stack) : stack[k].kind \in {"eval", "call"} /\ stack[k].of = s

\* The script in the top frame can name the object of s.
Names(s) == Running(interp[s].parent) /\ udf[s].st = "live" /\ (udf[s].ref \/ InMethod(s, frames))

\* jsi_evalcode of a function or script in i: nothing runs in an interp that exited.
Push(i, kind, of) ==
  /\ Len(frames) < MaxFrames
  /\ ~interp[i].exited /\ ~interp[i].deleting
  /\ frames' = Append(frames, [in |-> i, kind |-> kind, of |-> of])

-----------------------------------------------------------------------------
(***************************************************************************)
(* Deletion.  Jsi_InterpDelete declines while code of the interp runs or   *)
(* when it was called before; Jsi_EventuallyFree then frees the interp at  *)
(* once, or, when it is preserved, only forgets that it was.  I stands for *)
(* the interps when the deletion starts.                                   *)
(***************************************************************************)
MayDelete(I, i) == I[i].st = "live" /\ ~I[i].deleting /\ I[i].level <= 0
FreesNow(I, i) == MayDelete(I, i) /\ ~I[i].kept

Owned(s) == udf[s].st \in {"building", "live"}

\* Faulty: the interps that a deleted interp owns are forgotten.
DeletedAlone(I, i) == {i}
\* The interps deleted with i: jsiInterpDelete frees the objects of an interp, and
\* interpObjErase deletes what each of them points to.
DeletedWith(I, i) ==
  LET Owns(p, s) == Owned(s) /\ udf[s].sub /\ I[s].parent = p /\ FreesNow(I, p)
      Closed(D) == \A p \in D, s \in Subs : Owns(p, s) => s \in D
  IN {x \in Interps : \A D \in SUBSET Interps : i \in D /\ Closed(D) => x \in D}

ObjectsOf(I, D) == {s \in Subs : Owned(s) /\ I[s].parent \in D /\ FreesNow(I, I[s].parent)}

\* AliasFree follows the record and its command: an entry may have no value and a record
\* no command.  Jsi_HashDelete skips the former, alias() does not.
BadRecord(s) == udf[s].entry \in Recs /\ ~rec[udf[s].entry].cmd
BadEntry(s) == udf[s].entry = "null" \/ BadRecord(s)

\* The arguments of the alias hold the object.
HoldsItself(s) == udf[s].entry \in Recs /\ rec[udf[s].entry].self

Freed == [st |-> "freed", of |-> None, cmd |-> FALSE, self |-> FALSE]
NoObject == [st |-> "freed", sub |-> FALSE, ref |-> FALSE, entry |-> "empty"]

\* Jsi_InterpDelete of the interps D, interpObjErase and interpObjFree of the objects E.
\* An object that points to a freed interp reads it; freeing arguments that are the last
\* to hold the object frees it while it is being freed.
Delete(I, U, D, E) ==
  /\ interp' = [i \in Interps |->
       IF i \in D /\ MayDelete(I, i)
       THEN IF I[i].kept THEN [I[i] EXCEPT !.deleting = TRUE]
            ELSE [NoInterp EXCEPT !.st = "freed", !.parent = I[i].parent]
       ELSE I[i]]
  /\ udf' = [s \in Subs |-> IF s \in E THEN NoObject ELSE U[s]]
  /\ rec' = [r \in Recs |-> IF \E s \in E : udf[s].entry = r THEN Freed ELSE rec[r]]
  /\ fault' = IF \E s \in E : udf[s].sub /\ I[s].st = "freed" THEN "freedInterp"
              ELSE IF \E s \in E : BadRecord(s) THEN "nullAlias"
              ELSE IF \E s \in E : HoldsItself(s) /\ ~udf[s].ref THEN "freedOwner"
              ELSE "none"

DeleteInterp(I, i) == LET D == DeletedWith(I, i) IN Delete(I, udf, D, ObjectsOf(I, D))

Erase(I, s) ==
  LET D == IF udf[s].sub THEN DeletedWith(I, s) ELSE {} IN Delete(I, udf, D, {s} \cup ObjectsOf(I, D))

-----------------------------------------------------------------------------
(***************************************************************************)
(* What a script does with interps.                                        *)
(***************************************************************************)
\* InterpConstructor, with a start script or without one.
NewInterp(i, s, script) ==
  /\ Running(i) /\ interp[s].st = "none"
  /\ interp' = [interp EXCEPT ![s] = [NoInterp EXCEPT !.st = "live", !.parent = i,
                                                      !.level = IF script THEN 1 ELSE 0]]
  /\ udf' = [udf EXCEPT ![s].st = IF script THEN "building" ELSE "live", ![s].sub = TRUE, ![s].ref = ~script]
  /\ IF script THEN Push(s, "start", s) ELSE UNCHANGED frames
  /\ UNCHANGED <<rec, selfEnded, fault>>

\* A method that goes to an interp that is no longer there.
UseFreed(s) ==
  /\ Names(s) /\ interp[s].st = "freed"
  /\ fault' = "freedInterp"
  /\ UNCHANGED <<interp, udf, rec, frames, selfEnded>>

\* InterpEvalCmd counts a level, so that exit() in the script does not free the interp.
Eval(s) ==
  /\ Names(s) /\ interp[s].st = "live"
  /\ Push(s, "eval", s)
  /\ interp' = [interp EXCEPT ![s].level = @ + 2]
  /\ UNCHANGED <<udf, rec, selfEnded, fault>>

\* InterpCallCmd, which refuses an interp that is gone.
Call(s) ==
  /\ Names(s) /\ interp[s].st = "live"
  /\ Push(s, "call", s)
  /\ interp' = [interp EXCEPT ![s].level = @ + 1]
  /\ UNCHANGED <<udf, rec, selfEnded, fault>>

\* exitCmd: a parent with onExit is asked first.
Exit(i, code) ==
  /\ Running(i) /\ (i \in Asking => interp[interp[i].parent].exited)
  /\ interp' = [interp EXCEPT ![i].exited = TRUE, ![i].code = code]
  /\ UNCHANGED <<udf, rec, frames, selfEnded, fault>>

AskParent(i, code) ==
  /\ i \in Asking /\ Running(i)
  /\ Push(interp[i].parent, "onExit", i)
  /\ interp' = [interp EXCEPT ![interp[i].parent].level = @ + 1, ![i].code = code]
  /\ UNCHANGED <<udf, rec, selfEnded, fault>>

\* The script gives up its reference to the object of s.
Drop(s) ==
  /\ Running(interp[s].parent) /\ udf[s].st = "live" /\ udf[s].ref
  /\ UNCHANGED <<frames, selfEnded>>
  /\ IF InMethod(s, frames) \/ HoldsItself(s)
     THEN udf' = [udf EXCEPT ![s].ref = FALSE] /\ UNCHANGED <<interp, rec, fault>>
     ELSE Erase(interp, s)

\* A C command of an extension protects the interp it works in, and ends that.
\* The entry is gone when the interp was deleted meanwhile, and nothing is freed then.
Preserve(i) ==
  /\ i \in Preserved /\ Running(i) /\ ~interp[i].kept
  /\ interp' = [interp EXCEPT ![i].kept = TRUE]
  /\ UNCHANGED <<udf, rec, frames, selfEnded, fault>>

Release(i) ==
  /\ Active /\ Top.in = i /\ interp[i].kept /\ ~interp[i].deleting
  /\ interp' = [interp EXCEPT ![i].kept = FALSE]
  /\ UNCHANGED <<udf, rec, frames, selfEnded, fault>>

-----------------------------------------------------------------------------
(***************************************************************************)
(* Aliases.                                                                *)
(***************************************************************************)
\* Faulty: the record that is replaced or removed is not freed.
KeepRecord(r) == rec
\* What AliasFree does to a record: the command loses it, and it is freed.
FreeRecord(r) == [rec EXCEPT ![r] = Freed]

\* alias(name, func, args).  A command in a scope that does not exist is not made, and the
\* record stays in the table without one.  args may hold the object itself.
SetAlias(s, r, made, self) ==
  /\ Names(s) /\ interp[s].st = "live" /\ rec[r].st = "none"
  /\ UNCHANGED <<interp, frames, selfEnded>>
  /\ IF BadEntry(s)
     THEN fault' = "nullAlias" /\ UNCHANGED <<udf, rec>>
     ELSE LET old == udf[s].entry
              freed == IF old \in Recs THEN FreeRecord(old) ELSE rec
          IN /\ rec' = [freed EXCEPT ![r] = [st |-> "used", of |-> s, cmd |-> made, self |-> self]]
             /\ udf' = [udf EXCEPT ![s].entry = r]
             /\ UNCHANGED fault

\* alias(name, 5, null): the arguments are refused after the entry was made.
RefuseAlias(s) ==
  /\ Names(s) /\ udf[s].entry = "empty"
  /\ udf' = [udf EXCEPT ![s].entry = "null"]
  /\ UNCHANGED <<interp, rec, frames, selfEnded, fault>>

\* alias(name) and alias(name, func) read the record of the entry.
GetAlias(s) ==
  /\ Names(s) /\ udf[s].entry = "null"
  /\ fault' = "nullAlias"
  /\ UNCHANGED <<interp, udf, rec, frames, selfEnded>>

\* alias(name, null, null)
UnsetAlias(s) ==
  /\ Names(s) /\ interp[s].st = "live" /\ udf[s].entry # "empty"
  /\ UNCHANGED <<interp, frames, selfEnded>>
  /\ IF BadEntry(s)
     THEN fault' = "nullAlias" /\ UNCHANGED <<udf, rec>>
     ELSE rec' = FreeRecord(udf[s].entry) /\ udf' = [udf EXCEPT ![s].entry = "empty"] /\ UNCHANGED fault

\* AliasInvoke: the command, or a copy the sub-interp kept of it, runs the function of
\* the parent.  Once the record is freed the command has none, and fails.
InvokeAlias(i, r) ==
  /\ Running(i) /\ rec[r].st = "used" /\ rec[r].of = i /\ rec[r].cmd
  /\ Push(interp[i].parent, "alias", r)
  /\ interp' = [interp EXCEPT ![interp[i].parent].level = @ + 1]
  /\ UNCHANGED <<udf, rec, selfEnded, fault>>

-----------------------------------------------------------------------------
(***************************************************************************)
(* The end of the top frame: it returns, fails, or its interp has exited.  *)
(***************************************************************************)
Rest == SubSeq(frames, 1, Len(frames) - 1)
\* Faulty: a level is taken back twice.
LoweredTwice(i, n) == [interp EXCEPT ![i].level = @ - n - 1]
\* Faulty: the level that eval adds is never taken back.
LoweredOnce(i, n) == [interp EXCEPT ![i].level = @ - 1]
Lowered(i, n) == [interp EXCEPT ![i].level = @ - n]

TopReturns ==
  /\ Active /\ Top.kind = "top"
  /\ frames' = <<>>
  /\ interp' = Lowered(Main, 1)
  /\ UNCHANGED <<udf, rec, selfEnded, fault>>

\* After exit() Jsi_EvalString deletes the main interp, otherwise main() does.
EndProgram ==
  /\ fault = "none" /\ frames = <<>> /\ MayDelete(interp, Main)
  /\ DeleteInterp(interp, Main)
  /\ UNCHANGED <<frames, selfEnded>>

\* The constructor goes on after its start script: it gives the object to the caller, or
\* erases it when the script failed.
StartReturns ==
  /\ Active /\ Top.kind = "start" /\ ~interp[Top.of].exited
  /\ frames' = Rest
  /\ interp' = Lowered(Top.of, 1)
  /\ udf' = [udf EXCEPT ![Top.of].st = "live", ![Top.of].ref = TRUE]
  /\ UNCHANGED <<rec, selfEnded, fault>>

\* Faulty: the constructor fails without erasing what it made.
StartFailsAlone ==
  /\ Active /\ Top.kind = "start" /\ ~interp[Top.of].exited
  /\ frames' = Rest
  /\ interp' = Lowered(Top.of, 1)
  /\ udf' = [udf EXCEPT ![Top.of] = NoObject]
  /\ UNCHANGED <<rec, selfEnded, fault>>
StartFails ==
  /\ Active /\ Top.kind = "start" /\ ~interp[Top.of].exited
  /\ frames' = Rest
  /\ Erase(Lowered(Top.of, 1), Top.of)
  /\ UNCHANGED selfEnded

\* A start script that called exit() has Jsi_EvalString free the interp.  With code 0 the
\* constructor still gives out the object, which points to it; otherwise it erases the
\* object and reads the interp for that.
StartExits ==
  /\ Active /\ Top.kind = "start" /\ interp[Top.of].exited
  /\ frames' = Rest
  /\ selfEnded' = selfEnded \cup {Top.of}
  /\ LET s == Top.of
         I == Lowered(s, 1)
         D == DeletedWith(I, s)
         after == IF I[s].code = 0 THEN [udf[s] EXCEPT !.st = "live", !.ref = TRUE] ELSE NoObject
     IN IF I[s].code # 0 /\ ~I[s].kept
        THEN fault' = "freedInterp" /\ interp' = I /\ UNCHANGED <<udf, rec>>
        ELSE Delete(I, [udf EXCEPT ![s] = after], D, ObjectsOf(I, D))

\* The method gives its reference to the object up; eval takes its second level back.
MethodReturns ==
  /\ Active /\ Top.kind \in {"eval", "call"}
  /\ frames' = Rest
  /\ UNCHANGED selfEnded
  /\ LET s == Top.of
         I == Lowered(s, IF Top.kind = "eval" THEN 2 ELSE 1)
     IN IF udf[s].ref \/ InMethod(s, Rest) \/ HoldsItself(s)
        THEN interp' = I /\ UNCHANGED <<udf, rec, fault>>
        ELSE Erase(I, s)

\* AliasInvoke counts the use of the record down, whatever became of the record.
AliasReturns ==
  /\ Active /\ Top.kind = "alias"
  /\ frames' = Rest
  /\ interp' = Lowered(Top.in, 1)
  /\ fault' = IF rec[Top.of].st = "freed" THEN "freedAlias" ELSE "none"
  /\ UNCHANGED <<udf, rec, selfEnded>>

\* onExit answers true for the sub-interp to go on; an error is taken as false.
OnExitReturns(goOn) ==
  /\ Active /\ Top.kind = "onExit"
  /\ goOn => ~interp[Top.in].exited
  /\ frames' = Rest
  /\ interp' = [Lowered(Top.in, 1) EXCEPT ![Top.of].exited = ~goOn]
  /\ UNCHANGED <<udf, rec, selfEnded, fault>>

-----------------------------------------------------------------------------
Script ==
  \/ \E i \in Interps :
       \/ \E s \in Subs, script \in BOOLEAN : NewInterp(i, s, script)
       \/ \E code \in {0, 1} : Exit(i, code) \/ AskParent(i, code)
       \/ Preserve(i) \/ Release(i)
       \/ \E r \in Recs : InvokeAlias(i, r)
  \/ \E s \in Subs :
       \/ UseFreed(s) \/ Eval(s) \/ Call(s) \/ Drop(s)
       \/ RefuseAlias(s) \/ GetAlias(s) \/ UnsetAlias(s)
       \/ \E r \in Recs, made, self \in BOOLEAN : (self => made) /\ SetAlias(s, r, made, self)

Return == \/ TopReturns \/ StartReturns \/ StartFails \/ StartExits \/ MethodReturns
          \/ AliasReturns \/ (\E goOn \in BOOLEAN : OnExitReturns(goOn)) \/ EndProgram

Next == Script \/ Return

Spec == Init /\ [][Next]_vars

-----------------------------------------------------------------------------
(***************************************************************************)
(* Properties.                                                             *)
(***************************************************************************)
\* The level of an interp counts its code on the stack, and each eval of it once more,
\* through nested evals, aliases, onExit and every way an exit unwinds them.
LevelsCount ==
  fault = "none" =>
    \A i \in Interps :
      interp[i].level = Cardinality({k \in 1..Len(frames) : frames[k].in = i})
                        + Cardinality({k \in 1..Len(frames) : frames[k].kind = "eval" /\ frames[k].of = i})

\* No interp is freed under code of it that is still on the stack, nor an object under a
\* method of it: exit(), a dropped object or the end of the parent must wait for it.
NeverUnderfoot ==
  \A k \in 1..Len(frames) :
    /\ interp[frames[k].in].st = "live"
    /\ frames[k].kind \in {"eval", "call"} => udf[frames[k].of].st = "live"

\* An interp and the object that owns it go together: a deletion that Jsi_InterpDelete
\* declines would leave a running interp nobody owns, a deletion by the interp itself an
\* object that points to freed memory.  The latter is what exit() in a start script does,
\* and only that; an interp that was preserved stays for good.
OwnersAgree ==
  fault = "none" =>
    \A s \in Subs \ selfEnded :
      (interp[s].st = "live" /\ ~interp[s].deleting) <=> (Owned(s) /\ udf[s].sub)

\* Every record of an alias is in the table of an object, and no table has a record that
\* was freed, after any order of setting, replacing and removing the alias, of dropping
\* the object and of ending the interps.
AliasesAccounted ==
  fault = "none" =>
    /\ \A r \in Recs : rec[r].st = "used" <=> \E s \in Subs : udf[s].entry = r
    /\ \A s \in Subs : udf[s].entry # "empty" => Owned(s) /\ udf[s].sub

\* When the program has ended an interp is left only if it was preserved, or its parent
\* is left: no exit(), failed script or order of deletions keeps one back.
EndsClean ==
  fault = "none" /\ frames = <<>> /\ ~MayDelete(interp, Main) =>
    \A i \in Interps : interp[i].st = "live" =>
      interp[i].kept \/ (i \in Subs /\ interp[interp[i].parent].st = "live")

=============================================================================
