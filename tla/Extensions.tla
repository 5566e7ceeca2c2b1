----------------------------- MODULE Extensions -----------------------------
(***************************************************************************)
(* Shared libraries (jsiLoad.c), the classes of objects in C they register *)
(* and the objects of these (jsiUserObj.c), up to the deletion of the      *)
(* interp (jsiInterpDelete in jsiInterp.c).                                *)
(*                                                                         *)
(* The libraries are external: their Init registers a class and commands,  *)
(* as those in src/ do, may fail anywhere and may load others on the way.  *)
(***************************************************************************)
EXTENDS Integers, Sequences, FiniteSets, SequencesExt

CONSTANTS
    Files,       \* the files of libraries
    NameOf,      \* the name of the Init function of each, which two may share
    Ids,         \* the objects scripts make
    MaxDepth, MaxOps   \* bounds

VARIABLES
    opened,       \* the dynamic linker: how often each file is open
    loadTbl,      \* for each name that was loaded, the file
    cmds,         \* the files whose commands exist
    userdataTbl,  \* the classes: their names, with the file that registered each
    loading,      \* the Init functions that run, one in the other
    userobj,      \* the objects: class, index, who holds it, whether entry and data exist
    counter,      \* the index of the last object of each class
    stage,        \* how far the deletion of the interp is
    again,        \* auxiliary: opens of what was loaded already, which nobody closes
    fault, slips, ops

loadVars == <<opened, loadTbl, cmds, userdataTbl, loading, again>>
objectVars == <<userobj, counter>>
vars == <<loadVars, objectVars, stage, fault, slips, ops>>

Names == {NameOf[f] : f \in Files}
NoObject == [is |-> "none", class |-> "", idx |-> 0, holders |-> {}, entry |-> FALSE,
             data |-> "none"]

Init ==
    /\ opened = [f \in Files |-> 0] /\ again = [f \in Files |-> 0]
    /\ loadTbl = <<>> /\ cmds = {} /\ userdataTbl = <<>> /\ loading = <<>>
    /\ userobj = [o \in Ids |-> NoObject] /\ counter = [n \in Names |-> 0]
    /\ stage = "running" /\ fault = "none" /\ slips = {} /\ ops = 0

Runs == stage = "running" /\ fault = "none"
Does == Runs /\ ops < MaxOps /\ ops' = ops + 1
Put(f, x, y) == [z \in DOMAIN f \cup {x} |-> IF z = x THEN y ELSE f[z]]

-----------------------------------------------------------------------------
(* jsi_LoadLibrary. *)

\* The file is opened before the table is asked whether it was loaded; if so it stays open.
LoadLibrary(f) ==
    /\ Does /\ Len(loading) < MaxDepth
    /\ opened' = [opened EXCEPT ![f] = @ + 1]
    /\ IF NameOf[f] \in DOMAIN loadTbl
       THEN again' = [again EXCEPT ![f] = @ + 1] /\ UNCHANGED loading
       ELSE loading' = Append(loading, [file |-> f, class |-> FALSE, fails |-> FALSE])
            /\ UNCHANGED again
    /\ UNCHANGED <<loadTbl, cmds, userdataTbl, objectVars, stage, fault, slips>>

Initing == Runs /\ loading # <<>> /\ ~Last(loading).fails
Class == NameOf[Last(loading).file]

\* Jsi_UserObjRegister refuses a name that is registered; Init fails.
UserObjRegister ==
    /\ Initing /\ ~Last(loading).class
    /\ LET there == Class \in DOMAIN userdataTbl IN
       /\ loading' = Append(Front(loading), [Last(loading) EXCEPT !.class = TRUE, !.fails = there])
       /\ userdataTbl' = IF there THEN userdataTbl
                         ELSE Put(userdataTbl, Class, Last(loading).file)
    /\ UNCHANGED <<opened, loadTbl, cmds, again, objectVars, stage, fault, slips, ops>>

CommandCreateSpecs ==
    /\ Initing /\ Last(loading).class
    /\ cmds' = cmds \cup {Last(loading).file}
    /\ UNCHANGED <<opened, loadTbl, userdataTbl, loading, again, objectVars, stage, fault, slips,
                   ops>>

\* Faulty: the library stays open.
DlcloseNot(f) == opened' = opened

Dlclose(f) == opened' = [opened EXCEPT ![f] = @ - 1]

\* Init is done.  It is recorded, unless that happened while it ran ("duplicate load") or it
\* failed: then the library is closed, with what it registered.
InitReturns(ok) ==
    /\ Runs /\ loading # <<>>
    /\ ok => ~Last(loading).fails /\ Last(loading).file \in cmds
    /\ LET f == Last(loading).file
           new == ok /\ Class \notin DOMAIN loadTbl
           left == f \in cmds \/ \E n \in DOMAIN userdataTbl : userdataTbl[n] = f
       IN IF new
          THEN loadTbl' = Put(loadTbl, Class, f) /\ UNCHANGED <<opened, slips>>
          ELSE /\ Dlclose(f) /\ UNCHANGED loadTbl
               /\ slips' = IF left /\ opened'[f] = 0 THEN slips \cup {"failed"} ELSE slips
    /\ loading' = Front(loading)
    /\ UNCHANGED <<cmds, userdataTbl, again, objectVars, stage, fault, ops>>

-----------------------------------------------------------------------------
(* Objects of the classes. *)

\* A command of a library that was closed.
CallUnloaded(f) ==
    /\ Runs /\ f \in cmds /\ opened[f] = 0
    /\ fault' = "unloaded code"
    /\ UNCHANGED <<loadVars, objectVars, stage, slips, ops>>

\* new C(), kept in variables, by the handler of an event, or by itself.
UserObjNew(o, n, holders) ==
    /\ Does /\ userobj[o].is = "none" /\ n \in DOMAIN userdataTbl
    /\ userdataTbl[n] \in cmds /\ opened[userdataTbl[n]] > 0
    /\ counter' = [counter EXCEPT ![n] = @ + 1]
    /\ userobj' = [userobj EXCEPT ![o] =
                     [is |-> "live", class |-> n, idx |-> counter[n] + 1, holders |-> holders,
                      entry |-> TRUE, data |-> "live"]]
    /\ UNCHANGED <<loadVars, stage, fault, slips>>

\* jsi_UserObjFree when the last holder has let go: the entry of the object goes, then its
\* data is freed by a function of the library.
Freed(ob) == [ob EXCEPT !.is = "freed", !.holders = {}, !.entry = FALSE, !.data = "freed"]

LetGo(S, h) ==
    LET loses == {o \in S : userobj[o].is = "live" /\ h \in userobj[o].holders}
        last == {o \in loses : userobj[o].holders = {h}}
    IN /\ userobj' = [o \in Ids |-> IF o \in last THEN Freed(userobj[o])
                                    ELSE IF o \in loses THEN [userobj[o] EXCEPT !.holders = @ \ {h}]
                                    ELSE userobj[o]]
       /\ fault' = IF \E o \in last : ~userobj[o].entry THEN "freed entry"
                   ELSE IF \E o \in last : opened[userdataTbl[userobj[o].class]] = 0
                        THEN "unloaded code" ELSE fault

Drop(o, h) ==
    /\ Does /\ userobj[o].is = "live" /\ h \in userobj[o].holders /\ h # "itself"
    /\ LetGo({o}, h)
    /\ UNCHANGED <<loadVars, counter, stage, slips>>

-----------------------------------------------------------------------------
(* jsiInterpDelete, table by table. *)

DeleteVars ==
    /\ Runs /\ loading = <<>> /\ stage' = "userdata"
    /\ LetGo(Ids, "vars")
    /\ cmds' = {}
    /\ UNCHANGED <<opened, loadTbl, userdataTbl, loading, again, counter, slips, ops>>

\* jsi_UserObjDelete: the data of every object that is left is freed, the objects are not.
DeleteUserdata ==
    /\ stage = "userdata" /\ fault = "none" /\ stage' = "events"
    /\ LET left == {o \in Ids : userobj[o].entry} IN
       /\ userobj' = [o \in Ids |-> IF o \in left
                                    THEN [userobj[o] EXCEPT !.entry = FALSE, !.data = "freed"]
                                    ELSE userobj[o]]
       /\ fault' = IF \E o \in left : opened[userdataTbl[userobj[o].class]] = 0
                   THEN "unloaded code" ELSE fault
       /\ slips' = IF \E o \in left : "event" \in userobj[o].holders THEN slips \cup {"kept"}
                   ELSE slips
    /\ UNCHANGED <<loadVars, counter, ops>>

DeleteEvents ==
    /\ stage = "events" /\ fault = "none" /\ stage' = "loads"
    /\ LetGo(Ids, "event")
    /\ UNCHANGED <<loadVars, counter, slips, ops>>

\* jsi_FreeOneLoadHandle for each.
DeleteLoads ==
    /\ stage = "loads" /\ fault = "none" /\ stage' = "done"
    /\ opened' = [f \in Files |-> opened[f] - Cardinality({n \in DOMAIN loadTbl : loadTbl[n] = f})]
    /\ loadTbl' = <<>>
    /\ UNCHANGED <<cmds, userdataTbl, loading, again, objectVars, fault, slips, ops>>

Next ==
    \/ \E f \in Files : LoadLibrary(f) \/ CallUnloaded(f)
    \/ UserObjRegister \/ CommandCreateSpecs
    \/ \E ok \in BOOLEAN : InitReturns(ok)
    \/ \E o \in Ids :
          \/ \E n \in Names, holders \in (SUBSET {"vars", "event", "itself"}) \ {{}} :
                UserObjNew(o, n, holders)
          \/ \E h \in {"vars", "event", "itself"} : Drop(o, h)
    \/ DeleteVars \/ DeleteUserdata \/ DeleteEvents \/ DeleteLoads

Spec == Init /\ [][Next]_vars

-----------------------------------------------------------------------------
TypeOK ==
    /\ DOMAIN loadTbl \subseteq Names /\ DOMAIN userdataTbl \subseteq Names
    /\ cmds \subseteq Files /\ counter \in [Names -> Nat]
    /\ stage \in {"running", "userdata", "events", "loads", "done"}

\* A library is open as often as it is recorded and being loaded, and was loaded again;
\* what is recorded is its own library, and one that registered something is open, unless
\* its Init failed.
LibrariesOpen ==
    /\ \A f \in Files :
          opened[f] = Cardinality({n \in DOMAIN loadTbl : loadTbl[n] = f})
                      + Cardinality({i \in DOMAIN loading : loading[i].file = f}) + again[f]
    /\ \A n \in DOMAIN loadTbl : NameOf[loadTbl[n]] = n
    /\ stage = "running" /\ "failed" \notin slips =>
          \A f \in Files : f \in cmds \/ (\E n \in DOMAIN userdataTbl : userdataTbl[n] = f)
                              => opened[f] > 0

\* Every object has an entry of its own while its data exists, under a name no other
\* object of its class has had; when the interp is gone, so is the data of all.
ObjectsNamed ==
    /\ \A o \in Ids : userobj[o].entry = (userobj[o].data = "live")
    /\ \A o, p \in Ids :
          userobj[o].is # "none" /\ userobj[o].class = userobj[p].class
             /\ userobj[o].idx = userobj[p].idx => o = p
    /\ stage = "running" /\ fault = "none" =>
          \A o \in Ids : userobj[o].is = "live" => userobj[o].entry
    /\ stage \in {"events", "loads", "done"} => \A o \in Ids : userobj[o].data # "live"

\* No freed entry and no code that is gone is used, unless an event kept an object beyond
\* its class or an Init failed.
NothingGone == fault # "none" => slips # {}

ExtensionsSound == TypeOK /\ LibrariesOpen /\ ObjectsNamed /\ NothingGone
=============================================================================
