---------------------------- MODULE ExecPipeline ----------------------------
(***************************************************************************)
(* exec(): pipelines of child processes (jsiExec.c, the part for Unix).    *)
(*                                                                         *)
(* JsiCreatePipeline scans the words of the command, opens its input,      *)
(* output and error files, and forks a child for every command, joined by  *)
(* pipes.  jsi_execCmd then reads what the last child writes until no      *)
(* process has that pipe open for writing, waits for the children and      *)
(* reads their errors; or, in the background, leaves them to be reaped by  *)
(* the next exec.  Any system call may fail.                               *)
(*                                                                         *)
(* The descriptor table is kept by number: a new descriptor is the lowest  *)
(* free one, and a child closes those from 3 up to the largest it uses.    *)
(* The children are external.  One may end at any time; a property that    *)
(* says one will end says why.                                             *)
(***************************************************************************)
EXTENDS Integers, Sequences, FiniteSetsExt, SequencesExt

CONSTANTS Lines,     \* the lists of words given to exec()
          Hosts,     \* the sets of descriptors that the program may have open
          MaxFd,     \* the largest descriptor
          MaxKids,   \* the number of processes that there may be
          MaxExecs   \* bound on the calls

VARIABLES open,      \* what each descriptor of the program is open on
          kids,      \* the child processes by pid, zombies included
          table,     \* the table of children to wait for (WaitInfoTable)
          ex,        \* the local variables of exec
          host,      \* the descriptors open when exec was first called
          lost,      \* descriptors that no code will close any more
          forgotten, \* children dropped from the table while they ran
          execs      \* how many calls there were

execVars == <<open, kids, table, ex, host, lost, forgotten, execs>>

JSI_BAD_FD == 0
Fds == 3..MaxFd
Pids == 1..MaxKids
Pipes == 1..MaxFd

ExecConstants ==
  /\ MaxFd \in Nat /\ MaxKids \in Nat
  /\ Hosts \subseteq SUBSET Fds /\ Lines \subseteq Seq(STRING)

ASSUME ExecAssumption == ExecConstants

\* What a descriptor is open on: an end of a pipe, or something else.
Read(p) == <<p, "read">>
Write(p) == <<p, "write">>
File == <<0, "file">>     \* anything that is no pipe of exec
Closed == <<0, "closed">>

NoKid == [st |-> "none", in |-> File, out |-> File, err |-> File, more |-> {}]
Idle == [pc |-> "idle"]

-----------------------------------------------------------------------------
(***************************************************************************)
(* The words.  A redirection has its file's name in the same word or, as   *)
(* ">", in the next; the last one of a kind counts.                        *)
(***************************************************************************)
Bars == {"|", "|&"}
NameFollows(w) == w \in {"<", ">", "2>"}
InputOf == ("<f" :> "file") @@ ("<" :> "file") @@ ("<<t" :> "text") @@ ("<@c" :> "handle")
OutputOf == (">f" :> "file") @@ (">" :> "file") @@ (">@c" :> "handle") @@ (">&f" :> "file")
ErrorOf == ("2>f" :> "file") @@ ("2>" :> "file") @@ ("2>@c" :> "handle")
             @@ ("2>@1" :> "output") @@ (">&f" :> "file")

NoWords == [input |-> "none", output |-> "none", error |-> "none", args |-> <<>>, bars |-> 0]

\* The words of a line but the names that follow "<", ">" or "2>".
OwnWords(line) ==
  LET name[i \in 0..Len(line)] == i > 1 /\ NameFollows(line[i - 1]) /\ ~name[i - 1]
  IN {i \in DOMAIN line : ~name[i]}

\* Where the last of the words at S that kind has redirects to.
LastOf(line, S, kind) ==
  LET those == {i \in S : line[i] \in DOMAIN kind}
  IN IF those = {} THEN "none" ELSE kind[line[Max(those)]]

Nth(S, k) == CHOOSE i \in S : Cardinality({j \in S : j < i}) = k - 1

\* The scan fails at a bar that has no command before or behind it, and at the end if a
\* name should follow.
Scan(line) ==
  LET own == OwnWords(line)
      bars == {i \in own : line[i] \in Bars}
      rest == {i \in own : line[i] \notin DOMAIN InputOf \cup DOMAIN OutputOf \cup DOMAIN ErrorOf}
  IN IF \/ \E i \in bars : i = Len(line) \/ i - 1 \in bars \cup {0}
        \/ \E i \in own : i = Len(line) /\ NameFollows(line[i])
     THEN NoWords
     ELSE [input |-> LastOf(line, own, InputOf), output |-> LastOf(line, own, OutputOf),
           error |-> LastOf(line, own, ErrorOf),
           args |-> [k \in 1..Cardinality(rest) |-> line[Nth(rest, k)]],
           bars |-> Cardinality(bars)]

\* The loop that forks takes every word that starts with | for a bar.
IsBar(w) == w \in Bars \cup {"|x"}

-----------------------------------------------------------------------------
(* Descriptors and the table. *)

Lowest(o) == Min({f \in Fds : o[f] = Closed})
Free(o) == {f \in Fds : o[f] = Closed}
Close(o, S) == [f \in Fds |-> IF f \in S THEN Closed ELSE o[f]]
NextOf(o, f) == [o EXCEPT ![Lowest(o)] = f]

\* pipe(): the read end gets the lowest descriptor, the write end the next one.
Ends(c) == {kids[c].in, kids[c].out, kids[c].err} \cup kids[c].more
Held(e) == \/ \E f \in Fds : open[f] = e
           \/ \E c \in Pids : kids[c].st = "running" /\ e \in Ends(c)
UnusedPipes == {p \in Pipes : ~Held(Read(p)) /\ ~Held(Write(p))}
UnusedPipe == Min(UnusedPipes)
PipeIn(o, p) == LET r == Lowest(o)
                    q == [o EXCEPT ![r] = Read(p)]
                    w == Lowest(q)
                IN [open |-> [q EXCEPT ![w] = Write(p)], r |-> r, w |-> w]
MayPipe == Cardinality(Free(open)) >= 2 /\ UnusedPipes # {}

\* JsiDetachPids
Detached(t, pids) ==
  [k \in 1..Len(t) |-> IF t[k].pid \in Range(pids) THEN [t[k] EXCEPT !.detached = TRUE] ELSE t[k]]

\* Faulty: the last entry goes, whoever it is.
LastTakenOut(t, pid) == Front(t)

\* An entry is taken out and the last one put in its place.
TakenOut(t, pid) ==
  LET i == CHOOSE i \in DOMAIN t : t[i].pid = pid
  IN Front([t EXCEPT ![i] = t[Len(t)]])

-----------------------------------------------------------------------------
ExecFrom(h) ==
  /\ host = h
  /\ open = [f \in Fds |-> IF f \in host THEN File ELSE Closed]
  /\ kids = [c \in Pids |-> NoKid]
  /\ table = <<>>
  /\ ex = Idle
  /\ lost = {} /\ forgotten = {} /\ execs = 0

ExecInit == \E h \in Hosts : ExecFrom(h)

\* The call of exec() begins with JsiReapDetachedPids.
Exec ==
  /\ ex.pc = "idle" /\ execs < MaxExecs
  /\ ex' = [pc |-> "reap", at |-> 1, used |-> Len(table)]
  /\ execs' = execs + 1
  /\ UNCHANGED <<open, kids, table, host, lost, forgotten>>

\* An entry is looked at.  A child that still runs is taken for one that has ended; the last
\* entry in use replaces the entry, and stays where it is as well.
Reap ==
  /\ ex.pc = "reap" /\ ex.at <= Len(table)
  /\ LET e == table[ex.at]
         st == kids[e.pid].st
     IN IF e.detached /\ st # "none"
        THEN /\ table' = [table EXCEPT ![ex.at] = table[ex.used]]
             /\ ex' = [ex EXCEPT !.at = @ + 1, !.used = @ - 1]
             /\ kids' = IF st = "zombie" THEN [kids EXCEPT ![e.pid] = NoKid] ELSE kids
             /\ forgotten' = IF st = "zombie" THEN forgotten ELSE forgotten \cup {e.pid}
        ELSE ex' = [ex EXCEPT !.at = @ + 1] /\ UNCHANGED <<table, kids, forgotten>>
  /\ UNCHANGED <<open, host, lost, execs>>

\* Then the words are scanned.
Background(line) == Len(line) > 1 /\ Last(line) = "&"
CreatePipeline(line) ==
  /\ ex.pc = "reap" /\ ex.at > Len(table)
  /\ LET s == Scan(IF Background(line) THEN Front(line) ELSE line)
     IN ex' = IF s.args = <<>> THEN Idle
              ELSE [pc |-> "input", background |-> Background(line), words |-> s,
                    inputId |-> JSI_BAD_FD, lastOutputId |-> JSI_BAD_FD, errorId |-> JSI_BAD_FD,
                    outPipe |-> JSI_BAD_FD, errFile |-> JSI_BAD_FD,
                    pids |-> <<>>, firstArg |-> 1]
  /\ table' = SubSeq(table, 1, ex.used)
  /\ UNCHANGED <<open, kids, host, lost, forgotten, execs>>

\* The end of JsiCreatePipeline after an error, with what it has open besides its variables.
Fails(o, others, leak) ==
  /\ open' = Close(o, (others \cup {ex.outPipe, ex.errFile, ex.inputId, ex.lastOutputId, ex.errorId}) \ leak)
  /\ table' = Detached(table, ex.pids)
  /\ ex' = Idle
  /\ lost' = lost \cup leak
  /\ UNCHANGED <<kids, host, forgotten, execs>>

Failure ==
  /\ \/ ex.pc = "input" /\ ex.words.input # "none"
     \/ ex.pc = "output" /\ (ex.words.output # "none" \/ ~ex.background)
     \/ ex.pc = "error" /\ (ex.words.error # "none" \/ ~ex.background)
     \/ ex.pc = "fork" /\ ex.firstArg <= Len(ex.words.args)
  /\ Fails(open, {}, {})

Goes(pc) == ex' = [ex EXCEPT !.pc = pc] /\ UNCHANGED open
Opens(field, pc) ==
  /\ Free(open) # {}
  /\ open' = NextOf(open, File)
  /\ ex' = [ex EXCEPT ![field] = Lowest(open), !.pc = pc]

\* A descriptor duplicated without success leaves JSI_BAD_FD, unnoticed.
OpenInput ==
  /\ ex.pc = "input"
  /\ \/ ex.words.input # "none" /\ Opens("inputId", "output")
     \/ ex.words.input \in {"none", "handle"} /\ Goes("output")
  /\ UNCHANGED <<kids, table, host, lost, forgotten, execs>>

OpenOutput ==
  /\ ex.pc = "output"
  /\ \/ ex.words.output # "none" /\ Opens("lastOutputId", "error")
     \/ (ex.words.output = "handle" \/ (ex.words.output = "none" /\ ex.background)) /\ Goes("error")
     \/ /\ ex.words.output = "none" /\ ~ex.background /\ MayPipe
        /\ LET p == PipeIn(open, UnusedPipe)
           IN /\ open' = p.open
              /\ ex' = [ex EXCEPT !.lastOutputId = p.w, !.outPipe = p.r, !.pc = "error"]
  /\ UNCHANGED <<kids, table, host, lost, forgotten, execs>>

\* Errors go where output goes, to a file or a channel, or to a temporary file of which
\* exec keeps a second descriptor.
OpenError ==
  /\ ex.pc = "error"
  /\ \/ /\ ex.words.error = "output" /\ ex.lastOutputId # JSI_BAD_FD /\ Free(open) # {}
        /\ open' = NextOf(open, open[ex.lastOutputId])
        /\ ex' = [ex EXCEPT !.errorId = Lowest(open), !.pc = "fork"]
     \/ /\ ex.words.error \in {"file", "handle"} \/ (ex.words.error = "output" /\ ex.lastOutputId = JSI_BAD_FD)
        /\ Opens("errorId", "fork")
     \/ /\ \/ ex.words.error = "handle"
           \/ ex.words.error = "output" /\ ex.lastOutputId = JSI_BAD_FD
           \/ ex.words.error = "none" /\ ex.background
        /\ Goes("fork")
     \/ /\ ex.words.error = "none" /\ ~ex.background /\ Free(open) # {}
        /\ LET o == NextOf(open, File)
           IN \/ /\ Free(o) # {}
                 /\ open' = NextOf(o, File)
                 /\ ex' = [ex EXCEPT !.errorId = Lowest(open), !.errFile = Lowest(o), !.pc = "fork"]
              \/ /\ open' = o
                 /\ ex' = [ex EXCEPT !.errorId = Lowest(open), !.pc = "fork"]
  /\ UNCHANGED <<kids, table, host, lost, forgotten, execs>>

-----------------------------------------------------------------------------
(* The loop over the commands. *)

LastArg == Min({Len(ex.words.args) + 1} \cup
               {k \in ex.firstArg..Len(ex.words.args) : IsBar(ex.words.args[k])})
More == ex.firstArg <= Len(ex.words.args)
IsLast == LastArg > Len(ex.words.args)
JoinsErrors == ~IsLast /\ ex.words.args[LastArg] = "|&"

\* What the child that is forked with descriptors o is left with.
OpenOn(o, f) == IF f = JSI_BAD_FD THEN File ELSE o[f]
\* Faulty: the child keeps what lies behind its input.
UpToInput(inputId, outputId, errorId) == inputId
UpTo(inputId, outputId, errorId) == Max({inputId, outputId, errorId})

Child(o, inputId, outputId, errorId) ==
  [st |-> "running", in |-> OpenOn(o, inputId), out |-> OpenOn(o, outputId), err |-> OpenOn(o, errorId),
   more |-> {o[f] : f \in {g \in Fds : g > UpTo(inputId, outputId, errorId)}} \ {File, Closed}]

\* The descriptors that the parent closes when a child has been forked.
Handed(outputId) == {ex.inputId, outputId}

Forks(o, outputId, nextInput) ==
  LET pid == Min({c \in Pids : kids[c].st = "none"})
  IN /\ kids' = [kids EXCEPT ![pid] =
                   Child(o, ex.inputId, outputId, IF JoinsErrors THEN outputId ELSE ex.errorId)]
     /\ table' = Append(table, [pid |-> pid, detached |-> FALSE])
     /\ open' = Close(o, Handed(outputId))
     /\ ex' = [ex EXCEPT !.pids = Append(@, pid), !.inputId = nextInput, !.firstArg = LastArg + 1,
                         !.pc = IF Len(ex.pids) > ex.words.bars THEN "memory overwritten" ELSE @]
     /\ UNCHANGED <<host, lost, forgotten, execs>>

MayFork == \E c \in Pids : kids[c].st = "none"

ForkLast == ex.pc = "fork" /\ More /\ IsLast /\ MayFork /\ Forks(open, ex.lastOutputId, JSI_BAD_FD)

ForkNext ==
  /\ ex.pc = "fork" /\ More /\ ~IsLast /\ MayFork /\ MayPipe
  /\ LET p == PipeIn(open, UnusedPipe) IN Forks(p.open, p.w, p.r)

\* vfork() fails behind a pipe.  Where errors join the pipe too, errorId is that pipe by
\* now and the descriptor it had is not closed.
ForkFails ==
  /\ ex.pc = "fork" /\ More /\ ~IsLast /\ MayPipe
  /\ LET p == PipeIn(open, UnusedPipe)
     IN Fails(p.open, {p.r, p.w}, IF JoinsErrors THEN {ex.errorId} \ {JSI_BAD_FD} ELSE {})

\* The end of the loop and the cleanup; children in the background are detached.
Started ==
  /\ ex.pc = "fork" /\ ~More
  /\ open' = Close(open, {ex.inputId, ex.lastOutputId, ex.errorId})
  /\ IF ex.background
     THEN ex' = Idle /\ table' = Detached(table, ex.pids)
     ELSE ex' = [ex EXCEPT !.pc = "read"] /\ UNCHANGED table
  /\ UNCHANGED <<kids, host, lost, forgotten, execs>>

-----------------------------------------------------------------------------
(* The rest of jsi_execCmd. *)

\* Reading ends when nobody holds the other end.  If fdopen() fails, the descriptor is lost.
AtEnd(e) == ~Held(Write(e[1]))
Drops(field, pc) ==
  /\ ex' = [ex EXCEPT ![field] = JSI_BAD_FD, !.pc = pc]
  /\ UNCHANGED <<kids, table, host, forgotten, execs>>

ReadOutput ==
  /\ ex.pc = "read"
  /\ \/ /\ ex.outPipe # JSI_BAD_FD => AtEnd(open[ex.outPipe])
        /\ open' = Close(open, {ex.outPipe}) /\ UNCHANGED lost
     \/ /\ ex.outPipe # JSI_BAD_FD
        /\ lost' = lost \cup {ex.outPipe} /\ UNCHANGED open
  /\ Drops("outPipe", "wait")

\* JsiWaitForProcess waits for the children in the order of the pipeline, but not for
\* one that is not in the table.
WaitForProcess ==
  /\ ex.pc = "wait" /\ ex.pids # <<>>
  /\ LET pid == Head(ex.pids)
     IN IF \E k \in 1..Len(table) : table[k].pid = pid
        THEN /\ kids[pid].st = "zombie"
             /\ kids' = [kids EXCEPT ![pid] = NoKid]
             /\ table' = TakenOut(table, pid)
        ELSE UNCHANGED <<kids, table>>
  /\ ex' = [ex EXCEPT !.pids = Tail(@)]
  /\ UNCHANGED <<open, host, lost, forgotten, execs>>

ReadErrors ==
  /\ ex.pc = "wait" /\ ex.pids = <<>>
  /\ \/ open' = Close(open, {ex.errFile}) /\ UNCHANGED lost
     \/ ex.errFile # JSI_BAD_FD /\ lost' = lost \cup {ex.errFile} /\ UNCHANGED open
  /\ ex' = Idle
  /\ UNCHANGED <<kids, table, host, forgotten, execs>>

ChildEnds(c) ==
  /\ kids[c].st = "running"
  /\ kids' = [kids EXCEPT ![c] = [NoKid EXCEPT !.st = "zombie"]]
  /\ UNCHANGED <<open, table, ex, host, lost, forgotten, execs>>

ExecNext ==
  \/ Exec \/ Reap \/ \E line \in Lines : CreatePipeline(line)
  \/ Failure \/ OpenInput \/ OpenOutput \/ OpenError
  \/ ForkLast \/ ForkNext \/ ForkFails \/ Started
  \/ ReadOutput \/ WaitForProcess \/ ReadErrors
  \/ \E c \in Pids : ChildEnds(c)

ExecSpec == ExecInit /\ [][ExecNext]_execVars

-----------------------------------------------------------------------------
(* Properties. *)

\* When exec returns, after success or the failure of any call of the system, the
\* program has the descriptors open that it had before, and those alone: no end of a
\* pipe and no file stays open, but for the two slips that lose one.
DescriptorsBack ==
  ex.pc = "idle" => {f \in Fds : open[f] # Closed} = host \cup lost

\* No child is left behind: between calls, every child that has not been reaped is in
\* the table, detached, once, so that the next exec reaps it, unless that one had dropped
\* it while it ran; and the table has nobody else.
ChildrenAccounted ==
  ex.pc = "idle" =>
    /\ \A k \in 1..Len(table) : table[k].detached
    /\ \A j, k \in 1..Len(table) : table[j].pid = table[k].pid => j = k
    /\ {c \in Pids : kids[c].st # "none"} \ forgotten = {table[k].pid : k \in 1..Len(table)}

\* exec never waits for something that cannot come.  While it reads or waits, one of its
\* children that run has come to the end of its input (or has none from a pipe), and if
\* none runs the output is at its end; and a child whose reader has ended is told so when
\* it writes, since no other process has the reading end: neither a child that inherited
\* it by number nor the program.
Running == {c \in Range(ex.pids) : kids[c].st = "running"}
IsRead(e) == e[2] = "read"
NeverStuck ==
  ex.pc \in {"read", "wait"} /\ lost = {} =>
    /\ \/ \E c \in Running : IsRead(kids[c].in) => AtEnd(kids[c].in)
       \/ Running = {} /\ (ex.outPipe # JSI_BAD_FD => AtEnd(open[ex.outPipe]))
    /\ \A c \in Running, p \in Pipes :
         kids[c].out = Write(p) /\ Held(Read(p)) =>
           \/ \E d \in Running : kids[d].in = Read(p)
           \/ ex.outPipe # JSI_BAD_FD /\ open[ex.outPipe] = Read(p)

ExecSound == DescriptorsBack /\ ChildrenAccounted /\ NeverStuck
=============================================================================
