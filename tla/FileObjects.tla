---------------------------- MODULE FileObjects ----------------------------
(***************************************************************************)
(* The File objects of scripts on files of the host (jsiFilesys.c), used   *)
(* by the threads that run code of one interp.                             *)
(*                                                                         *)
(* An object has a channel, and a channel the FILE of the C library with   *)
(* its buffer.  Reading and writing give up the mutex of the interp for    *)
(* the call of the library (jsi_FSReadProc, jsi_FSWriteProc), so that      *)
(* another thread may close or open the object under it; all else is one   *)
(* step.  A file is a sequence of lines.                                   *)
(***************************************************************************)
EXTENDS Integers, Sequences, FiniteSets, SequencesExt

CONSTANTS
    Objs, Threads,
    Chans,        \* places in memory for channels
    Files,        \* the files with what is in them at first, or Missing
    Modes,        \* the modes that scripts use
    BUFSIZ,       \* how many lines one read takes
    MaxOps,       \* bound
    Missing, None

VARIABLES
    obj,       \* the FileObj of each File: chan, filename, mode
    chan,      \* the channels: where they are, and the position and buffer of the FILE
    file,      \* what is on the host
    io,        \* what a thread is in the midst of, without the mutex
    answer,    \* what the last read gave
    want,      \* auxiliary: the files, had nothing been buffered
    fault,     \* memory that was used after it was freed, which ends a behaviour
    slips,     \* auxiliary: what has happened that the code does not provide for
    ops

vars == <<obj, chan, file, io, answer, want, fault, slips, ops>>

NoObject == [made |-> FALSE, chan |-> None, filename |-> "null", mode |-> "null"]
NoChannel == [is |-> "unused", file |-> None, mode |-> None, pos |-> 0, buf |-> <<>>]
Idle == [op |-> "none", obj |-> None, chan |-> None, left |-> 0, got |-> <<>>,
         expect |-> <<>>, clean |-> TRUE]

Reads(m)  == m \in {"r", "r+", "w+"}
Writes(m) == m \in {"r+", "w", "w+", "a"}

Init ==
    /\ obj = [o \in Objs |-> NoObject] /\ chan = [c \in Chans |-> NoChannel]
    /\ file = Files /\ want = Files
    /\ io = [t \in Threads |-> Idle] /\ answer = [clean |-> FALSE]
    /\ fault = "none" /\ slips = {} /\ ops = 0

\* A script runs in a thread.
Runs(t) == fault = "none" /\ io[t].op = "none" /\ ops < MaxOps /\ ops' = ops + 1

-----------------------------------------------------------------------------
(* The C library.                                                          *)

Overlaid(f, pos, b) ==
    LET n == IF pos + Len(b) > Len(f) THEN pos + Len(b) ELSE Len(f) IN
    [i \in 1..n |-> IF i > pos /\ i <= pos + Len(b) THEN b[i - pos]
                    ELSE IF i <= Len(f) THEN f[i] ELSE "hole"]

\* A file after the buffer of a channel was written to it.
Flushed(f, ch) ==
    IF ch.buf = <<>> THEN f
    ELSE IF ch.mode = "a" THEN f \o ch.buf ELSE Overlaid(f, ch.pos, ch.buf)
AtRest(ch, f) ==
    IF ch.buf = <<>> THEN ch
    ELSE [ch EXCEPT !.buf = <<>>,
                    !.pos = IF ch.mode = "a" THEN Len(f) + Len(ch.buf) ELSE @ + Len(ch.buf)]

\* The library writes the buffer of c, and then its position becomes pos.
Settle(c, pos) ==
    LET ch == chan[c] IN
    /\ file' = [file EXCEPT ![ch.file] = Flushed(@, ch)]
    /\ chan' = [chan EXCEPT ![c] = [AtRest(ch, file[ch.file]) EXCEPT !.pos = pos]]

\* The position a buffered write has reached.
Tell(c) == AtRest(chan[c], file[chan[c].file]).pos

\* Other threads that read or write are not alone with the files.
Others(t) == [u \in Threads |-> IF u = t THEN io[u] ELSE [io[u] EXCEPT !.clean = FALSE]]
Meddle(t) == io' = Others(t)

-----------------------------------------------------------------------------
(* Opening and closing.                                                    *)

\* Faulty: the object still knows the name of the file.
ErasedNamed(ob) == IF ob.filename = "set" THEN [ob EXCEPT !.mode = "freed"] ELSE ob

\* fileObjErase: the channel is closed, with what is in its buffer, and the names are
\* freed; chan and mode go on pointing to them.
Erased(ob) == IF ob.filename = "set" THEN [ob EXCEPT !.filename = "null", !.mode = "freed"] ELSE ob
ClosesNow(o) == obj[o].filename = "set"
FileObjErase(o) ==
    LET c == obj[o].chan  ch == chan[c] IN
    /\ chan' = [chan EXCEPT ![c].is = "freed", ![c].buf = <<>>]
    /\ file' = [file EXCEPT ![ch.file] = Flushed(@, ch)]

\* Jsi_Open, as fopen does it; and what try_open_file keeps.
CanOpen(f, m) == f # None /\ (file[f] # Missing \/ m \in {"w", "w+", "a"})
Opened(f, m, old) == IF m \in {"w", "w+"} \/ old = Missing THEN <<>> ELSE old
TryOpenFile(o, f, m, chans, files) ==
    IF ~CanOpen(f, m)
    THEN /\ obj' = [obj EXCEPT ![o] = Erased(@)] /\ chan' = chans /\ file' = files
         /\ UNCHANGED <<want, slips>>
    ELSE \E c \in {d \in Chans : chans[d].is = "unused"} :
            /\ \A d \in Chans : chans[d].is = "unused" => c <= d
            /\ chan' = [chans EXCEPT ![c] = [is |-> "open", file |-> f, mode |-> m,
                                             pos |-> 0, buf |-> <<>>]]
            /\ file' = [files EXCEPT ![f] = Opened(f, m, @)]
            /\ want' = [want EXCEPT ![f] = Opened(f, m, @)]
            /\ obj' = [obj EXCEPT ![o] = [made |-> TRUE, chan |-> c, filename |-> "set",
                                          mode |-> "set"]]
            /\ slips' = IF \E d \in Chans : chans[d].is = "open" /\ chans[d].file = f
                        THEN slips \cup {"shared"} ELSE slips

\* new File(f, m): when the object cannot be opened there is none.
FilesysConstructor(t, o, f, m) ==
    /\ Runs(t) /\ ~obj[o].made
    /\ CanOpen(f, m) /\ TryOpenFile(o, f, m, chan, file)
    /\ Meddle(t) /\ UNCHANGED <<answer, fault>>

\* open(f, m) closes what was open first; the answer is always true.
FilesysOpenCmd(t, o, f, m) ==
    /\ Runs(t) /\ obj[o].made
    /\ IF ClosesNow(o)
       THEN LET c == obj[o].chan  ch == chan[c] IN
            TryOpenFile(o, f, m, [chan EXCEPT ![c].is = "freed", ![c].buf = <<>>],
                        [file EXCEPT ![ch.file] = Flushed(@, ch)])
       ELSE TryOpenFile(o, f, m, chan, file)
    /\ Meddle(t) /\ UNCHANGED <<answer, fault>>

\* close(), and fileObjFree when the last reference to the object goes.
Close(t, o, drops) ==
    /\ Runs(t) /\ obj[o].made
    /\ drops => \A u \in Threads : io[u].obj # o
    /\ IF ClosesNow(o) THEN FileObjErase(o) ELSE UNCHANGED <<chan, file>>
    /\ obj' = [obj EXCEPT ![o] = IF drops THEN NoObject ELSE Erased(@)]
    /\ Meddle(t) /\ UNCHANGED <<answer, want, fault, slips>>

-----------------------------------------------------------------------------
(* Reading and writing, in several calls without the mutex.                *)

\* read(n), n no more than BUFSIZ, or read() of all there is (left -1).
FilesysReadCmd(t, o, n) ==
    /\ Runs(t) /\ obj[o].made /\ obj[o].filename = "set"
    /\ LET c == obj[o].chan  ch == chan[c]  f == want[ch.file]
           from == IF Reads(ch.mode) THEN SubSeq(f, Tell(c) + 1, Len(f)) ELSE <<>>
       IN io' = [io EXCEPT ![t] =
             [op |-> "read", obj |-> o, chan |-> c, left |-> n, got |-> <<>>, clean |-> TRUE,
              expect |-> IF n # -1 /\ n < Len(from) THEN SubSeq(from, 1, n) ELSE from]]
    /\ UNCHANGED <<obj, chan, file, answer, want, fault, slips>>

FilesysWriteCmd(t, o) ==
    /\ Runs(t) /\ obj[o].made /\ obj[o].filename = "set"
    /\ io' = [io EXCEPT ![t] = [Idle EXCEPT !.op = "write", !.obj = o, !.chan = obj[o].chan]]
    /\ UNCHANGED <<obj, chan, file, answer, want, fault, slips>>

\* The channel was closed, and freed, under the call of the library.
Pulled(t) ==
    /\ fault = "none" /\ io[t].op # "none" /\ chan[io[t].chan].is # "open"
    /\ fault' = "channel closed in use" /\ slips' = slips \cup {"threads"}
    /\ UNCHANGED <<obj, chan, file, io, answer, want, ops>>

\* fread returns; the loop goes on with the channel that the object has by then, until
\* nothing is read or there is enough.
Block(t) ==
    LET ch == chan[io[t].chan]  f == Flushed(file[ch.file], ch)
        here == AtRest(ch, file[ch.file]).pos
        most == IF io[t].left = -1 \/ io[t].left > BUFSIZ THEN BUFSIZ ELSE io[t].left
        n == IF ~Reads(ch.mode) \/ here >= Len(f) THEN 0
             ELSE IF Len(f) - here < most THEN Len(f) - here ELSE most
    IN [lines |-> SubSeq(f, here + 1, here + n), pos |-> here + n]

ReadReturns(t) ==
    /\ fault = "none" /\ io[t].op = "read" /\ chan[io[t].chan].is = "open"
    /\ LET b == Block(t).lines
           got == io[t].got \o b
           left == IF io[t].left = -1 THEN -1 ELSE io[t].left - Len(b)
           ends == b = <<>> \/ left = 0
           o == io[t].obj
       IN /\ Settle(io[t].chan, Block(t).pos)
          /\ IF ends
             THEN /\ io' = [Others(t) EXCEPT ![t] = Idle]
                  /\ answer' = [clean |-> io[t].clean, got |-> got, expect |-> io[t].expect]
                  /\ UNCHANGED slips
             ELSE /\ io' = [Others(t) EXCEPT ![t].got = got, ![t].left = left,
                                      ![t].chan = obj[o].chan]
                  /\ slips' = IF obj[o].chan = io[t].chan THEN slips ELSE slips \cup {"threads"}
                  /\ UNCHANGED answer
    /\ UNCHANGED <<obj, want, fault, ops>>

\* fwrite returns: one line is in the buffer.
Put(c, line) ==
    LET ch == chan[c] IN
    IF ~Writes(ch.mode) THEN UNCHANGED <<chan, want>>
    ELSE /\ chan' = [chan EXCEPT ![c].buf = Append(@, line)]
         /\ want' = [want EXCEPT ![ch.file] =
                       IF ch.mode = "a" THEN Append(@, line) ELSE Overlaid(@, Tell(c), <<line>>)]

WriteReturns(t) ==
    /\ fault = "none" /\ io[t].op = "write" /\ chan[io[t].chan].is = "open"
    /\ Put(io[t].chan, "w")
    /\ io' = [Others(t) EXCEPT ![t] = Idle]
    /\ UNCHANGED <<obj, file, answer, fault, slips, ops>>

\* puts, with the mutex.
FilesysPutsCmd(t, o) ==
    /\ Runs(t) /\ obj[o].made /\ obj[o].filename = "set"
    /\ Put(obj[o].chan, "p")
    /\ Meddle(t)
    /\ UNCHANGED <<obj, file, answer, fault, slips>>

\* gets
FilesysGetsCmd(t, o) ==
    /\ Runs(t) /\ obj[o].made /\ obj[o].filename = "set"
    /\ LET c == obj[o].chan  ch == chan[c]  at == Tell(c) IN
       IF Reads(ch.mode) /\ at < Len(Flushed(file[ch.file], ch)) THEN Settle(c, at + 1)
       ELSE Settle(c, at)
    /\ Meddle(t)
    /\ UNCHANGED <<obj, answer, want, fault, slips>>

-----------------------------------------------------------------------------
(* The methods that do not ask whether the object is open.                 *)

\* After close(), or an open() that failed, chan is the one that was freed.
Stale(o) == obj[o].filename # "set"
UsesChannel(t, o) == Runs(t) /\ obj[o].made /\ ~Stale(o)

\* seek, tell, eof, flush, truncate and stat use what was freed; so does mode.
UseClosed(t, o) ==
    /\ Runs(t) /\ obj[o].made /\ Stale(o)
    /\ fault' = "freed channel" /\ slips' = slips \cup {"closed"}
    /\ UNCHANGED <<obj, chan, file, io, answer, want>>

FilesysSeekCmd(t, o, pos) ==
    /\ UsesChannel(t, o)
    /\ LET c == obj[o].chan  f == chan[c].file IN
       Settle(c, IF pos = "end" THEN Len(Flushed(file[f], chan[c])) ELSE 0)
    /\ Meddle(t)
    /\ UNCHANGED <<obj, answer, want, fault, slips>>

FilesysFlushCmd(t, o) ==
    /\ UsesChannel(t, o)
    /\ Settle(obj[o].chan, Tell(obj[o].chan))
    /\ Meddle(t)
    /\ UNCHANGED <<obj, answer, want, fault, slips>>

\* ftruncate does not know of the buffer.
FilesysTruncateCmd(t, o) ==
    /\ UsesChannel(t, o) /\ Writes(chan[obj[o].chan].mode)
    /\ LET ch == chan[obj[o].chan] IN
       /\ file' = [file EXCEPT ![ch.file] = <<>>]
       /\ want' = [want EXCEPT ![ch.file] = <<>>]
       /\ slips' = IF ch.buf # <<>> THEN slips \cup {"unflushed"} ELSE slips
    /\ Meddle(t)
    /\ UNCHANGED <<obj, chan, answer, fault>>

Next ==
    \/ \E t \in Threads, o \in Objs :
          \/ \E f \in DOMAIN Files \cup {None}, m \in Modes :
                FilesysConstructor(t, o, f, m) \/ FilesysOpenCmd(t, o, f, m)
          \/ \E drops \in BOOLEAN : Close(t, o, drops)
          \/ \E n \in {-1, 1, BUFSIZ} : FilesysReadCmd(t, o, n)
          \/ FilesysWriteCmd(t, o) \/ FilesysPutsCmd(t, o) \/ FilesysGetsCmd(t, o)
          \/ \E pos \in {"set", "end"} : FilesysSeekCmd(t, o, pos)
          \/ FilesysFlushCmd(t, o) \/ FilesysTruncateCmd(t, o) \/ UseClosed(t, o)
    \/ \E t \in Threads : Pulled(t) \/ ReadReturns(t) \/ WriteReturns(t)

Spec == Init /\ [][Next]_vars

-----------------------------------------------------------------------------
TypeOK ==
    /\ obj \in [Objs -> [made : BOOLEAN, chan : Chans \cup {None},
                         filename : {"null", "set"}, mode : {"null", "set", "freed"}]]
    /\ \A c \in Chans : chan[c].is \in {"unused", "open", "freed"}

\* An open channel is that of one object, which knows its name; the others were closed once.
ChannelsOwned ==
    /\ \A c \in Chans : chan[c].is = "open" =>
          Cardinality({o \in Objs : obj[o].chan = c /\ obj[o].filename = "set"}) = 1
    /\ \A o \in Objs : obj[o].filename = "set" => chan[obj[o].chan].is = "open"

\* What was written is in the file, or will be when its channel is closed; unless the file
\* was open twice, or was truncated under a buffer.
NothingLost ==
    slips \cap {"shared", "unflushed"} = {} =>
        \A f \in DOMAIN Files :
            LET on == {c \in Chans : chan[c].is = "open" /\ chan[c].file = f} IN
            /\ on = {} => file[f] = want[f]
            /\ \A c \in on : Flushed(file[f], chan[c]) = want[f]

\* A read that nobody came between gives what is in the file from its position, up to what
\* was asked for.
ReadsWhole == answer.clean /\ slips \cap {"shared", "unflushed"} = {} => answer.got = answer.expect

\* Nothing freed is used, unless a script used an object it had closed or two threads one.
NothingStale == fault # "none" => slips \cap {"closed", "threads"} # {}

ObjectsSound == TypeOK /\ ChannelsOwned /\ NothingLost /\ ReadsWhole /\ NothingStale
=============================================================================
