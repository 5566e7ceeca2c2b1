------------------------------- MODULE ZipFs -------------------------------
(***************************************************************************)
(* Zip archives as file systems (jsiZvfs.c), read by File objects          *)
(* (jsiFilesys.c).                                                         *)
(*                                                                         *)
(* An archive is a file of cells: what was in the file before (a program), *)
(* for each entry a header and its data, a cell for every byte, and at the *)
(* end the table of contents.  Create and append write it, mount registers *)
(* its entries by name, and a File object reads an entry through a channel *)
(* of its own that shares the one open FILE of the archive, and thus that  *)
(* FILE's position, with every other reader of the archive.                *)
(*                                                                         *)
(* Compressed data has as many cells as the bytes it stands for: what      *)
(* matters is that it can only be read from the start on and comes in      *)
(* other blocks than the caller reads.                                     *)
(***************************************************************************)
EXTENDS Integers, Sequences, FiniteSetsExt, SequencesExt

CONSTANTS Sources,        \* the native files: their contents, by name
          Dirs,           \* the native directories
          FileLists,      \* the lists of names given to create and append
          Archives,       \* names of archives
          Initial,        \* what the archives may be at first, together
          MountPoints,
          Files,          \* the File objects
          Sizes,          \* the numbers of bytes read
          BUFSIZ, COMPR_BUF_SIZE,
          MaxBuilds, MaxMounts, MaxReads  \* bounds on the calls

VARIABLES disk,     \* the cells of each archive; NoFile when there is none
          archiveHash, \* the archives mounted: mount point, open FILE, entries
          fileHash, \* for a name, the first of the virtual files so named
          link,     \* the other virtual files of that name (pNextName, pPrevName)
          file,     \* the File objects
          order,    \* ghost: the archives in the order they were mounted
          clean,    \* ghost: only create, once, and truncate changed the archive
          crashed,  \* freed memory or a NULL pointer was used, or a call never ends
          builds, mountings, reads   \* counters for the bounds

zvfs == <<archiveHash, fileHash, link, order>>
vars == <<disk, zvfs, file, clean, crashed, builds, mountings, reads>>

NoFile == << <<"nofile">> >>
Program == <<"exe">>
Junk == <<"junk">>
Content(src, i) == <<"z", src, i>>   \* a byte, compressed
Plain(src, i) == <<"b", src, i>>     \* a byte, stored
LocalHeader(size, csize, compressed) == <<"head", size, csize, compressed>>
Toc(entries) == <<"toc", entries>>
Entry(name, offset) == [name |-> name, iOffset |-> offset, isdir |-> name \in Dirs]
IllFormed == [name |-> "", iOffset |-> 0, isdir |-> FALSE]

\* What is read at a position, the first being 0.
CellAt(cells, pos) == IF pos < Len(cells) THEN cells[pos + 1] ELSE <<"eof">>
Block(cells, pos, n) == SubSeq(cells, pos + 1, IF pos + n > Len(cells) THEN Len(cells) ELSE pos + n)

-----------------------------------------------------------------------------
(***************************************************************************)
(* The table of contents.  ZvfsReadTOCStart makes a list with the last     *)
(* entry first, marks names that end in / special and never sets the       *)
(* offset, which stays 0.                                                  *)
(***************************************************************************)
IsZip(cells) == Len(cells) > 0 /\ Last(cells)[1] = "toc"
Entries(cells) == Last(cells)[2]
WellFormed(cells) == \A i \in DOMAIN Entries(cells) : Entries(cells)[i] # IllFormed

ReadTOC(cells) ==
    Reverse([i \in DOMAIN Entries(cells) |->
        [name |-> Entries(cells)[i].name, iOffset |-> 0,
         isSpecial |-> Entries(cells)[i].isdir]])

\* Where the zip data starts: at the smallest offset.
ZipStart(cells) ==
    Min({Len(cells) - 1} \cup {Entries(cells)[i].iOffset : i \in DOMAIN Entries(cells)})

WriteTOC(list) ==
    LET kept == SelectSeq(SortSeq(list, LAMBDA p, q : p.iOffset < q.iOffset),
                          LAMBDA p : ~p.isSpecial)
    IN Toc([i \in DOMAIN kept |-> Entry(kept[i].name, kept[i].iOffset)])

-----------------------------------------------------------------------------
(***************************************************************************)
(* Making archives.                                                        *)
(***************************************************************************)
\* Faulty: the offset is that of the data.
WriteFileLate(st, src) ==
    LET n == IF src \in Dirs THEN 0 ELSE Len(Sources[src])
        data == [i \in 1..n |-> Content(src, i)]
    IN [st EXCEPT !.cells = @ \o <<LocalHeader(n, n, TRUE)>> \o data,
                  !.list = <<[name |-> src, iOffset |-> Len(st.cells) + 1,
                              isSpecial |-> FALSE]>> \o @]

\* A header, the data, and the header once more now that the sizes are known.
WriteFile(st, src) ==
    LET n == IF src \in Dirs THEN 0 ELSE Len(Sources[src])
        data == [i \in 1..n |-> Content(src, i)]
    IN [st EXCEPT !.cells = @ \o <<LocalHeader(n, n, TRUE)>> \o data,
                  !.list = <<[name |-> src, iOffset |-> Len(st.cells),
                              isSpecial |-> FALSE]>> \o @]

\* The files are added until one cannot be opened.
WriteFiles(cells, list, names) ==
    FoldLeft(LAMBDA st, src :
                 IF ~st.ok THEN st
                 ELSE IF src \notin Dirs \cup DOMAIN Sources THEN [st EXCEPT !.ok = FALSE]
                 ELSE WriteFile(st, src),
             [cells |-> cells, list |-> list, ok |-> TRUE], names)

\* create (and append, which wants the file to exist).  No entry is ever called
\* *TOC*, so an existing archive is never refused.  The table is written at the
\* end when nothing failed; else a file that was just made is removed again.
CreateCmd(a, names, append) ==
    LET create == disk[a] = NoFile
        old == IF create THEN <<>> ELSE disk[a]
        list == IF IsZip(old) THEN ReadTOC(old) ELSE <<>>
        st == WriteFiles(old, list, names)
    IN /\ builds < MaxBuilds
       /\ builds' = builds + 1
       /\ IF \/ create /\ append
             \/ IsZip(old) /\ ~WellFormed(old)
          THEN UNCHANGED <<disk, clean>>
          ELSE /\ disk' = [disk EXCEPT ![a] =
                              IF st.ok THEN Append(st.cells, WriteTOC(st.list))
                              ELSE IF create THEN NoFile ELSE st.cells]
               /\ clean' = [clean EXCEPT ![a] = @ /\ ~IsZip(old) /\ (st.ok \/ create)]
       /\ UNCHANGED <<zvfs, file, crashed, mountings, reads>>

\* Cut off the zip data.
Truncate(a) ==
    /\ disk[a] # NoFile
    /\ builds < MaxBuilds
    /\ builds' = builds + 1
    /\ disk' = IF IsZip(disk[a]) /\ WellFormed(disk[a])
               THEN [disk EXCEPT ![a] = SubSeq(@, 1, ZipStart(@))]
               ELSE disk
    /\ file' = [f \in Files |-> IF file[f].arch = a THEN [file[f] EXCEPT !.sure = FALSE]
                                ELSE file[f]]
    /\ UNCHANGED <<zvfs, clean, crashed, mountings, reads>>

-----------------------------------------------------------------------------
(***************************************************************************)
(* Mounting.  A virtual file is known by its archive and its place in it.  *)
(***************************************************************************)
NoId == <<"", 0>>
FullName(m, name) == IF name = "" THEN <<m>> ELSE <<m, name>>
Live(a) == {<<a, i>> : i \in DOMAIN archiveHash[a].files}
NameOf(id) == archiveHash[id[1]].files[id[2]].name

\* The file is put in front of those of its name.
Register(st, id, name) ==
    LET old == IF name \in DOMAIN st.hash THEN st.hash[name] ELSE NoId
        linked == IF old = NoId THEN st.link ELSE [st.link EXCEPT ![old].prev = id]
    IN [hash |-> (name :> id) @@ st.hash,
        link |-> (id :> [next |-> old, prev |-> NoId]) @@ linked]

RegisterAll(a, files) ==
    FoldLeft(LAMBDA st, i : Register(st, <<a, i>>, files[i].name),
             [hash |-> fileHash, link |-> link], [i \in DOMAIN files |-> i])

\* The entries up to the first that is ill-formed; when there is none, the mount point.
\* After an ill-formed one the channel is closed, but the archive and its files stay.
Mount(a, m) ==
    LET es == Entries(disk[a])
        bad == {i \in DOMAIN es : es[i] = IllFormed}
        good == IF bad = {} THEN Len(es) ELSE Min(bad) - 1
        named == [i \in 1..good |-> [name |-> FullName(m, es[i].name),
                                     iOffset |-> es[i].iOffset, isdir |-> es[i].isdir]]
        files == IF bad # {} THEN named
                 ELSE Append(named, [name |-> FullName(m, ""), isdir |-> TRUE,
                                     iOffset |-> ZipStart(disk[a])])
        st == RegisterAll(a, files)
    IN /\ disk[a] # NoFile /\ IsZip(disk[a])
       /\ a \notin DOMAIN archiveHash
       /\ mountings < MaxMounts
       /\ mountings' = mountings + 1
       /\ archiveHash' = (a :> [at |-> m, chan |-> bad = {}, pos |-> Len(disk[a]) - 1,
                                files |-> files]) @@ archiveHash
       /\ fileHash' = st.hash
       /\ link' = st.link
       /\ order' = Append(order, a)
       /\ UNCHANGED <<disk, file, clean, crashed, builds, reads>>

\* One file is taken off the list of its name.
Forget(st, id, name) ==
    LET l == st.link[id]
        fixedNext == IF l.next = NoId THEN st.link
                     ELSE [st.link EXCEPT ![l.next].prev = l.prev]
        fixed == IF l.prev = NoId THEN fixedNext
                 ELSE [fixedNext EXCEPT ![l.prev].next = l.next]
    IN [hash |-> IF l.prev # NoId THEN st.hash
                 ELSE IF l.next # NoId THEN [st.hash EXCEPT ![name] = l.next]
                 ELSE [n \in DOMAIN st.hash \ {name} |-> st.hash[n]],
        link |-> [i \in DOMAIN fixed \ {id} |-> fixed[i]]]

ForgetAll(a) ==
    LET files == archiveHash[a].files
    IN FoldLeft(LAMBDA st, i : Forget(st, <<a, i>>, files[i].name),
                [hash |-> fileHash, link |-> link], Reverse([i \in DOMAIN files |-> i]))

\* The archive is any one mounted there, in the order of the hash table.  Its files are
\* freed with channels still on them.  Its own channel is NULL after an ill-formed entry.
Unmount(m) ==
    \E a \in DOMAIN archiveHash :
        LET st == ForgetAll(a)
        IN /\ archiveHash[a].at = m
           /\ IF ~archiveHash[a].chan
              THEN crashed' = TRUE /\ UNCHANGED <<zvfs, file>>
              ELSE /\ archiveHash' = [b \in DOMAIN archiveHash \ {a} |-> archiveHash[b]]
                   /\ fileHash' = st.hash
                   /\ link' = st.link
                   /\ order' = SelectSeq(order, LAMBDA b : b # a)
                   /\ file' = [f \in Files |-> IF file[f].arch = a
                                               THEN [file[f] EXCEPT !.gone = TRUE]
                                               ELSE file[f]]
                   /\ UNCHANGED crashed
           /\ UNCHANGED <<disk, clean, builds, mountings, reads>>

-----------------------------------------------------------------------------
(***************************************************************************)
(* Reading an entry.  The record of a channel is ZvfsChannelInfo: zin is   *)
(* what the decompressor has not consumed, buf what the caller has not.    *)
(* The operators take and give the channel and the position of the FILE.   *)
(***************************************************************************)
NoObject == [st |-> "none", arch |-> "", gone |-> FALSE, sure |-> FALSE]

\* The bytes that an entry should give, for the properties.
Bytes(cells, pos, n) == [i \in 1..n |-> Plain(CellAt(cells, pos + i - 1)[2], i)]

OpenChannel(a, pos, head, cells) ==
    [st |-> "open", arch |-> a, gone |-> FALSE,
     nByte |-> head[2], nByteCompr |-> head[3], nData |-> head[3],
     isCompressed |-> head[4], readSoFar |-> 0,
     startOfData |-> pos, curPos |-> pos, zin |-> <<>>, buf |-> <<>>,
     own |-> Bytes(cells, pos, head[2]), got |-> <<>>, sure |-> TRUE]

Inflates(c, cells) == \A i \in DOMAIN cells : cells[i][1] = "z" /\ cells[i][3] = c.readSoFar + i
Inflated(cells) == [i \in DOMAIN cells |-> Plain(cells[i][2], cells[i][3])]

\* Blocks are read until the decompressor can give n bytes, or there are no more.
RECURSIVE Feed(_, _, _)
Feed(t, cells, n) ==
    LET len == Min({t.c.nByteCompr, COMPR_BUF_SIZE})
        block == Block(cells, t.pos, len)
    IN IF Len(t.c.zin) >= n \/ block = <<>> THEN t
       ELSE Feed([c |-> [t.c EXCEPT !.zin = @ \o block, !.nByteCompr = @ - Len(block)],
                  pos |-> t.pos + Len(block)], cells, n)

\* Faulty: the FILE is read where it is.
Unplaced(t) == t.pos

\* The FILE is shared: it is positioned before it is read.
Placed(t) == t.c.curPos

\* vfsInput: at most max bytes.  What does not inflate makes it answer -1, and the
\* reader then takes a byte from its buffer all the same.
VfsInput(t, cells, max) ==
    LET n == Min({max, t.c.nByte})
        pos == Placed(t)
        plain == Block(cells, pos, n)
        fed == Feed([c |-> t.c, pos |-> pos], cells, n)
        taken == Block(fed.c.zin, 0, n)
    IN IF n = 0 THEN [c |-> t.c, pos |-> t.pos, out |-> <<>>]
       ELSE IF ~t.c.isCompressed
       THEN [c |-> [t.c EXCEPT !.curPos = pos + Len(plain), !.nByte = @ - Len(plain),
                               !.readSoFar = @ + Len(plain)],
             pos |-> pos + Len(plain), out |-> plain]
       ELSE IF Len(taken) < n \/ ~Inflates(t.c, taken)
       THEN [c |-> fed.c, pos |-> fed.pos, out |-> <<Junk>>]
       ELSE [c |-> [fed.c EXCEPT !.zin = SubSeq(@, n + 1, Len(@)), !.nByte = @ - n,
                                 !.readSoFar = @ + n, !.curPos = fed.pos],
             pos |-> fed.pos, out |-> Inflated(taken)]

\* Jaz_FSReadProc: n bytes, or those up to the end, by way of the buffer.
RECURSIVE ReadProc(_, _, _)
ReadProc(t, cells, n) ==
    LET in == VfsInput(t, cells, BUFSIZ)
        u == IF t.c.buf = <<>> THEN [c |-> [in.c EXCEPT !.buf = in.out], pos |-> in.pos] ELSE t
    IN IF n = 0 \/ u.c.buf = <<>> THEN u
       ELSE ReadProc([c |-> [u.c EXCEPT !.got = Append(@, Head(u.c.buf)), !.buf = Tail(@)], pos |-> u.pos],
                     cells, n - 1)

\* The rest of vfsSeek for compressed data: read up to the offset.  The FILE is
\* positioned by curPos, which a restart has left where it was.  FALSE for a call
\* that never ends, as when no more can be read.
RECURSIVE Discard(_, _, _)
Discard(t, cells, offset) ==
    LET in == VfsInput(t, cells, offset - t.c.readSoFar)
    IN IF t.c.readSoFar >= offset THEN [t |-> t, ends |-> TRUE]
       ELSE IF in.c.readSoFar = t.c.readSoFar THEN [t |-> t, ends |-> FALSE]
       ELSE Discard([c |-> in.c, pos |-> in.pos], cells, offset)

Restarted(c) ==
    [c EXCEPT !.zin = <<>>, !.nByte = @ + c.readSoFar, !.nByteCompr = c.nData, !.readSoFar = 0]

\* vfsSeek.  The buffer is not emptied.
VfsSeek(t, cells, offset) ==
    LET c == t.c
        stored == [c EXCEPT !.nByte = c.nData, !.readSoFar = offset,
                            !.curPos = c.startOfData + offset]
        back == offset < c.readSoFar
        d == Discard([c |-> IF back THEN Restarted(c) ELSE c,
                      pos |-> IF back THEN c.startOfData ELSE c.curPos], cells, offset)
    IN IF c.isCompressed
       THEN [c |-> [d.t.c EXCEPT !.curPos = d.t.pos], pos |-> d.t.pos, ends |-> d.ends]
       ELSE [c |-> stored, pos |-> stored.curPos, ends |-> TRUE]

-----------------------------------------------------------------------------
(***************************************************************************)
(* File objects.                                                           *)
(***************************************************************************)
Turn(f) == [c |-> file[f], pos |-> archiveHash[file[f].arch].pos]
Moved(a, pos) == archiveHash' = [archiveHash EXCEPT ![a].pos = pos]
Counted == reads < MaxReads /\ reads' = reads + 1

\* open() after a close, or of a new object.  The constructor makes no object when
\* the file does not open; open() leaves the object closed and says TRUE.
Open(f, name) ==
    LET id == fileHash[name]
        rec == archiveHash[id[1]].files[id[2]]
        cells == disk[id[1]]
        head == CellAt(cells, rec.iOffset)
        begins == rec.iOffset + 1
        failed == IF file[f].st = "none" THEN NoObject ELSE [NoObject EXCEPT !.st = "closed"]
    IN /\ Counted
       /\ name \in DOMAIN fileHash
       /\ IF rec.isdir \/ ~archiveHash[id[1]].chan
          THEN file' = [file EXCEPT ![f] = failed] /\ UNCHANGED archiveHash
          ELSE IF cells = NoFile \/ head[1] # "head"
          THEN file' = [file EXCEPT ![f] = failed] /\ Moved(id[1], begins)
          ELSE /\ file' = [file EXCEPT ![f] = OpenChannel(id[1], begins, head, cells)]
               /\ Moved(id[1], begins)
       /\ UNCHANGED <<disk, fileHash, link, order, clean, crashed, builds, mountings>>

\* The channel is freed, not the FILE.
Close(f) ==
    /\ Counted
    /\ file[f].st = "open"
    /\ file' = [file EXCEPT ![f] = [NoObject EXCEPT !.st = "closed"]]
    /\ UNCHANGED <<disk, zvfs, clean, crashed, builds, mountings>>

Crash == crashed' = TRUE /\ UNCHANGED <<archiveHash, file>>

\* read(n).  A closed object reads nothing.  The FILE of an archive that is no longer
\* mounted is freed memory.
Read(f, n) ==
    /\ Counted
    /\ file[f].st = "open"
    /\ IF ~file[f].gone
       THEN LET t == ReadProc(Turn(f), disk[file[f].arch], n)
            IN /\ file' = [file EXCEPT ![f] = t.c]
               /\ Moved(file[f].arch, t.pos)
               /\ UNCHANGED crashed
       ELSE IF n > Len(file[f].buf) /\ file[f].nByte > 0 THEN Crash
       ELSE /\ file' = [file EXCEPT ![f] =
                 [@ EXCEPT !.got = @ \o Block(file[f].buf, 0, n),
                           !.buf = SubSeq(@, n + 1, Len(@))]]
            /\ UNCHANGED <<archiveHash, crashed>>
    /\ UNCHANGED <<disk, fileHash, link, order, clean, builds, mountings>>

\* seek(k, "set").  Nothing looks whether the object is closed.
Seek(f, k) ==
    /\ Counted
    /\ file[f].st # "none"
    /\ IF file[f].st = "closed" \/ file[f].gone THEN Crash
       ELSE LET t == VfsSeek(Turn(f), disk[file[f].arch], k)
            IN IF ~t.ends THEN Crash
               ELSE /\ file' = [file EXCEPT ![f] =
                          [t.c EXCEPT !.sure = FALSE, !.got = <<>>]]
                    /\ Moved(file[f].arch, t.pos)
                    /\ UNCHANGED crashed
    /\ UNCHANGED <<disk, fileHash, link, order, clean, builds, mountings>>

-----------------------------------------------------------------------------
Init ==
    /\ disk \in Initial
    /\ archiveHash = <<>> /\ fileHash = <<>> /\ link = <<>> /\ order = <<>>
    /\ file = [f \in Files |-> NoObject]
    /\ clean = [a \in Archives |-> TRUE]
    /\ crashed = FALSE
    /\ builds = 0 /\ mountings = 0 /\ reads = 0

Names == {FullName(m, n) : m \in MountPoints, n \in DOMAIN Sources \cup Dirs}

Next ==
    /\ ~crashed
    /\ \/ \E a \in Archives :
             \/ \E names \in FileLists, append \in BOOLEAN : CreateCmd(a, names, append)
             \/ Truncate(a)
             \/ \E m \in MountPoints : Mount(a, m)
       \/ \E m \in MountPoints : Unmount(m)
       \/ \E f \in Files :
             \/ \E name \in Names : Open(f, name)
             \/ Close(f)
             \/ \E n \in Sizes : Read(f, n)
             \/ \E k \in 0..1 : Seek(f, k)

Spec == Init /\ [][Next]_vars

-----------------------------------------------------------------------------
(***************************************************************************)
(* Properties.                                                             *)
(***************************************************************************)
\* The virtual files of a name, the one mounted last first.
RECURSIVE Chain(_)
Chain(id) == IF id = NoId THEN <<>> ELSE <<id>> \o Chain(link[id].next)

Newest == FlattenSeq(Reverse([i \in DOMAIN order |->
              Reverse([j \in DOMAIN archiveHash[order[i]].files |-> <<order[i], j>>])]))

\* However archives are mounted over each other and unmounted, in whatever order, a name
\* finds the virtual file of the archive mounted last that has it, and through it the
\* older ones; the names and files of archives no longer mounted are gone.
NamesSound ==
    /\ DOMAIN link = UNION {Live(a) : a \in DOMAIN archiveHash}
    /\ DOMAIN fileHash = {NameOf(id) : id \in DOMAIN link}
    /\ \A name \in DOMAIN fileHash :
          LET chain == SelectSeq(Newest, LAMBDA id : NameOf(id) = name)
          IN /\ fileHash[name] = chain[1]
             /\ \A i \in DOMAIN chain :
                   link[chain[i]] = [next |-> IF i < Len(chain) THEN chain[i + 1] ELSE NoId,
                                     prev |-> IF i > 1 THEN chain[i - 1] ELSE NoId]

\* A file that is read and never positioned gives the bytes of its entry in order, whatever
\* is read through other objects from the same archive, over the same FILE, in between,
\* closed, or appended to the archive.
ReadsItsOwn ==
    \A f \in Files : file[f].st = "open" /\ file[f].sure => IsPrefix(file[f].got, file[f].own)

\* What is read through a name of a mounted archive is the file of the archive mounted
\* last, and of no other channel.
FilesSound == NamesSound /\ ReadsItsOwn

\* The table of an archive made by one create, or by another program, leads for every name
\* to a header with the sizes of that file and to its data, and what was in the file
\* before is in front of it, where truncate cuts.
ZipSound ==
    \A a \in Archives :
        clean[a] /\ disk[a] # NoFile /\ IsZip(disk[a]) /\ WellFormed(disk[a]) =>
            /\ \A i \in DOMAIN Entries(disk[a]) :
                  LET e == Entries(disk[a])[i]
                      head == CellAt(disk[a], e.iOffset)
                      src == IF e.isdir THEN <<>> ELSE Sources[e.name]
                  IN /\ head[1] = "head" /\ head[2] = Len(src)
                     /\ \A k \in 1..Len(src) :
                           CellAt(disk[a], e.iOffset + k) \in {Content(e.name, k), Plain(e.name, k)}
            /\ \A p \in 1..ZipStart(disk[a]) : disk[a][p] = Program
            /\ ZipStart(disk[a]) < Len(disk[a]) - 1 =>
                  CellAt(disk[a], ZipStart(disk[a]))[1] = "head"
=============================================================================
