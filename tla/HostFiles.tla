----------------------------- MODULE HostFiles -----------------------------
(***************************************************************************)
(* The commands of File on names of the host (jsiFileCmds.c) over the      *)
(* native file system of jsiFilesys.c.                                     *)
(*                                                                         *)
(* The host is external: a tree of directories, files and symbolic links,  *)
(* files with their inodes, so that two names may be one file, directories *)
(* that may not be read or written.  A path is the sequence of its names   *)
(* from the root; a command is one step, and last remembers it with what   *)
(* there was before.                                                       *)
(***************************************************************************)
EXTENDS Integers, Sequences, FiniteSets, SequencesExt

CONSTANTS
    Order,      \* the names, in the order a directory may give them
    Hidden,     \* those that begin with a dot
    Paths,      \* the paths that scripts use
    Hosts,      \* what the host may have at first
    Globs,      \* the options of glob that are tried, see Options
    MaxInos, MaxOps   \* bounds

VARIABLES
    fs,      \* the host: tree, the node at each path, and data, the blocks of each inode
    chans,   \* channels that were opened and are not closed
    last,    \* auxiliary: the last command, its result and the host before it
    ops

vars == <<fs, chans, last, ops>>

Dir(w, r) == [kind |-> "dir", ino |-> 0, to |-> <<>>, w |-> w, r |-> r]
File(i)   == [kind |-> "file", ino |-> i, to |-> <<>>, w |-> TRUE, r |-> TRUE]
Link(p)   == [kind |-> "link", ino |-> 0, to |-> p, w |-> TRUE, r |-> TRUE]

Done(h) == [ok |-> TRUE, fs |-> h]
Fails(h) == [ok |-> FALSE, fs |-> h]

-----------------------------------------------------------------------------
(* The host.                                                               *)

Nowhere == [is |-> "nowhere", at |-> <<>>]

\* Where a path leads: to a node, to a free place in a directory, or nowhere.
RECURSIVE Walk(_, _, _, _, _)
Walk(t, at, rest, follow, fuel) ==
    IF rest = <<>> THEN [is |-> "there", at |-> at]
    ELSE LET p == Append(at, Head(rest)) IN
         IF t[at].kind # "dir" THEN Nowhere
         ELSE IF p \notin DOMAIN t
              THEN IF Len(rest) = 1 THEN [is |-> "free", at |-> p] ELSE Nowhere
         ELSE IF t[p].kind = "link" /\ (follow \/ Len(rest) > 1)
              THEN IF fuel = 0 THEN Nowhere
                   ELSE Walk(t, <<>>, t[p].to \o Tail(rest), follow, fuel - 1)
         ELSE Walk(t, p, Tail(rest), follow, fuel)

Stat(h, p)  == Walk(h.tree, <<>>, p, TRUE, 3)
Lstat(h, p) == Walk(h.tree, <<>>, p, FALSE, 3)
IsThere(w) == w.is = "there"
Node(h, w) == h.tree[w.at]
IsDir(h, w) == IsThere(w) /\ Node(h, w).kind = "dir"

Children(t, d) == {p \in DOMAIN t : p # <<>> /\ Front(p) = d}
Under(t, d) == {p \in DOMAIN t : IsPrefix(d, p)}
Without(t, S) == [p \in DOMAIN t \ S |-> t[p]]
MayChange(h, at) == at # <<>> /\ h.tree[Front(at)].w
Free(h) == (1..MaxInos) \ {h.tree[p].ino : p \in DOMAIN h.tree}

\* remove(3): the name itself goes, a directory only when it is empty.
HostRemove(h, p) ==
    LET w == Lstat(h, p) IN
    IF IsThere(w) /\ MayChange(h, w.at) /\ Children(h.tree, w.at) = {}
    THEN Done([h EXCEPT !.tree = Without(@, {w.at})]) ELSE Fails(h)

\* A new node at a free place.
HostMake(h, at, node) == Done([h EXCEPT !.tree = (at :> node) @@ @])

HostMkdir(h, p) ==
    LET w == Lstat(h, p) IN
    IF w.is = "free" /\ MayChange(h, w.at) THEN HostMake(h, w.at, Dir(TRUE, TRUE))
    ELSE Fails(h)

\* rename(2): what was at the new name goes, unless both are one file.
HostRename(h, src, dst) ==
    LET s == Lstat(h, src)  d == Lstat(h, dst)
        same == IsThere(d) /\ (d.at = s.at \/ (Node(h, s).kind = "file"
                                  /\ Node(h, d).kind = "file" /\ Node(h, s).ino = Node(h, d).ino))
        fits == \/ d.is = "free"
                \/ /\ IsThere(d)
                   /\ (Node(h, s).kind = "dir") = (Node(h, d).kind = "dir")
                   /\ Children(h.tree, d.at) = {}
        rest == Without(h.tree, Under(h.tree, s.at) \cup {d.at})
        moved == {d.at \o SubSeq(p, Len(s.at) + 1, Len(p)) : p \in Under(h.tree, s.at)}
    IN IF ~IsThere(s) \/ d.is = "nowhere" \/ s.at = <<>> \/ d.at = <<>> THEN Fails(h)
       ELSE IF same THEN Done(h)
       ELSE IF ~MayChange(h, s.at) \/ ~MayChange(h, d.at) \/ ~fits \/ IsPrefix(s.at, d.at)
            THEN Fails(h)
       ELSE Done([h EXCEPT !.tree =
                    [p \in moved |-> h.tree[s.at \o SubSeq(p, Len(d.at) + 1, Len(p))]] @@ rest])

HostLink(h, src, dst, hard) ==
    LET s == Lstat(h, src)  d == Lstat(h, dst) IN
    IF d.is # "free" \/ ~MayChange(h, d.at) THEN Fails(h)
    ELSE IF ~hard THEN HostMake(h, d.at, Link(src))
    ELSE IF IsThere(s) /\ Node(h, s).kind # "dir" THEN HostMake(h, d.at, Node(h, s))
    ELSE Fails(h)

-----------------------------------------------------------------------------
(* Jsi_Open on a native file, and what the commands do with the channel.   *)

\* The inode a name opens; 0 when Jsi_Open or fopen fails.  A name that is free is made
\* when the mode writes.
Opens(h, p, mode) ==
    LET w == Stat(h, p) IN
    IF IsDir(h, w) \/ w.is = "nowhere" THEN [ino |-> 0, fs |-> h]
    ELSE IF IsThere(w)
         THEN LET i == Node(h, w).ino IN
              [ino |-> i, fs |-> IF mode = "w" THEN [h EXCEPT !.data[i] = <<>>] ELSE h]
    ELSE IF mode \in {"w", "a"} /\ MayChange(h, w.at) /\ Free(h) # {}
         THEN LET i == CHOOSE n \in Free(h) : TRUE IN
              [ino |-> i,
               fs |-> [h EXCEPT !.tree = (w.at :> File(i)) @@ @, !.data[i] = <<>>]]
    ELSE [ino |-> 0, fs |-> h]

\* Trouble: reading or writing gives an error after so many blocks, or never (at 9).
Trouble == {[in |-> "none", at |-> 9], [in |-> "read", at |-> 1], [in |-> "write", at |-> 1]}
Upto(s, n) == IF n < Len(s) THEN SubSeq(s, 1, n) ELSE s

\* FileReadCmd: an error ends the text as the end of the file does.
FileRead(h, p, bad) ==
    LET o == Opens(h, p, "r") IN
    IF o.ino = 0 THEN [ok |-> FALSE, value |-> <<>>]
    ELSE [ok |-> TRUE,
          value |-> IF bad.in = "read" THEN Upto(h.data[o.ino], bad.at) ELSE h.data[o.ino]]

\* FileWriteCmd returns what it could write.
FileWrite(h, p, text, mode, bad) ==
    LET o == Opens(h, p, mode)
        put == IF bad.in = "write" THEN Upto(text, bad.at) ELSE text
    IN IF o.ino = 0 THEN Fails(h) @@ [value |-> 0]
       ELSE Done([o.fs EXCEPT !.data[o.ino] = @ \o put]) @@ [value |-> Len(put)]

FileTruncate(h, p, size) ==
    LET o == Opens(h, p, "r") IN
    IF o.ino = 0 THEN Fails(h)
    ELSE Done([h EXCEPT !.data[o.ino] =
                 [i \in 1..size |-> IF i <= Len(@) THEN @[i] ELSE "zero"]])

\* Jsi_Access(F_OK), and FileExistsCmd, which is stat and lstat.
Exists(h, p) == IsThere(Stat(h, p))

\* FileCopy: the source is read after the destination was emptied, and an error of reading
\* is the end of the file.  The channel of the source is not closed when that of the
\* destination cannot be opened.
FileCopy(h, src, dst, bad) ==
    LET i == Opens(h, src, "r")
        o == Opens(i.fs, dst, "w")
        from == o.fs.data[i.ino]
    IN IF i.ino = 0 THEN Fails(h) @@ [left |-> 0]
       ELSE IF o.ino = 0 THEN Fails(h) @@ [left |-> 1]
       ELSE [ok |-> ~(bad.in = "write" /\ bad.at < Len(from)), left |-> 0,
             fs |-> [o.fs EXCEPT !.data[o.ino] = Upto(from, bad.at)]]

\* FileCopyCmd and FileRenameCmd ask first whether there is something already.
FileCopyCmd(h, src, dst, force, bad) ==
    IF ~force /\ Exists(h, dst) THEN Fails(h) @@ [left |-> 0] ELSE FileCopy(h, src, dst, bad)

FileRenameCmd(h, src, dst, force) ==
    IF ~force /\ Exists(h, dst) THEN Fails(h) ELSE HostRename(h, src, dst)

-----------------------------------------------------------------------------
(* Removal.                                                                *)

\* Faulty: a link to a directory is entered.
RECURSIVE RmdirAllThrough(_, _, _)
RmdirAllThrough(h, p, force) ==
    LET d == Stat(h, p)
        Entry(c, r) ==
            LET q == Append(p, Last(c))
                s == IF IsDir(r.fs, Stat(r.fs, q)) THEN RmdirAllThrough(r.fs, q, force)
                     ELSE HostRemove(r.fs, q)
            IN [ok |-> r.ok /\ s.ok, fs |-> s.fs]
        all == FoldSet(Entry, Done(h), Children(h.tree, d.at))
    IN IF ~IsDir(h, d) \/ ~Node(h, d).r THEN [ok |-> force, fs |-> h]
       ELSE [ok |-> all.ok, fs |-> HostRemove(all.fs, p).fs]

\* RmdirAll: every entry goes, directories (not links to some) with all they have, and then
\* the directory; what cannot be removed is reported, the directory itself is not.
RECURSIVE RmdirAll(_, _, _)
RmdirAll(h, p, force) ==
    LET d == Stat(h, p)
        Entry(c, r) ==
            LET q == Append(p, Last(c))
                s == IF h.tree[c].kind = "dir" THEN RmdirAll(r.fs, q, force)
                     ELSE HostRemove(r.fs, q)
            IN [ok |-> r.ok /\ s.ok, fs |-> s.fs]
        all == FoldSet(Entry, Done(h), Children(h.tree, d.at))
    IN IF ~IsDir(h, d) \/ ~Node(h, d).r THEN [ok |-> force, fs |-> h]
       ELSE [ok |-> all.ok, fs |-> HostRemove(all.fs, p).fs]

FileRemoveCmd(h, p, force) ==
    LET w == Stat(h, p)  r == HostRemove(h, p) IN
    IF p = <<>> THEN Fails(h)
    ELSE IF ~IsThere(w) THEN [ok |-> force, fs |-> h]
    ELSE IF r.ok THEN r
    ELSE IF ~IsDir(h, w) THEN [ok |-> force, fs |-> h]
    ELSE IF ~force THEN Fails(h)
    ELSE RmdirAll(h, p, force)

-----------------------------------------------------------------------------
(* File.glob.                                                              *)

\* pat: the names that match; null: no pattern was given; types and notypes: letters, or
\* NoTypes; keep, into: what func and dirfunc refuse; prefix: <<>> for none.
NoTypes == {"?"}
Options == [pat : SUBSET Range(Order), null : BOOLEAN, recurse : BOOLEAN, maxDepth : Int,
            tails : BOOLEAN, types : SUBSET {"d", "f", "l", "?"},
            notypes : SUBSET {"d", "f", "l", "?"}, max : Int,
            refuse : SUBSET Range(Order), bar : SUBSET Range(Order), prefix : Seq(STRING)]

Letter(n) == CASE n.kind = "dir" -> "d" [] n.kind = "file" -> "f" [] n.kind = "link" -> "l"

\* Whether an entry is listed (a directory after it was entered).
Listed(n, name, o) ==
    /\ ~(n.kind = "dir" /\ o.types = NoTypes /\ o.notypes # NoTypes /\ ~o.null)
    /\ o.types # NoTypes => Letter(n) \in o.types
    /\ o.notypes # NoTypes => Letter(n) \notin o.notypes
    /\ name \in o.pat /\ name \notin o.refuse

Entries(h, d, up) ==
    LET all == SelectSeq(Order, LAMBDA n : Append(d, n) \in DOMAIN h.tree)
    IN IF up THEN all ELSE Reverse(all)

\* SubGlobDirectory: a walk that adds to list; prefix is <<>> for NULL, and the empty text
\* is <<"">>.  At max the walk of this directory ends, that of the one around it goes on.
RECURSIVE SubGlob(_, _, _, _, _, _, _)
SubGlob(h, d, prefix, o, deep, up, list) ==
    LET Entry(acc, name) ==
            LET at == Append(d, name)  n == h.tree[at]
                enters == n.kind = "dir" /\ o.recurse /\ (o.maxDepth <= 0 \/ deep + 1 <= o.maxDepth)
                inner == IF o.tails THEN <<"">> ELSE Append(prefix, name)
                sub == IF enters THEN SubGlob(h, at, inner, o, deep + 1, up, acc.list)
                       ELSE [ok |-> TRUE, list |-> acc.list]
            IN IF acc.stop \/ ~acc.ok \/ name \in Hidden THEN acc
               ELSE IF enters /\ name \in o.bar THEN acc
               ELSE IF ~sub.ok THEN [acc EXCEPT !.ok = FALSE]
               ELSE IF ~Listed(n, name, o) THEN [acc EXCEPT !.list = sub.list]
               ELSE [acc EXCEPT !.list = Append(sub.list, Append(prefix, name)),
                                !.stop = o.max > 0 /\ Len(sub.list) + 1 >= o.max]
        all == FoldLeft(Entry, [ok |-> TRUE, list |-> list, stop |-> FALSE], Entries(h, d, up))
    IN IF ~h.tree[d].r THEN [ok |-> FALSE, list |-> list]
       ELSE [ok |-> all.ok, list |-> all.list]

FileGlobCmd(h, p, o, up) ==
    LET d == Stat(h, p) IN
    IF ~IsDir(h, d) THEN [ok |-> FALSE, list |-> <<>>]
    ELSE LET r == SubGlob(h, d.at, o.prefix, o, 0, up, <<>>)
         IN IF r.ok THEN r ELSE [ok |-> FALSE, list |-> <<>>]

-----------------------------------------------------------------------------
Init ==
    /\ fs \in Hosts
    /\ chans = 0 /\ ops = 0
    /\ last = [cmd |-> "none"]

Did(r, call) ==
    /\ ops < MaxOps /\ ops' = ops + 1
    /\ fs' = r.fs
    /\ last' = call @@ [ok |-> r.ok, before |-> fs]

RemoveName == \E p \in Paths, force \in BOOLEAN :
    /\ Did(FileRemoveCmd(fs, p, force), [cmd |-> "remove", src |-> p, force |-> force])
    /\ UNCHANGED chans

Rename == \E p, q \in Paths, force \in BOOLEAN :
    /\ Did(FileRenameCmd(fs, p, q, force), [cmd |-> "rename", src |-> p, dst |-> q, force |-> force])
    /\ UNCHANGED chans

Copy == \E p, q \in Paths, force \in BOOLEAN, bad \in Trouble :
    LET r == FileCopyCmd(fs, p, q, force, bad) IN
    /\ Did(r, [cmd |-> "copy", src |-> p, dst |-> q, force |-> force, bad |-> bad,
               left |-> r.left])
    /\ chans' = chans + r.left

MakeLink == \E p, q \in Paths, hard \in BOOLEAN :
    /\ Did(HostLink(fs, p, q, hard), [cmd |-> "link", src |-> p, dst |-> q])
    /\ UNCHANGED chans

Mkdir == \E p \in Paths :
    /\ Did(HostMkdir(fs, p), [cmd |-> "mkdir", dst |-> p])
    /\ UNCHANGED chans

Write == \E p \in Paths, mode \in {"w", "a"}, bad \in Trouble :
    LET r == FileWrite(fs, p, <<"x", "y">>, mode, bad) IN
    /\ Did(r, [cmd |-> "write", dst |-> p, mode |-> mode, value |-> r.value])
    /\ UNCHANGED chans

Read == \E p \in Paths, bad \in Trouble :
    LET r == FileRead(fs, p, bad) IN
    /\ Did([ok |-> r.ok, fs |-> fs], [cmd |-> "read", src |-> p, bad |-> bad, value |-> r.value])
    /\ UNCHANGED chans

Truncate == \E p \in Paths, size \in {0, 1, 3} :
    /\ Did(FileTruncate(fs, p, size), [cmd |-> "truncate", dst |-> p, size |-> size])
    /\ UNCHANGED chans

Glob == \E p \in Paths, o \in Globs, up \in BOOLEAN :
    LET r == FileGlobCmd(fs, p, o, up) IN
    /\ Did([ok |-> r.ok, fs |-> fs], [cmd |-> "glob", src |-> p, opts |-> o, value |-> r.list])
    /\ UNCHANGED chans

Next == RemoveName \/ Rename \/ Copy \/ MakeLink \/ Mkdir \/ Write \/ Read \/ Truncate \/ Glob

Spec == Init /\ [][Next]_vars

-----------------------------------------------------------------------------
\* Every node is in a directory, every file has its data.
TypeOK ==
    /\ ops \in 0..MaxOps /\ chans \in 0..MaxOps
    /\ <<>> \in DOMAIN fs.tree
    /\ \A p \in DOMAIN fs.tree : p # <<>> => Front(p) \in DOMAIN fs.tree
                                             /\ fs.tree[Front(p)].kind = "dir"
    /\ DOMAIN fs.data = 1..MaxInos

Was == last.before
Same(S) == \A p \in S : p \in DOMAIN fs.tree /\ fs.tree[p] = Was.tree[p]

\* remove takes away what the name stands for and what is below it, never what a link in
\* it leads to; unforced it takes one thing or nothing, and says which; forced, what it
\* left is what cannot be removed or read, or leads nowhere.  (When the name is a link to a
\* directory and cannot be removed, the directory it leads to is emptied.)
RemoveSound ==
    last.cmd = "remove" =>
        LET w == Lstat(Was, last.src)
            below == IF IsThere(w) THEN Under(Was.tree, w.at) ELSE {}
            left == below \cap DOMAIN fs.tree
            slip == IsThere(w) /\ Node(Was, w).kind = "link" /\ ~MayChange(Was, w.at)
        IN /\ DOMAIN fs.tree \subseteq DOMAIN Was.tree /\ fs.data = Was.data
           /\ ~slip => Same(DOMAIN Was.tree \ below) /\ Same(left)
           /\ ~last.force =>
                 IF last.ok THEN left = {} /\ Cardinality(below) = 1 ELSE left = below
           /\ last.force /\ last.ok =>
                 \A p \in left : \/ ~MayChange(Was, p)
                                 \/ \E q \in left : q # p /\ IsPrefix(p, q)
                                 \/ fs.tree[p].kind = "dir" /\ ~fs.tree[p].r
                                 \/ ~Exists(Was, last.src)
                                 \/ last.src = <<>>

\* rename moves a whole tree and changes nothing else; unforced it replaces nothing but a
\* link that leads nowhere; if it fails nothing has changed.
RenameSound ==
    last.cmd = "rename" =>
        LET s == Lstat(Was, last.src)  d == Lstat(Was, last.dst) IN
        /\ fs.data = Was.data
        /\ ~last.ok => fs = Was
        /\ last.ok /\ fs # Was =>
              /\ Under(fs.tree, s.at) = {}
              /\ {SubSeq(p, Len(d.at) + 1, Len(p)) : p \in Under(fs.tree, d.at)}
                   = {SubSeq(p, Len(s.at) + 1, Len(p)) : p \in Under(Was.tree, s.at)}
              /\ Same(DOMAIN Was.tree \ (Under(Was.tree, s.at) \cup {d.at}))
              /\ ~last.force /\ IsThere(d) => Node(Was, d).kind = "link"

\* copy makes the one file equal to the other, and touches no third one; unforced it
\* replaces nothing.  (Copied onto itself, a file is emptied; an error of reading is taken
\* for the end.)
CopySound ==
    last.cmd = "copy" =>
        LET i == Opens(Was, last.src, "r").ino
            o == Opens(fs, last.dst, "r").ino
            old == Opens(Was, last.dst, "r").ino
        IN /\ Same(DOMAIN Was.tree)
           /\ \A n \in 1..MaxInos : n # o => fs.data[n] = Was.data[n]
           /\ ~last.force /\ old # 0 => ~last.ok /\ fs = Was
           /\ last.ok /\ last.bad.in # "read" =>
                 IF i = o THEN fs.data[o] = <<>> ELSE fs.data[o] = Was.data[i]
           /\ last.left = 1 => ~last.ok /\ fs = Was

\* What was written is read, and through every name of the file; what exists and is no
\* directory can be read, and nothing else.
ReadSound ==
    /\ last.cmd = "read" =>
          LET w == Stat(fs, last.src) IN
          /\ last.ok = (Exists(fs, last.src) /\ ~IsDir(fs, w))
          /\ last.ok => IsPrefix(last.value, fs.data[Node(fs, w).ino])
          /\ last.ok /\ last.bad.in # "read" => last.value = fs.data[Node(fs, w).ino]
    /\ last.cmd = "write" /\ last.ok =>
          LET i == Node(fs, Stat(fs, last.dst)).ino
              w == Stat(Was, last.dst)
              old == IF last.mode = "a" /\ IsThere(w) THEN Was.data[i] ELSE <<>>
          IN fs.data[i] = old \o SubSeq(<<"x", "y">>, 1, last.value)
    /\ last.cmd \in {"link", "mkdir"} => Same(DOMAIN Was.tree) /\ fs.data = Was.data
    /\ last.cmd = "truncate" /\ last.ok =>
          Len(fs.data[Node(fs, Stat(fs, last.dst)).ino]) = last.size

\* glob lists each entry that the options allow, once, down to maxDepth and through no
\* link; with max the first of them, one more at most for each directory around the last.
\* (With tails, what is found below begins with a slash.)
GlobSound ==
    last.cmd = "glob" /\ last.ok =>
        LET o == last.opts  d == Stat(fs, last.src).at
            rel(p) == SubSeq(p, Len(d) + 1, Len(p))
            all == {p \in Under(fs.tree, d) \ {d} :
                      /\ Len(rel(p)) > 1 => o.recurse
                      /\ o.maxDepth > 0 => Len(rel(p)) <= o.maxDepth + 1
                      /\ \A i \in DOMAIN rel(p) : rel(p)[i] \notin Hidden
                      /\ \A i \in DOMAIN Front(rel(p)) : rel(p)[i] \notin o.bar
                      /\ fs.tree[p].kind = "dir" /\ o.recurse
                           /\ (o.maxDepth <= 0 \/ Len(rel(p)) <= o.maxDepth)
                         => Last(p) \notin o.bar
                      /\ Listed(fs.tree[p], Last(p), o)}
            named(p) == IF Len(rel(p)) = 1 \/ ~o.tails THEN o.prefix \o rel(p)
                        ELSE <<"", Last(p)>>
            got == {last.value[i] : i \in DOMAIN last.value}
        IN /\ got \subseteq {named(p) : p \in all}
           /\ Len(last.value) <= Cardinality(all)
           /\ ~o.tails => Cardinality(got) = Len(last.value)
           /\ o.max <= 0 => Len(last.value) = Cardinality(all)
           /\ o.max > 0 => Len(last.value) >= (IF o.max < Cardinality(all) THEN o.max
                                               ELSE Cardinality(all))
           /\ o.max > 0 => Len(last.value) < o.max + 3

HostSound == TypeOK /\ RemoveSound /\ RenameSound /\ CopySound /\ ReadSound /\ GlobSound
=============================================================================
