------------------------------ MODULE MCLibrary ------------------------------
(***************************************************************************)
(* What commands and objects of scripts are built on is checked in one     *)
(* run: Websocket, its sessions in one part and its pages in another, the  *)
(* commands of File on names, File objects, signals, given by the          *)
(* constants, options and texts in JSON.  A behaviour is one of one part.  *)
(***************************************************************************)
EXTENDS Signals, Websocket, TLC

CONSTANT Missing

VARIABLES part,
          fs, chans, last,
          obj, chan, file, io, answer, meant,
          calls,     \* ops of the parts but signals; fault and slips are flaw and ways
          strict, record, specified, count, blocks, work, job, given, latest,
          mode, quoter, source, ahead, text, tokens, toksuper, token, index, status, parsed

ownVars == <<serverVars, sessionVars, callback, handlerVars, httpVars, frames, messageVars>>
nameVars == <<fs, chans, last>>
objectVars == <<obj, chan, file, io, answer, meant>>
optionVars == <<strict, record, specified, count, blocks, work, job, given, latest>>
flawVars == <<flaw, ways, calls>>
jsonVars == <<mode, quoter, source, ahead, text, tokens, toksuper, token, index, status, parsed>>

-----------------------------------------------------------------------------
\* Pages: the default one, a native file and a virtual one that both may have a handler.
Pages == {[root |-> TRUE, ext |-> "", quote |-> FALSE, file |-> "dir"],
          [root |-> FALSE, ext |-> "x", quote |-> FALSE, file |-> "native"],
          [root |-> FALSE, ext |-> "x", quote |-> TRUE, file |-> "virtual"]}
G == INSTANCE Websocket WITH Slots <- {1, 2}, Exts <- {"x"}, Values <- {"v"},
        Requests <- Pages, MaxConnects <- 0, MaxRedirects <- 1, MaxIds <- 1, MaxMsgs <- 0,
        MaxFrames <- 3, MaxHttp <- 2

-----------------------------------------------------------------------------
(* Hosts: a link to a file in a directory, a link to a directory, one in a directory that *)
(* may not be written, a link that leads nowhere with a directory that cannot be read.    *)

a == <<"a">>
b == <<"b">>
aa == <<"a", "a">>
ab == <<"a", "b">>
ba == <<"b", "a">>
bb == <<"b", "b">>
Dir(w, r) == [kind |-> "dir", ino |-> 0, to |-> <<>>, w |-> w, r |-> r]
File(i) == [kind |-> "file", ino |-> i, to |-> <<>>, w |-> TRUE, r |-> TRUE]
Link(p) == [kind |-> "link", ino |-> 0, to |-> p, w |-> TRUE, r |-> TRUE]
D == Dir(TRUE, TRUE)

Trees ==
    {(<<>> :> D) @@ (a :> D) @@ (aa :> D) @@ (ab :> File(1)) @@ (b :> File(2))
        @@ (<<"a", "a", "b">> :> Link(b)),
     (<<>> :> D) @@ (a :> D) @@ (ab :> Link(b)) @@ (aa :> File(1)) @@ (b :> D)
        @@ (bb :> File(1)) @@ (ba :> File(2)),
     (<<>> :> D) @@ (a :> Dir(FALSE, TRUE)) @@ (ab :> Link(b)) @@ (aa :> File(1)) @@ (b :> D)
        @@ (bb :> File(2)),
     (<<>> :> Dir(FALSE, TRUE)) @@ (a :> D) @@ (ab :> Dir(TRUE, FALSE)) @@ (aa :> Link(ba))
        @@ (b :> D) @@ (bb :> File(2)) @@ (<<"b", ".h">> :> File(1))}
Blocks == [i \in 1..3 |-> IF i = 1 THEN <<"p", "q">> ELSE IF i = 2 THEN <<"r">> ELSE <<>>]

All == {"?"}
Walk == [pat |-> {"a", "b", ".h"}, null |-> TRUE, recurse |-> TRUE, maxDepth |-> 0,
         tails |-> FALSE, types |-> All, notypes |-> All, max |-> 0, refuse |-> {},
         bar |-> {}, prefix |-> <<>>]
Walks == {Walk,
          [Walk EXCEPT !.pat = {"b"}, !.null = FALSE, !.notypes = {"l"}, !.prefix = <<"p">>],
          [Walk EXCEPT !.max = 1], [Walk EXCEPT !.tails = TRUE, !.refuse = {"b"}],
          [Walk EXCEPT !.maxDepth = 1, !.types = {"f", "l"}],
          [Walk EXCEPT !.bar = {"a"}, !.max = 2],
          [Walk EXCEPT !.recurse = FALSE, !.types = {"d"}]}

H == INSTANCE HostFiles WITH ops <- calls, Order <- <<"a", "b", ".h">>, Hidden <- {".h"},
        Paths <- {<<>>, a, b, aa, ab, bb},
        Hosts <- {[tree |-> t, data |-> Blocks] : t \in Trees},
        Globs <- Walks, MaxInos <- 3, MaxOps <- 2

O == INSTANCE FileObjects WITH want <- meant, fault <- flaw, slips <- ways, ops <- calls,
        Objs <- {"o1", "o2"}, Threads <- {"t1", "t2"},
        Chans <- {1, 2, 3}, Files <- [f |-> <<"1", "2", "3">>, g |-> Missing],
        Modes <- {"r", "w+", "a"}, BUFSIZ <- 2, MaxOps <- 3

-----------------------------------------------------------------------------
\* The lists of names that scripts give to the commands for signals.
SignalLists == {<<"s">>, <<"a", "s">>, <<"k", "?", "s">>}

-----------------------------------------------------------------------------
(* Options: a database with a record of options for its queries, names that begin alike, *)
(* and scripts that give some, none, null, too much, or what is refused in the middle.   *)

option(n, t) == [name |-> n, type |-> t, ro |-> FALSE, init |-> FALSE, list |-> <<>>]
DbSpecs ==
    [db |-> <<[option(<<"c", "n">>, "num") EXCEPT !.ro = TRUE], option(<<"d">>, "num"),
              option(<<"e", "x">>, "sub"), option(<<"m", "s">>, "wide"),
              [option(<<"m", "u">>, "enum") EXCEPT !.init = TRUE,
                  !.list = << <<"d">>, <<"n">>, <<"f">> >>],
              option(<<"n">>, "dstring"), option(<<"n", "p">>, "buf"),
              [option(<<"t">>, "bitset") EXCEPT !.list = << <<"e">>, <<"d">>, <<"p">> >>],
              [option(<<"v">>, "counted") EXCEPT !.init = TRUE]>>,
     exec |-> <<option(<<"c", "b">>, "counted"), option(<<"c", "d">>, "key"),
                option(<<"l">>, "num"),
                [option(<<"m">>, "enum") EXCEPT !.list = << <<"j">>, <<"j", "2">>, <<"r">> >>],
                option(<<"w">>, "verify")>>]

num(n) == [is |-> "num", val |-> n]
str(s) == [is |-> "str", val |-> s]
fun(i) == [is |-> "fun", id |-> i]
null == [is |-> "null", id |-> 3]
array(s) == [is |-> "arr", val |-> s]
member(n, v) == [name |-> n, val |-> v]
object(s) == [is |-> "obj", val |-> s]

Given ==
    <<null,
      object(<<member(<<"d">>, num(2)),
               member(<<"e">>, object(<<member(<<"c", "b">>, fun(1)),
                                        member(<<"m">>, str(<<"j">>))>>)),
               member(<<"v">>, fun(2))>>),
      object(<<member(<<"e">>, null), member(<<"d">>, num(1))>>),
      object(<<member(<<"d">>, num(3)),
               member(<<"e">>, object(<<member(<<"c", "d">>, str(<<"x">>)),
                                        member(<<"c">>, fun(2))>>)),
               member(<<"t">>, array(<< <<"p">>, <<"e">> >>))>>),
      object(<<member(<<"n">>, str(<<"a", "b", "c">>)), member(<<"n", "p">>, str(<<"a", "b", "c">>)),
               member(<<"m">>, num(1)), member(<<"m", "s">>, num(5)),
               member(<<"m", "u">>, str(<<"n">>))>>),
      object(<<member(<<"c", "b">>, fun(1)), member(<<"l">>, num(1)),
               member(<<"m">>, str(<<"r">>)), member(<<"z">>, num(1))>>),
      object(<<member(<<"c", "b">>, fun(2)), member(<<"m">>, str(<<"j", "2">>)),
               member(<<"w">>, array(<<>>))>>),
      object(<<member(<<"n">>, str(<<"a">>)), member(<<"c", "n">>, num(1))>>),
      object(<<member(<<"t">>, array(<< <<"d">>, <<"z">> >>))>>),
      object(<<member(<<"c", "b">>, null)>>)>>

P == INSTANCE Options WITH fault <- flaw, slips <- ways, ops <- calls, Records <- {"d1", "d2"}, Specs <- DbSpecs, Ids <- {1, 2, 3},
        Scripts <- Given, Uint <- 4, Size <- 3, Space <- 2, MaxOps <- 3

-----------------------------------------------------------------------------
(* Texts: pieces in every order, among them primitives that only one mode takes; and      *)
(* values, with empty ones in others, that are written and read back.                     *)

value(is, s, has) == [is |-> is, of |-> "", str |-> s, has |-> has]
text1 == [is |-> "prim", of |-> "1", str |-> <<>>, has |-> <<>>]
undefined == value("undefined", <<>>, <<>>)
quoted(s) == value("string", s, <<>>)
items(vs) == value("array", <<>>, [i \in DOMAIN vs |-> member(<<>>, vs[i])])
members(ms) == value("object", <<>>, ms)

Written ==
    {items(<<>>), items(<<text1, undefined, items(<<>>)>>),
     members(<<member(<<"a">>, quoted(<<"a", "{">>)), member(<<"b">>, undefined),
               member(<<"c">>, members(<<member(<<"a">>, quoted(<<"/", "newline">>))>>)),
               member(<<"d">>, members(<<>>))>>),
     items(<<members(<<member(<<"a">>, text1), member(<<"b">>, items(<<quoted(<<"bs">>)>>))>>),
             quoted(<<>>)>>),
     members(<<member(<<"a">>, undefined)>>)}

J == INSTANCE JsonText WITH strict <- mode, answer <- parsed,
        Prims <- {"1", "word", "1:1", "garbled", "undefined"}, Wild <- {"word", "undefined"},
        Garbled <- {"garbled"},
        Strings <- {<<"a">>, <<"dq", "/">>, <<"bs", "n">>, <<"newline", "e9">>,
                    <<"a", "a", "a", "a">>},
        Members <- Written, Chunk <- 3, MaxPieces <- 4

-----------------------------------------------------------------------------
NoSocket == /\ server = "none" /\ holds = {} /\ conn = [s \in Slots |-> "none"]
            /\ want = <<>> /\ pss = <<>> /\ table = {} /\ connectCnt = 0 /\ idx = 0
            /\ callback = "conf" /\ handlers = <<>> /\ refs = <<>> /\ redirCnt = 0
            /\ http = [odd |-> TRUE] /\ frames = <<>> /\ queued = <<>> /\ got = <<>>
NoHost == fs = <<>> /\ chans = 0 /\ last = <<>>
NoObjects == obj = <<>> /\ chan = <<>> /\ file = <<>> /\ io = <<>> /\ answer = <<>>
             /\ meant = <<>>
NoSignals == Init /\ original = [s \in Sigs |-> "dfl"]
NoOptions == /\ strict = FALSE /\ record = <<>> /\ specified = <<>> /\ count = <<>>
             /\ blocks = 0 /\ work = <<>> /\ job = <<>> /\ given = <<>> /\ latest = ""
NoJson == /\ mode = FALSE /\ quoter = "none" /\ source = <<>> /\ ahead = <<>> /\ text = <<>>
          /\ tokens = <<>> /\ toksuper = 0 /\ token = 0 /\ index = 0 /\ status = "none"
          /\ parsed = <<>>
NoFault == flaw = "none" /\ ways = {}
NoCalls == calls = 0

LibraryInit ==
    \/ part = "sessions" /\ SocketInit /\ NoHost /\ NoObjects /\ NoSignals /\ NoOptions /\ NoJson
         /\ NoCalls
    \/ part = "pages" /\ G!SocketInit /\ NoHost /\ NoObjects /\ NoSignals /\ NoOptions /\ NoJson
         /\ NoCalls
    \/ part = "names" /\ H!Init /\ NoSocket /\ NoObjects /\ NoSignals /\ NoOptions /\ NoJson
         /\ NoFault
    \/ part = "objects" /\ O!Init /\ NoSocket /\ NoHost /\ NoSignals /\ NoOptions /\ NoJson
    \/ part = "signals" /\ Init /\ NoSocket /\ NoHost /\ NoObjects /\ NoOptions /\ NoJson
         /\ NoFault /\ NoCalls
    \/ part = "options" /\ P!Init /\ NoSocket /\ NoHost /\ NoObjects /\ NoSignals /\ NoJson
    \/ part = "json" /\ J!Init /\ NoSocket /\ NoHost /\ NoObjects /\ NoSignals /\ NoOptions
         /\ NoFault /\ NoCalls

LibraryNext ==
    \/ /\ \/ part = "sessions" /\ SocketNext
          \/ part = "pages" /\ G!SocketNext
       /\ UNCHANGED <<part, nameVars, objectVars, vars, optionVars, jsonVars, calls>>
    \/ /\ part = "names" /\ H!Next
       /\ UNCHANGED <<part, ownVars, objectVars, vars, optionVars, jsonVars, flaw, ways>>
    \/ /\ part = "objects" /\ O!Next
       /\ UNCHANGED <<part, ownVars, nameVars, vars, optionVars, jsonVars>>
    \/ /\ part = "signals" /\ Next
       /\ UNCHANGED <<part, ownVars, nameVars, objectVars, optionVars, jsonVars, flawVars>>
    \/ /\ part = "options" /\ P!Next
       /\ UNCHANGED <<part, ownVars, nameVars, objectVars, vars, jsonVars>>
    \/ /\ part = "json" /\ J!Next
       /\ UNCHANGED <<part, ownVars, nameVars, objectVars, vars, optionVars, flawVars>>

allVars == <<part, ownVars, nameVars, objectVars, vars, optionVars, jsonVars, flawVars>>
LibrarySpec == LibraryInit /\ [][LibraryNext]_allVars

\* The properties of the other parts, under the names they have there.
HostSound == /\ part = "names" => H!HostSound
             /\ part = "objects" => O!ObjectsSound
             /\ part = "pages" => G!SocketSound
OptionsSound == part = "options" => P!OptionsSound
JsonSound == part = "json" => J!JsonSound
=============================================================================
