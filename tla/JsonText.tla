------------------------------ MODULE JsonText ------------------------------
(***************************************************************************)
(* Texts in JSON: the parser of tokens (jsmn_parse in jsmn.c), the values  *)
(* made of its tokens (jsiJSON.c) and the writers of strings and values    *)
(* (Jsi_JSONQuote; jsiValueGetString in jsiUtils.c), which also carry      *)
(* values from one interp to another.                                      *)
(*                                                                         *)
(* A text is a sequence of pieces: brackets, ":", ",", spaces, primitives  *)
(* and strings.  Either it is read as it comes, piece by piece, or a value *)
(* was written and is read back.  A primitive is followed by what ends it. *)
(***************************************************************************)
EXTENDS Integers, Sequences, FiniteSets, SequencesExt

CONSTANTS
    Prims,      \* the primitives, by name
    Wild,       \* those of them that begin with a letter of no JSON primitive
    Garbled,    \* those with a character that is not printable
    Strings,    \* the strings, sequences of characters
    Members,    \* the values that are written
    Chunk,      \* the characters of a string that are decoded at once
    MaxPieces   \* bound on a text that is read as it comes

VARIABLES
    strict, quoter,   \* JSI_JSON_STRICT, and which of the two writes the strings
    source,           \* the value that was written, if one was
    ahead,            \* the rest of its text
    text,             \* what was read
    tokens,           \* the tokens: type, where they begin and end, what they hold
    toksuper, token, index,   \* the innermost that is open, "token", the last that was opened
    status,           \* "reading", "error", "fault" or "done"
    answer            \* the value

state == <<text, tokens, toksuper, token, index, status, answer>>
vars == <<strict, quoter, source, ahead, state>>

-----------------------------------------------------------------------------
(* Strings.  "bs" is a backslash, "dq" a quote; "u:" and a character four digits after \u. *)

Escapes == [n |-> "newline", bs |-> "bs"]

\* A character of several bytes, and its four digits.
EncodeUtf == [e9 |-> "u:e9"]
DecodeUtf(c) == CASE c = EncodeUtf["e9"] -> "e9"
                  [] c = "u:0" -> "zero"
                  [] OTHER -> c

\* Jsi_JSONQuote, and jsiValueGetString, which leaves backslashes alone and writes a
\* character of several bytes as so many characters.
QuotedChar(q, c) ==
    CASE c = "dq" -> <<"bs", "dq">>
      [] c = "newline" -> <<"bs", "n">>
      [] c \in {"bs", "/"} -> IF q = "quote" THEN <<"bs", c>> ELSE <<c>>
      [] c = "e9" -> IF q = "quote" THEN <<"bs", EncodeUtf[c]>> ELSE <<"bs", "u:c3", "bs", "u:a9">>
      [] OTHER -> <<c>>
Quoted(q, str) == FlattenSeq([i \in DOMAIN str |-> QuotedChar(q, str[i])])

IsHex(c) == c \in {"u:e9", "u:c3", "u:a9", "u:0"}
\* How jsmn_parse_string gets through what is between the quotes: what follows a backslash
\* is to be an escape.
Scanned(raw) ==
    FoldLeft(LAMBDA s, c :
        CASE s \notin {"text", "escape"} -> s
          [] s = "escape" -> IF c \in {"dq", "/", "bs", "b", "f", "r", "n", "t"} \/ IsHex(c)
                             THEN "text" ELSE "invalid"
          [] c = "bs" -> "escape"
          [] c = "dq" -> "ended"
          [] OTHER -> "text",
        "text", raw)

\* jsonNewStringObj: a quote and a slash are no escapes to it, and stand for nothing.
Unescape(c) == CASE c = "n" -> <<"newline">>
                 [] c = "bs" -> <<"bs">>
                 [] IsHex(c) -> <<DecodeUtf(c)>>
                 [] OTHER -> <<>>
\* What is decoded is added to the string a chunk at a time, up to the first zero in it.
UpToZero(buf) == SelectSeq([i \in DOMAIN buf |->
                              IF \E j \in 1..i : buf[j] = "zero" THEN "cut" ELSE buf[i]],
                           LAMBDA c : c # "cut")
Decoded(raw) ==
    LET step(s, c) ==
            LET buf == IF s.esc THEN s.buf \o Unescape(c)
                       ELSE IF c = "bs" THEN s.buf ELSE Append(s.buf, c)
                esc == ~s.esc /\ c = "bs"
            IN IF Len(buf) > Chunk /\ ~esc
               THEN [out |-> s.out \o UpToZero(buf), buf |-> <<>>, esc |-> FALSE]
               ELSE [out |-> s.out, buf |-> buf, esc |-> esc]
        end == FoldLeft(step, [out |-> <<>>, buf |-> <<>>, esc |-> FALSE], raw)
    IN end.out \o UpToZero(end.buf)

-----------------------------------------------------------------------------
(* Values and pieces. *)

Value(is, of, str, has) == [is |-> is, of |-> of, str |-> str, has |-> has]
Prim(of) == Value("prim", of, <<>>, <<>>)
Str(str) == Value("string", "", str, <<>>)
Undefined == Value("undefined", "", <<>>, <<>>)
Null == Prim("null")

Piece(is) == [is |-> is, of |-> "", raw |-> <<>>, str |-> <<>>]
PrimPiece(of) == [Piece("prim") EXCEPT !.of = of]
StringPiece(str) == [Piece("string") EXCEPT !.raw = Quoted(quoter, str), !.str = str]

\* jsiValueGetString.  Members of an object that are undefined are left out, items of an
\* array are not; a name is written as it is, and after a string that ends with a brace the
\* comma is forgotten.
RECURSIVE Written(_)
Written(v) ==
    CASE v.is = "prim" -> <<PrimPiece(v.of)>>
      [] v.is = "undefined" -> <<PrimPiece("undefined")>>
      [] v.is = "string" -> <<StringPiece(v.str)>>
      [] v.is = "array" ->
            <<Piece("["), Piece(" ")>>
              \o FlattenSeq([i \in DOMAIN v.has |->
                    (IF i > 1 THEN <<Piece(","), Piece(" ")>> ELSE <<>>) \o Written(v.has[i].val)])
              \o <<Piece(" "), Piece("]")>>
      [] OTHER ->
            LET there == SelectSeq(v.has, LAMBDA m : m.val.is # "undefined")
                brace(i) == there[i].val.is = "string" /\ there[i].val.str # <<>>
                            /\ Last(there[i].val.str) = "{"
            IN <<Piece("{"), Piece(" ")>>
                 \o FlattenSeq([i \in DOMAIN there |->
                      (IF i > 1 /\ ~brace(i - 1) THEN <<Piece(","), Piece(" ")>> ELSE <<>>)
                        \o <<[Piece("string") EXCEPT !.raw = there[i].name, !.str = there[i].name],
                             Piece(":")>>
                        \o Written(there[i].val)])
                 \o <<Piece(" "), Piece("}")>>

\* A text from anywhere is parsed; or JSON.stringify() writes a value.
Comes == source = Undefined /\ ahead = <<>>
Stringify == source \in Members /\ ahead = Written(source)

Init ==
    /\ strict \in BOOLEAN /\ quoter \in {"quote", "string"}
    /\ Comes \/ Stringify
    /\ text = <<>> /\ tokens = <<>> /\ toksuper = 0 /\ token = 0 /\ index = 0
    /\ status = "reading" /\ answer = Undefined

-----------------------------------------------------------------------------
(* jsmn_parse. *)

\* The next piece, of the value that was written or any.
Reads(p) ==
    /\ status = "reading"
    /\ IF source = Undefined THEN Len(text) < MaxPieces /\ UNCHANGED ahead
       ELSE ahead # <<>> /\ p = Head(ahead) /\ ahead' = Tail(ahead)
    /\ text # <<>> /\ Last(text).is = "prim" =>
          p.is \in {"}", "]", ",", " "} \cup (IF strict THEN {} ELSE {":"})
    /\ text' = Append(text, p)
    /\ UNCHANGED <<strict, quoter, source, answer>>

Errs == status' = "error" /\ UNCHANGED <<tokens, toksuper, token, index>>
TypeOf(b) == IF b \in {"{", "}"} THEN "object" ELSE "array"
\* Faulty: what a token holds is not counted.
HolderUncounted == tokens

Holder == [i \in DOMAIN tokens |-> IF i = toksuper THEN [tokens[i] EXCEPT !.size = @ + 1]
                                   ELSE tokens[i]]
Token(type, p) == [type |-> type, start |-> Len(text) + 1, end |-> Len(text) + 1, size |-> 0,
                   piece |-> p]

Open(b) ==
    /\ Reads(Piece(b))
    /\ tokens' = Append(Holder, [Token(TypeOf(b), Piece(b)) EXCEPT !.end = 0])
    /\ toksuper' = Len(tokens) + 1 /\ token' = Len(tokens) + 1 /\ index' = Len(tokens) + 1
    /\ UNCHANGED status

Opened == {i \in DOMAIN tokens : tokens[i].end = 0}
Newest(S) == IF S = {} THEN 0 ELSE CHOOSE i \in S : \A j \in S : j <= i

Close(b) ==
    /\ Reads(Piece(b))
    /\ LET i == Newest(Opened) IN
       IF i = 0 \/ (i # 0 /\ tokens[i].type # TypeOf(b)) THEN Errs
       ELSE /\ tokens' = [tokens EXCEPT ![i].end = Len(text) + 1]
            /\ toksuper' = Newest(Opened \ {i})
            /\ token' = IF toksuper' = 0 THEN 1 ELSE toksuper'
            /\ UNCHANGED <<index, status>>

\* A string or a primitive; "token" becomes what was opened last, closed or not.
Leaf(type, p) ==
    /\ tokens' = Append(Holder, Token(type, p))
    /\ token' = IF index = 0 THEN token ELSE index
    /\ UNCHANGED <<toksuper, index, status>>

String(p) ==
    /\ p.is = "string" /\ Scanned(p.raw) # "ended"
    /\ Reads(p)
    /\ IF Scanned(p.raw) = "text" THEN Leaf("string", p) ELSE Errs

\* In strict mode ":" does not end a primitive, and the end of the text must not.
Primitive(of) ==
    /\ Reads(PrimPiece(of)) /\ (of = "1:1" => strict)
    /\ IF of \in Garbled \/ (strict /\ of \in Wild) THEN Errs ELSE Leaf("prim", PrimPiece(of))

\* ":" goes on as ",".  Strict mode looks at "token", also when there is none.
Separator(b) ==
    /\ Reads(Piece(b))
    /\ IF ~strict THEN UNCHANGED <<tokens, toksuper, token, index, status>>
       ELSE IF token = 0 THEN status' = "fault" /\ UNCHANGED <<tokens, toksuper, token, index>>
       ELSE IF \/ /\ b = ":" /\ tokens[token].type # "object"
                  /\ (toksuper = 0 \/ (toksuper # 0 /\ tokens[toksuper].type # "object"))
               \/ tokens[token].type \notin {"array", "object"}
       THEN Errs ELSE UNCHANGED <<tokens, toksuper, token, index, status>>

Space == Reads(Piece(" ")) /\ UNCHANGED <<tokens, toksuper, token, index, status>>

-----------------------------------------------------------------------------
(* The values of tokens. *)

\* What a token gives as a name: its text as it is.
Name(t) == IF t.type = "string" THEN t.piece.raw ELSE <<t.piece.of, t.type>>

\* Jsi_ObjInsert: a member of a name there is gets the value.
Insert(has, name, val) ==
    IF \E i \in DOMAIN has : has[i].name = name
    THEN [i \in DOMAIN has |-> IF has[i].name = name THEN [has[i] EXCEPT !.val = val] ELSE has[i]]
    ELSE Append(has, [name |-> name, val |-> val])

Got(val, last, over) == [val |-> val, last |-> last, over |-> over]

RECURSIVE Gen1Value(_), GenArray(_, _, _, _, _), GenObject(_, _, _, _, _)
\* The value at a token, with the last token it took; over: there was none.
Gen1Value(i) ==
    IF i > Len(tokens) THEN Got(Undefined, i, TRUE)
    ELSE CASE tokens[i].type = "prim" ->
                Got(IF tokens[i].piece.of = "undefined" THEN Null ELSE Prim(tokens[i].piece.of),
                    i, FALSE)
           [] tokens[i].type = "string" -> Got(Str(Decoded(tokens[i].piece.raw)), i, FALSE)
           [] tokens[i].type = "array" -> GenArray(i, i + 1, 0, <<>>, FALSE)
           [] OTHER -> GenObject(i, i + 1, 0, <<>>, FALSE)

GenArray(at, i, n, has, over) ==
    IF i > Len(tokens) \/ n >= tokens[at].size
    THEN Got(Value("array", "", <<>>, has), i - 1, over)
    ELSE LET r == Gen1Value(i) IN
         GenArray(at, r.last + 1, n + 1, Append(has, [name |-> <<>>, val |-> r.val]),
                  over \/ r.over)

\* A name without a value has none, and takes the token after it all the same.
GenObject(at, i, n, has, over) ==
    IF i > Len(tokens) \/ n >= tokens[at].size
    THEN Got(Value("object", "", <<>>, has), i - 1, over)
    ELSE LET r == IF n + 1 >= tokens[at].size THEN Got(Undefined, i + 1, FALSE)
                  ELSE Gen1Value(i + 1)
         IN GenObject(at, r.last + 1, n + 2, Insert(has, Name(tokens[i]), r.val), over \/ r.over)

\* Jsi_JSONParse: a first token that holds nothing is null.
JSONParse ==
    /\ status = "reading" /\ ahead = <<>> /\ text # <<>>
    /\ IF (strict /\ Last(text).is = "prim") \/ Opened # {} THEN status' = "error" /\ UNCHANGED answer
       ELSE IF tokens = <<>> THEN status' = "fault" /\ UNCHANGED answer
       ELSE IF tokens[1].size = 0 THEN status' = "done" /\ answer' = Null
       ELSE LET r == Gen1Value(1) IN
            status' = (IF r.over THEN "fault" ELSE "done") /\ answer' = r.val
    /\ UNCHANGED <<strict, quoter, source, ahead, text, tokens, toksuper, token, index>>

Next ==
    \/ \E b \in {"{", "["} : Open(b)
    \/ \E b \in {"}", "]"} : Close(b)
    \/ \E b \in {":", ","} : Separator(b)
    \/ Space
    \/ \E of \in Prims : Primitive(of)
    \/ \E p \in IF ahead = <<>> THEN {StringPiece(s) : s \in Strings} ELSE {Head(ahead)} : String(p)
    \/ JSONParse

Spec == Init /\ [][Next]_vars

-----------------------------------------------------------------------------
(* What the pieces say: documents, an array or an object, by one rule for each piece. *)

\* A stack of values that are not complete, what is expected, and the value in the end.
Start == [stack |-> <<>>, expect |-> "top", val |-> Undefined]
Stuck == [stack |-> <<>>, expect |-> "never", val |-> Undefined]

Completed(s, v) ==
    IF s.stack = <<>> THEN [s EXCEPT !.expect = "end", !.val = v]
    ELSE LET top == Last(s.stack) IN
         [s EXCEPT !.expect = "next",
                   !.stack = Append(Front(@),
                       [top EXCEPT !.v.has = IF top.v.is = "array"
                                             THEN Append(@, [name |-> <<>>, val |-> v])
                                             ELSE Insert(@, top.name, v)])]

Follows(s, p) ==
    LET top == Last(s.stack)
        begins == s.expect \in {"top", "value", "item"}
        push(is) == [s EXCEPT !.expect = IF is = "array" THEN "item" ELSE "member",
                              !.stack = Append(@, [v |-> Value(is, "", <<>>, <<>>), name |-> <<>>])]
        named(name) == [s EXCEPT !.expect = "colon", !.stack = Append(Front(@), [top EXCEPT !.name = name])]
        pop == Completed([s EXCEPT !.stack = Front(@)], top.v)
    IN CASE p.is = " " -> s
         [] p.is = "[" /\ begins -> push("array")
         [] p.is = "{" /\ begins -> push("object")
         [] p.is = "]" /\ s.expect \in {"item", "next"} /\ s.stack # <<>> ->
                IF top.v.is = "array" THEN pop ELSE Stuck
         [] p.is = "}" /\ s.expect \in {"member", "next"} /\ s.stack # <<>> ->
                IF top.v.is = "object" THEN pop ELSE Stuck
         [] p.is = "," /\ s.expect = "next" ->
                [s EXCEPT !.expect = IF top.v.is = "array" THEN "value" ELSE "name"]
         [] p.is = ":" /\ s.expect = "colon" -> [s EXCEPT !.expect = "value"]
         [] p.is = "string" /\ s.expect \in {"member", "name"} -> named(p.str)
         [] p.is = "string" /\ begins /\ s.expect # "top" -> Completed(s, Str(p.str))
         [] p.is = "prim" /\ s.expect \in {"member", "name"} /\ ~strict -> named(<<p.of, "prim">>)
         [] p.is = "prim" /\ begins /\ s.expect # "top" /\ p.of \notin Wild \cup Garbled \cup {"1:1"} ->
                Completed(s, Prim(p.of))
         [] OTHER -> Stuck

Meant == FoldLeft(LAMBDA s, p : Follows(s, p), Start, text)

\* Strings that are not read as they were written: quotes and slashes get lost, and with
\* the writer of values backslashes and characters of several bytes.  As names all escapes.
Plain(p) ==
    \A i \in DOMAIN p.str :
        p.str[i] \notin {"dq", "zero"} \cup (IF quoter = "quote" THEN {"/"} ELSE {"bs", "e9"})
PlainNames ==
    \A i \in DOMAIN text :
        text[i].is = "string" =>
            /\ Plain(text[i])
            /\ i < Len(text) /\ text[i + 1].is = ":" => text[i].raw = text[i].str

-----------------------------------------------------------------------------
TypeOK ==
    /\ status \in {"reading", "error", "fault", "done"}
    /\ {toksuper, token, index} \subseteq 0..Len(tokens)
    /\ toksuper = Newest(Opened)

\* Tokens lie in each other or apart, and each holds as many as it says.
TokensNest ==
    status # "error" =>
        LET last(i) == IF tokens[i].end = 0 THEN Len(text) + 1 ELSE tokens[i].end
            in(i, j) == tokens[j].start < tokens[i].start /\ last(i) < last(j)
            within(i, j) == in(i, j) \/ (tokens[j].end = 0 /\ tokens[j].start < tokens[i].start)
        IN \A j \in DOMAIN tokens :
              /\ \A i \in DOMAIN tokens :
                    i < j => tokens[i].start < tokens[j].start
                             /\ (last(i) < tokens[j].start \/ within(j, i))
              /\ tokens[j].size =
                    Cardinality({i \in DOMAIN tokens :
                        within(i, j) /\ ~\E k \in DOMAIN tokens : within(i, k) /\ within(k, j)})

\* A text that may still become a document is not refused, in strict mode neither; and a
\* document gives the value it says, but null if it is empty.
DocumentsRead ==
    /\ status = "error" => Meant.expect = "never" \/ Opened # {} \/ ~PlainNames
    /\ status = "fault" => Meant.expect # "end"
    /\ status = "done" /\ Meant.expect = "end" /\ PlainNames =>
          answer = IF Meant.val.has = <<>> THEN Null ELSE Meant.val

\* A value that was written is read back as it was, without the members that are undefined.
RECURSIVE Defined(_)
Defined(v) ==
    [v EXCEPT !.has =
        [i \in DOMAIN SelectSeq(v.has, LAMBDA m : v.is = "array" \/ m.val.is # "undefined") |->
            LET m == SelectSeq(v.has, LAMBDA x : v.is = "array" \/ x.val.is # "undefined")[i]
            IN [m EXCEPT !.val = IF m.val.is = "undefined" THEN Null ELSE Defined(m.val)]]]
WrittenReadBack ==
    source # Undefined /\ status \in {"done", "fault"} /\ PlainNames =>
        status = "done" /\ answer = IF Defined(source).has = <<>> THEN Null ELSE Defined(source)

\* No token is read that there is not, unless a name has no value or is no name.
NothingBeyond ==
    status = "fault" =>
        \/ tokens = <<>> \/ token = 0
        \/ \E j \in DOMAIN tokens :
              tokens[j].type = "object" /\
                 \/ tokens[j].size % 2 = 1
                 \/ \E i \in DOMAIN tokens :
                       i > j /\ tokens[i].start < tokens[j].end /\ tokens[i].type \in {"array", "object"}
                         /\ (i = j + 1 \/ text[tokens[i].start - 1].is # ":")

JsonSound == TypeOK /\ TokensNest /\ DocumentsRead /\ WrittenReadBack /\ NothingBeyond
=============================================================================
