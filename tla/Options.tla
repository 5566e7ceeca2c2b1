------------------------------ MODULE Options ------------------------------
(***************************************************************************)
(* Options of records in C that scripts set by objects (jsiOptions.c), for *)
(* records like those of Sqlite: the options of a database, one of them a  *)
(* record of options itself (execOpts), which a query may override in a    *)
(* copy of its own (DbExecCmd).                                            *)
(*                                                                         *)
(* A process of an object is one action for every member, since one that   *)
(* fails leaves those before it set.                                       *)
(***************************************************************************)
EXTENDS Integers, Sequences, FiniteSets, SequencesExt

CONSTANTS
    Records,       \* the databases
    Specs,         \* the options "db" and "exec", in order: name, type, and so on
    Ids,           \* values that are counted
    Scripts,       \* the objects scripts give: sequences of members
    Uint, Size, Space,   \* what an unsigned int holds, buffers and strings in place hold
    MaxOps

VARIABLES
    strict,        \* of the interp
    record,        \* the records that exist: for each path of an option, its field
    specified,     \* the flags JSI_OPT_IS_SPECIFIED, of the copy of each specification
    count,         \* references to values that records hold
    blocks,        \* the strings on the heap that DStrings of records own
    work,          \* the objects that are processed, one in the other
    job,           \* what it is done for
    given,         \* auxiliary: what each option of each record was last given
    latest,        \* auxiliary: the database that was made last, whose flags they are
    fault, slips, ops

vars == <<strict, record, specified, count, blocks, work, job, given, latest, fault, slips, ops>>

NoValue == [is |-> "none"]
Idle == [is |-> "idle", on |-> "", script |-> 0, failed |-> FALSE]
Exec == "opts"     \* the copy a query makes

Paths(s) == {<<i>> : i \in {j \in DOMAIN Specs[s] : Specs[s][j].type # "sub"}}
            \cup (IF s = "exec" THEN {}
                  ELSE {<<i, j>> : i \in {k \in DOMAIN Specs[s] : Specs[s][k].type = "sub"},
                                   j \in DOMAIN Specs["exec"]})
SpecOf(r) == IF r = Exec THEN "exec" ELSE "db"
Option(s, path) == IF Len(path) = 1 THEN Specs[s][path[1]] ELSE Specs["exec"][path[2]]
Zero(e) == CASE e.type \in {"num", "wide", "enum"} -> 0
             [] e.type = "bitset" -> {}
             [] OTHER -> <<>>
Cleared(s) == [p \in Paths(s) |-> Zero(Option(s, p))]

Init ==
    /\ strict \in BOOLEAN
    /\ record = <<>> /\ specified = [s \in {"db", "exec"} |-> {}]
    /\ count = [v \in Ids |-> 0] /\ blocks = 0
    /\ work = <<>> /\ job = Idle
    /\ given = <<>> /\ latest = ""
    /\ fault = "none" /\ slips = {} /\ ops = 0

Put(f, x, y) == [z \in DOMAIN f \cup {x} |-> IF z = x THEN y ELSE f[z]]
Without(f, x) == [z \in DOMAIN f \ {x} |-> f[z]]

-----------------------------------------------------------------------------
(* What a value makes of a field. *)

\* The option of a name: one of exactly this name ends the search, else the only one that
\* begins with it; two before the exact one and the name is ambiguous.  0: none.
FindOptionSpec(s, name) ==
    LET found == {i \in DOMAIN s : IsPrefix(name, s[i].name)}
        exact == {i \in found : s[i].name = name /\ Cardinality({j \in found : j < i}) < 2}
    IN IF exact # {} THEN CHOOSE i \in exact : \A j \in exact : i <= j
       ELSE IF Cardinality(found) = 1 THEN CHOOSE i \in found : TRUE ELSE 0

\* The index of a string in the list of an enum or a bitset; 0: none.
GetIndex(list, str) ==
    LET found == {i \in DOMAIN list : IsPrefix(str, list[i])}
        first == CHOOSE i \in found : \A j \in found : i <= j
    IN IF found = {} THEN 0
       ELSE IF Cardinality(found) = 1 \/ list[first] = str THEN first ELSE 0

\* The value of an enum and of a bitset, from names in the list, and back.
EnumIn(e, str) == GetIndex(e.list, str) - 1
EnumOut(e, n) == e.list[n + 1]
BitsIn(e, strs) == {GetIndex(e.list, strs[i]) - 1 : i \in DOMAIN strs}
BitsOut(e, bits) ==
    [i \in 1..Cardinality(bits) |->
        e.list[1 + (CHOOSE n \in bits : Cardinality({m \in bits : m < n}) = i - 1)]]

\* Whether SetOption accepts a value; "none" is to set it back.
Accepts(e, v) ==
    CASE v.is = "none" -> e.type # "enum"
      [] v.is = "null" -> e.type \in {"counted"}
      [] v.is = "num" -> e.type = "num" \/ (e.type = "wide" /\ v.val > 0)
      [] v.is = "str" -> \/ e.type \in {"key", "buf", "dstring"}
                         \/ e.type = "enum" /\ GetIndex(e.list, v.val) # 0
      [] v.is = "fun" -> e.type = "counted"
      [] v.is = "arr" -> \/ e.type = "bitset" /\ \A i \in DOMAIN v.val : GetIndex(e.list, v.val[i]) # 0
                         \/ e.type = "verify"
      [] OTHER -> FALSE

\* A wide is stored as an unsigned int, a string that does not fit in a buffer is cut.
Field(e, v) ==
    CASE v.is = "none" -> Zero(e)
      [] e.type = "num" -> v.val
      [] e.type = "wide" -> v.val % Uint
      [] e.type \in {"key", "dstring"} -> v.val
      [] e.type = "buf" -> SubSeq(v.val, 1, IF Len(v.val) < Size THEN Len(v.val) ELSE Size - 1)
      [] e.type = "counted" -> <<v.id>>
      [] e.type = "enum" -> EnumIn(e, v.val)
      [] e.type = "bitset" -> BitsIn(e, v.val)
      [] OTHER -> Zero(e)

\* What reading an option gives.
GetOption(e, field) ==
    CASE e.type \in {"num", "wide"} -> [is |-> "num", val |-> field]
      [] e.type \in {"buf", "dstring"} -> [is |-> "str", val |-> field]
      [] e.type = "key" -> IF field = <<>> THEN [is |-> "null"] ELSE [is |-> "str", val |-> field]
      [] e.type = "counted" -> IF field = <<>> THEN [is |-> "null"]
                               ELSE [is |-> "value", val |-> field[1]]
      [] e.type = "enum" -> [is |-> "str", val |-> EnumOut(e, field)]
      [] e.type = "bitset" -> [is |-> "arr", val |-> BitsOut(e, field)]
      [] OTHER -> [is |-> "undefined"]

\* Jsi_OptionsDump: all of them.
OptionsDump(r) ==
    [p \in DOMAIN record[r] |-> GetOption(Option(SpecOf(r), p), record[r][p])]

Heap(str) == IF Len(str) > Space THEN 1 ELSE 0

-----------------------------------------------------------------------------
(* Jsi_OptionsProcess. *)

Members(s, script) ==
    IF script.is = "obj" THEN script.val
    ELSE [i \in DOMAIN Specs[s] |-> [name |-> Specs[s][i].name, val |-> NoValue]]

Frame(s, at, script, update) ==
    [spec |-> s, at |-> at, todo |-> Members(s, script), reset |-> script.is # "obj",
     update |-> update]

\* The flags are those of all records of a specification.
Unflagged(s, update) == IF update THEN specified ELSE [specified EXCEPT ![s] = {}]

Begin(is, r, n, frame) ==
    /\ job = Idle /\ fault = "none" /\ ops < MaxOps /\ ops' = ops + 1
    /\ job' = [is |-> is, on |-> r, script |-> n, failed |-> FALSE]
    /\ work' = <<frame>>
    /\ specified' = Unflagged(frame.spec, frame.update)
    /\ latest' = IF is = "new" THEN r ELSE latest

\* A database is made with options.
New(r, n) ==
    /\ r \notin DOMAIN record
    /\ Begin("new", r, n, Frame("db", <<>>, Scripts[n], FALSE))
    /\ record' = Put(record, r, Cleared("db"))
    /\ given' = Put(given, r, [p \in Paths("db") |-> NoValue])
    /\ UNCHANGED <<strict, count, blocks, fault, slips>>

\* Jsi_OptionsConf with an object.
OptionsConf(r, n) ==
    /\ r \in DOMAIN record \ {Exec}
    /\ Scripts[n].is = "obj"
    /\ Begin("conf", r, n, Frame("db", <<>>, Scripts[n], TRUE))
    /\ UNCHANGED <<strict, record, count, blocks, given, fault, slips>>

ExecOpts == CHOOSE k \in DOMAIN Specs["db"] : Specs["db"][k].type = "sub"

\* Faulty: all of it.
CopiedWhole(r) == [p \in Paths("exec") |-> record[r][<<ExecOpts, p[1]>>]]

\* A query has a copy of execOpts for what it is given, without what is counted.
Copied(r) ==
    [p \in Paths("exec") |->
        LET e == Option("exec", p) IN
        IF e.type \in {"counted", "verify"} THEN Zero(e) ELSE record[r][<<ExecOpts, p[1]>>]]

DbExecCmd(r, n) ==
    /\ r \in DOMAIN record \ {Exec} /\ Scripts[n].is = "obj"
    /\ Begin("exec", r, n, Frame("exec", <<>>, Scripts[n], FALSE))
    /\ record' = Put(record, Exec, Copied(r))
    /\ given' = Put(given, Exec,
                    [p \in Paths("exec") |->
                        IF Option("exec", p).type \in {"counted", "verify"} THEN NoValue
                        ELSE given[r][<<ExecOpts, p[1]>>]])
    /\ UNCHANGED <<strict, count, blocks, fault, slips>>

Processing == work # <<>> /\ fault = "none"
Target == IF job.is \in {"exec", "query"} THEN Exec ELSE job.on
This == Last(work)
Member == Head(This.todo)
\* The option a member sets: when all are set back, the next one.
Found == IF This.reset
         THEN Len(Specs[This.spec]) - Len(This.todo) + 1
         ELSE FindOptionSpec(Specs[This.spec], Member.name)
Rest == Append(Front(work), [This EXCEPT !.todo = Tail(@)])

Fails == /\ job' = [job EXCEPT !.failed = TRUE] /\ work' = <<>>

\* A member of no option is passed over unless the interp is strict.
Unknown ==
    /\ Processing /\ This.todo # <<>> /\ Found = 0
    /\ IF strict THEN Fails ELSE work' = Rest /\ UNCHANGED job
    /\ UNCHANGED <<strict, record, specified, count, blocks, given, latest, fault, slips, ops>>

Entry == Specs[This.spec][Found]
Refused == ~This.reset /\ (Entry.ro \/ (This.update /\ Entry.init))

Refuse ==
    /\ Processing /\ This.todo # <<>> /\ Found # 0
    /\ \/ Refused
       \/ /\ ~Refused
          /\ IF Entry.type = "sub" THEN Member.val.is \notin {"obj", "null", "none"}
             ELSE ~Accepts(Entry, Member.val)
    /\ Fails
    /\ UNCHANGED <<strict, record, specified, count, blocks, given, latest, fault, slips, ops>>

Flagged == [specified EXCEPT ![This.spec] = @ \cup {Found}]
Adjust(v, old) == [x \in Ids |-> count[x] + (IF <<x>> = v THEN 1 ELSE 0)
                                          - (IF <<x>> = old THEN 1 ELSE 0)]

\* One that is set back drops the reference it holds, or the string; and one that is given a
\* string drops the string it has.
SetOption ==
    /\ Processing /\ This.todo # <<>> /\ Found # 0 /\ ~Refused
    /\ Entry.type \notin {"sub", "verify"} /\ Accepts(Entry, Member.val)
    /\ LET path == This.at \o <<Found>>
           v == Member.val
           old == record[Target][path]
           new == Field(Entry, v)
       IN /\ record' = [record EXCEPT ![Target][path] = new]
          /\ count' = IF Entry.type = "counted" /\ v.is # "none" THEN Adjust(new, old) ELSE count
          /\ blocks' = IF Entry.type = "dstring" THEN blocks + Heap(new) ELSE blocks
          /\ slips' = slips
                \cup (IF Entry.type = "counted" /\ v.is = "none" /\ old # <<>>
                      THEN {"set back"} ELSE {})
                \cup (IF Entry.type = "dstring" /\ Heap(old) = 1 THEN {"string"} ELSE {})
    /\ specified' = Flagged
    /\ work' = Rest
    /\ UNCHANGED <<strict, job, given, latest, fault, ops>>

\* ValueToVerify takes the offset for one in pointers: it writes, and reads when the option is
\* set back, beyond the record.
ValueToVerify ==
    /\ Processing /\ This.todo # <<>> /\ Found # 0 /\ ~Refused
    /\ Entry.type = "verify" /\ Accepts(Entry, Member.val)
    /\ fault' = "beyond" /\ slips' = slips \cup {"verify"}
    /\ UNCHANGED <<strict, record, specified, count, blocks, work, job, given, latest, ops>>

\* ValueToSubopt processes an object without JSI_OPTS_IS_UPDATE.
ValueToSubopt ==
    /\ Processing /\ This.todo # <<>> /\ Found # 0 /\ ~Refused
    /\ Entry.type = "sub" /\ Member.val.is \in {"obj", "null", "none"}
    /\ work' = Append(Rest, Frame("exec", This.at \o <<Found>>, Member.val, FALSE))
    /\ specified' = [Unflagged("exec", Member.val.is # "obj") EXCEPT ![This.spec] = @ \cup {Found}]
    /\ UNCHANGED <<strict, record, count, blocks, job, given, latest, fault, slips, ops>>

Ends ==
    /\ Processing /\ This.todo = <<>>
    /\ work' = Front(work)
    /\ UNCHANGED <<strict, record, specified, count, blocks, job, given, latest, fault, slips, ops>>

-----------------------------------------------------------------------------
(* What the members of an object are to do, for the properties.  *)

Named(s, name) ==
    LET exact == {i \in DOMAIN s : s[i].name = name}
        longer == {i \in DOMAIN s : IsPrefix(name, s[i].name)}
        one == IF exact # {} THEN exact ELSE longer
    IN IF Cardinality(one) = 1 THEN CHOOSE i \in one : TRUE ELSE 0

Bad == <<[at |-> <<0>>, val |-> NoValue]>>
Assign(s, at, m, update) ==
    LET i == Named(Specs[s], m.name) IN
    IF i = 0 THEN IF strict THEN Bad ELSE <<>>
    ELSE IF Specs[s][i].ro \/ (update /\ Specs[s][i].init) \/ ~Accepts(Specs[s][i], m.val) THEN Bad
    ELSE <<[at |-> at \o <<i>>, val |-> m.val]>>
AssignAll(s, at, script) ==
    IF script.is = "obj"
    THEN FlattenSeq([k \in DOMAIN script.val |-> Assign(s, at, script.val[k], FALSE)])
    ELSE FlattenSeq([i \in DOMAIN Specs[s] |->
            IF Accepts(Specs[s][i], NoValue) THEN <<[at |-> at \o <<i>>, val |-> NoValue]>> ELSE Bad])

Asked(s, script, update) ==
    IF script.is # "obj" THEN AssignAll(s, <<>>, script)
    ELSE FlattenSeq([k \in DOMAIN script.val |->
            LET m == script.val[k]
                i == Named(Specs[s], m.name)
            IN IF i # 0 /\ Specs[s][i].type = "sub"
               THEN IF m.val.is \in {"obj", "null"} THEN AssignAll("exec", <<i>>, m.val) ELSE Bad
               ELSE Assign(s, <<>>, m, update)])

\* All before the first that is bad are done.
Done(r) ==
    LET todo == Asked(SpecOf(r), Scripts[job.script], job.is = "conf")
        bad == {k \in DOMAIN todo : todo[k].at = <<0>>}
        is(p) == {k \in DOMAIN todo : todo[k].at = p /\ \A b \in bad : k < b}
    IN [p \in DOMAIN given[r] |->
          IF is(p) = {} THEN given[r][p]
          ELSE todo[CHOOSE k \in is(p) : \A j \in is(p) : j <= k].val]

-----------------------------------------------------------------------------
(* Records come and go. *)

Counted(r) == {p \in DOMAIN record[r] : Option(SpecOf(r), p).type = "counted" /\ record[r][p] # <<>>}
Strings(r) == {p \in DOMAIN record[r] : Option(SpecOf(r), p).type = "dstring"
                                        /\ Heap(record[r][p]) = 1}
Gone(r) ==
    /\ record' = Without(record, r) /\ given' = Without(given, r)
    /\ latest' = IF latest = r THEN "" ELSE latest

\* Jsi_OptionsFree, and what the options are in.  A record of options in a record is cleared
\* in place, whatever its options hold.
OptionsFree(r) ==
    LET freed == {p \in Counted(r) : Len(p) = 1} IN
    /\ count' = [x \in Ids |-> count[x] - Cardinality({p \in freed : record[r][p] = <<x>>})]
    /\ blocks' = blocks - Cardinality(Strings(r))
    /\ slips' = IF freed = Counted(r) THEN slips ELSE slips \cup {"cleared"}

\* A record that is forgotten with what its options hold.
Forget(r, why) ==
    /\ UNCHANGED <<count, blocks>>
    /\ slips' = IF Counted(r) \cup Strings(r) = {} THEN slips ELSE slips \cup {why}

Finished(is) == job.is = is /\ work = <<>> /\ fault = "none" /\ job' = Idle

\* A database with a bad option is forgotten; one that then cannot be opened is not.
NewReturns ==
    /\ Finished("new")
    /\ \/ job.failed /\ Forget(job.on, "failed") /\ Gone(job.on)
       \/ ~job.failed /\ OptionsFree(job.on) /\ Gone(job.on)
       \/ /\ ~job.failed /\ given' = [given EXCEPT ![job.on] = Done(job.on)]
          /\ UNCHANGED <<record, latest, count, blocks, slips>>
    /\ UNCHANGED <<strict, specified, work, fault, ops>>

ConfReturns ==
    /\ Finished("conf")
    /\ given' = [given EXCEPT ![job.on] = Done(job.on)]
    /\ UNCHANGED <<strict, record, specified, count, blocks, work, latest, fault, slips, ops>>

\* The query runs.  One with a bad option, and every one of a database that has the option
\* cdata, leaves without freeing its options.
ExecRuns ==
    /\ job.is = "exec" /\ work = <<>> /\ fault = "none" /\ ~job.failed
    /\ job' = [job EXCEPT !.is = "query"]
    /\ given' = [given EXCEPT ![Exec] = Done(Exec)]
    /\ UNCHANGED <<strict, record, specified, count, blocks, work, latest, fault, slips, ops>>

HasCdata(r) ==
    \E p \in DOMAIN record[r] :
        Len(p) = 2 /\ Option("db", p).type = "key" /\ record[r][p] # <<>>

ExecReturns ==
    /\ \/ /\ Finished("exec") /\ job.failed
          /\ Forget(Exec, "failed")
       \/ /\ Finished("query")
          /\ IF HasCdata(job.on) THEN Forget(Exec, "cdata") ELSE OptionsFree(Exec)
    /\ Gone(Exec)
    /\ UNCHANGED <<strict, specified, work, fault, ops>>

Delete(r) ==
    /\ job = Idle /\ fault = "none" /\ r \in DOMAIN record
    /\ OptionsFree(r) /\ Gone(r)
    /\ UNCHANGED <<strict, specified, work, job, fault, ops>>

Next ==
    \/ \E r \in Records :
          \/ \E n \in DOMAIN Scripts : New(r, n) \/ OptionsConf(r, n) \/ DbExecCmd(r, n)
          \/ Delete(r)
    \/ Unknown \/ Refuse \/ SetOption \/ ValueToVerify \/ ValueToSubopt \/ Ends
    \/ NewReturns \/ ConfReturns \/ ExecRuns \/ ExecReturns

Spec == Init /\ [][Next]_vars

-----------------------------------------------------------------------------
TypeOK ==
    /\ DOMAIN record \subseteq Records \cup {Exec} /\ DOMAIN given = DOMAIN record
    /\ \A r \in DOMAIN record : DOMAIN record[r] = Paths(SpecOf(r))
    /\ \A s \in DOMAIN specified : specified[s] \subseteq DOMAIN Specs[s]
    /\ ops \in 0..MaxOps

\* When no object is processed a record gives, for every option, what it was last given for it in
\* its own terms: the number, the string as far as it fits, the name in the list, the names
\* in the order of the list; and nothing else has changed it, also when an object failed in
\* the middle, or when a query had options of its own.
Normal(e, v) ==
    CASE v.is = "num" -> [is |-> "num", val |-> IF e.type = "wide" /\ v.val >= Uint
                                                THEN v.val - Uint ELSE v.val]
      [] e.type = "buf" /\ v.is = "str" /\ Len(v.val) >= Size ->
            [is |-> "str", val |-> [i \in 1..(Size - 1) |-> v.val[i]]]
      [] e.type = "enum" -> [is |-> "str", val |-> e.list[IF v.is = "none" THEN 1
                                                         ELSE Named([i \in DOMAIN e.list |->
                                                            [name |-> e.list[i]]], v.val)]]
      [] v.is = "str" -> [is |-> "str", val |-> v.val]
      [] v.is \in {"fun", "null"} -> [is |-> "value", val |-> v.id]
      [] e.type = "bitset" ->
            [is |-> "arr", val |-> IF v.is = "none" THEN <<>> ELSE
                SelectSeq(e.list, LAMBDA x : \E i \in DOMAIN v.val : IsPrefix(v.val[i], x))]
      [] OTHER -> GetOption(e, Zero(e))

ReadsBack ==
    job.is \in {"idle", "query"} =>
        \A r \in DOMAIN record :
            OptionsDump(r) = [p \in DOMAIN record[r] |-> Normal(Option(SpecOf(r), p), given[r][p])]

\* Every value an option holds has a reference for it, and there are no others, nor strings
\* on the heap, unless they were dropped in one of the ways above.
ReferencesHeld ==
    LET fields == UNION {{<<r, p>> : p \in Counted(r)} : r \in DOMAIN record}
        holds(x) == Cardinality({f \in fields : record[f[1]][f[2]] = <<x>>})
        strings == Cardinality(UNION {{<<r, p>> : p \in Strings(r)} : r \in DOMAIN record})
    IN /\ \A x \in Ids : count[x] >= holds(x) /\ (slips = {} => count[x] = holds(x))
       /\ blocks >= strings /\ (slips = {} => blocks = strings)

\* The options that the database made last was given are flagged as specified, whatever
\* was given to others, and to copies of their options, since.
FlagsTell ==
    latest \in DOMAIN record =>
        \A p \in Paths("db") :
            given[latest][p].is # "none" =>
                p[1] \in specified["db"]

NothingBeyond == fault # "none" => "verify" \in slips

OptionsSound == TypeOK /\ ReadsBack /\ ReferencesHeld /\ FlagsTell /\ NothingBeyond
=============================================================================
