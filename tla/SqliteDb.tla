-------------------------------- MODULE SqliteDb ---------------------------------
(***************************************************************************)
(* A database object of the Sqlite package (jsiSqlite.c): the prepared     *)
(* statements it keeps, the evaluation of queries that run scripts in      *)
(* their midst, and nested transactions.                                   *)
(*                                                                         *)
(* An SQL text is the sequence of its statements; a statement is cached    *)
(* under the whole text that starts with it.  A script runs at top level,  *)
(* in the callback of a query (one call for each row), in a function or    *)
(* hook that sqlite calls while it steps a statement, and in the function  *)
(* given to transaction(); it may call the database again.                 *)
(*                                                                         *)
(* Where a statement in use is handed out a second time, or one that was   *)
(* freed, the list of statements is no longer sound (or the program        *)
(* crashes): fault is set and the model stops.                             *)
(***************************************************************************)
EXTENDS Integers, Sequences, FiniteSetsExt

CONSTANTS Texts,     \* the SQL texts: sequences over Statements
          Modes,     \* output modes in use, see Mode
          Limits,    \* values of the option limit, 0 for none
          Sizes,     \* values for maxStmts
          InitSize,  \* maxStmts at first
          Rows,      \* the number of rows of a statement "rows"
          MaxCalls,  \* bound on the calls scripts make
          MaxDepth,  \* bound on the calls active at once
          MaxStmts   \* bound on the statements that exist at once

\* A "comment" stands for a comment, or white space after the last semicolon.
Statements == {"rows", "write", "comment"}

\* "rows" stands for all modes of exec() without a callback except "none": json,
\* html, csv, list and so on.
Mode == {"rows", "callback", "none"}
Ids == 1..MaxStmts

\* The statement of the call of Jsi_DbQuery that writes records.
RecordText == <<"write">>
Suffixes == UNION {{SubSeq(t, i, Len(t)) : i \in 1..(Len(t) + 1)} : t \in Texts \cup {RecordText}}

ASSUME SqliteAssumption ==
  /\ Texts \subseteq Seq(Statements) \ {<<>>} /\ IsFiniteSet(Texts) /\ Texts # {}
  /\ Modes \subseteq Mode
  /\ Limits \subseteq Nat /\ Sizes \subseteq Int /\ InitSize \in Nat
  /\ {Rows, MaxCalls, MaxDepth, MaxStmts} \subseteq Nat \ {0}

VARIABLES cache,   \* the fields of Jsi_Db that keep statements
          store,   \* what the connection holds: the data and the open transactions
          db,      \* pDb->db: "open"; NULL after close(): "closed", or "kept" by sqlite;
                   \* after the object went: "freed", or the connection is "leaked"
          nTransaction,
          frames,  \* active calls of exec() and transaction(), innermost last
          calls,   \* the number of calls scripts made
          writes,  \* the number of rows ever written
          thrown,  \* the last transaction() to end threw
          did,     \* auxiliary: "flush", "left", "confused"
          fault

vars == <<cache, store, db, nTransaction, frames, calls, writes, thrown, did, fault>>

-----------------------------------------------------------------------------
(* The cache.  stmts: the statements that exist, with their text and the row   *)
(* they are at; entries: stmtHash; list: stmtList, latest first; max: maxStmts. *)

Cache == [stmts : UNION {[D -> [text : Suffixes, row : 0..Rows]] : D \in SUBSET Ids},
          entries : UNION {[D -> Ids] : D \in SUBSET Suffixes},
          list : Seq(Ids), max : Int]

Live(c) == DOMAIN c.stmts
Listed(c) == {c.list[i] : i \in 1..Len(c.list)}
Without(f, S) == [x \in DOMAIN f \ S |-> f[x]]
Known(c, t) == t \in DOMAIN c.entries

\* Faulty: the entries of the hash stay.
FreeOnly(c, S) == [c EXCEPT !.stmts = Without(@, S)]

\* The statements of S are finalized and freed, with their entries in the hash.
Free(c, S) == [c EXCEPT !.stmts = Without(@, S),
                        !.entries = Without(@, {t \in DOMAIN @ : @[t] \in S})]

\* The surplus at the end of the list goes.
Surplus(c) == {c.list[i] : i \in {j \in 1..Len(c.list) : j > c.max}}
Trim(c) == [Free(c, Surplus(c)) EXCEPT
              !.list = SubSeq(@, 1, IF Len(@) > c.max THEN c.max ELSE Len(@))]

ReleaseStmt(c, id, discard) ==
  IF c.max <= 0 \/ discard THEN Free(c, {id})
  ELSE Trim([c EXCEPT !.list = <<id>> \o @])

Reset(c, id) == [c EXCEPT !.stmts[id].row = 0]

\* Faulty: the statement is released where it stands.
NotReset(c, id, nocache) == IF id = 0 THEN c ELSE ReleaseStmt(c, id, nocache)

\* dbEvalFinalize: a statement that is in use is reset and released.
EvalFinalize(c, id, nocache) ==
  IF id = 0 THEN c ELSE ReleaseStmt(Reset(c, id), id, nocache)

\* The list is emptied; the entries in the hash stay.
FlushStmtCache(c) == [c EXCEPT !.stmts = Without(@, Listed(c)), !.list = <<>>]

\* A statement that is found leaves the list.
Unlink(c, id) ==
  [c EXCEPT !.list = LET i == CHOOSE j \in 1..Len(@) : @[j] = id
                     IN SubSeq(@, 1, i - 1) \o SubSeq(@, i + 1, Len(@))]

\* No id is used again while something still refers to it.
Unused(c) == Ids \ (Live(c) \cup {c.entries[t] : t \in DOMAIN c.entries})
Fresh(c) == CHOOSE id \in Unused(c) : TRUE
PrepareNew(c, t, id) ==
  [c EXCEPT !.stmts = [x \in Live(c) \cup {id} |->
                         IF x = id THEN [text |-> t, row |-> 0] ELSE c.stmts[x]],
            !.entries = [x \in DOMAIN c.entries \cup {t} |-> IF x = t THEN id ELSE c.entries[x]]]

-----------------------------------------------------------------------------
(* The connection (the sqlite library).  data: the rows as the connection sees *)
(* them; tx: the transactions open in it, each with the data at its start.     *)

Rolled(s) == IF s.tx = <<>> THEN s ELSE [data |-> s.tx[1].saved, tx |-> <<>>]
Savepoints(s) == {i \in 1..Len(s.tx) : s.tx[i].kind = "savepoint"}
Opened(s, kind) == [s EXCEPT !.tx = Append(@, [kind |-> kind, saved |-> s.data])]
Closed(s, i) == [s EXCEPT !.tx = SubSeq(@, 1, i - 1)]

\* What a command may come to: whether it succeeds, and what it leaves.  To end the
\* outermost transaction may fail: the file is locked, or the commit hook objects.
Outcome(ok, s) == [ok |-> ok, store |-> s]
RunSql(cmd, s) ==
  LET none == {Outcome(FALSE, s)}
      i == Max(Savepoints(s)) IN
  CASE cmd = "BEGIN" -> IF s.tx = <<>> THEN {Outcome(TRUE, Opened(s, "begin"))} ELSE none
    [] cmd = "SAVEPOINT" -> {Outcome(TRUE, Opened(s, "savepoint"))}
    [] cmd = "COMMIT" -> IF s.tx = <<>> THEN none ELSE none \cup {Outcome(TRUE, Closed(s, 1))}
    [] cmd = "ROLLBACK" -> IF s.tx = <<>> THEN none ELSE {Outcome(TRUE, Rolled(s))}
    [] cmd = "RELEASE" ->
         IF Savepoints(s) = {} THEN none
         ELSE {Outcome(TRUE, Closed(s, i))} \cup (IF i = 1 THEN none ELSE {})
    [] cmd = "ROLLBACK TO" ->  \* and then RELEASE
         IF Savepoints(s) = {} THEN none
         ELSE {Outcome(TRUE, [Closed(s, i) EXCEPT !.data = s.tx[i].saved])}

Durable(s) == Rolled(s).data

-----------------------------------------------------------------------------
Top == frames[Len(frames)]
Rest == SubSeq(frames, 1, Len(frames) - 1)
At(pc) == fault = "none" /\ frames # <<>> /\ Top.at = pc
SetTop(f) == frames' = [frames EXCEPT ![Len(frames)] = f]
Held == {frames[i].id : i \in 1..Len(frames)} \ {0}
InScript == fault = "none" /\ (frames # <<>> => Top.at \in {"callback", "hook", "body"})

\* Every call of a method starts with getDb.
GetDb == InScript /\ db = "open" /\ calls < MaxCalls /\ calls' = calls + 1

\* text: zSql, what is left of the text; id: pPreStmt, or 0; cnt: the rows so far;
\* base: of a transaction, the data at its start; began: it began the outermost one.
ExecFrame(t, mode, limit, nocache) ==
  [kind |-> "exec", at |-> "next", text |-> t, id |-> 0, mode |-> mode, limit |-> limit,
   cnt |-> 0, nocache |-> nocache, base |-> {}]
TransactionFrame ==
  [ExecFrame(<<>>, "none", 0, FALSE) EXCEPT !.kind = "transaction", !.at = "body", !.base = store.data]

Init ==
  /\ cache = [stmts |-> <<>>, entries |-> <<>>, list |-> <<>>, max |-> InitSize]
  /\ store = [data |-> {}, tx |-> <<>>]
  /\ db = "open" /\ nTransaction = 0 /\ frames = <<>>
  /\ calls = 0 /\ writes = 0 /\ thrown = FALSE /\ did = {} /\ fault = "none"

-----------------------------------------------------------------------------
(* Queries.  SqliteExecCmd and its kin call dbEvalStep again and again.        *)

Query(t, mode, limit, nocache) ==
  /\ GetDb /\ Len(frames) < MaxDepth
  /\ frames' = Append(frames, ExecFrame(t, mode, limit, nocache))
  /\ UNCHANGED <<cache, store, db, nTransaction, writes, thrown, did, fault>>

\* A callback gets all rows.
Exec(t, mode, limit, nocache) == Query(t, mode, IF mode = "callback" THEN 0 ELSE limit, nocache)

\* These look at the first row only.
OneColumn(t, nocache) == Query(t, "rows", 1, nocache)
Exists(t, nocache) == Query(t, "rows", 1, nocache)

\* Jsi_DbQuery of a SELECT: at most as many rows as there are records to fill.
DbOptSelect(t, limit, nocache) == Query(t, "rows", limit, nocache)

\* The query returns.  With a callback, and in mode "none", it does so without
\* dbEvalFinalize: a statement in its midst is left as it is.
Finalizes(mode) == mode \notin {"callback", "none"}
Return(c, f) ==
  /\ frames' = Rest
  /\ cache' = IF Finalizes(f.mode) THEN EvalFinalize(c, f.id, f.nocache) ELSE c
  /\ did' = IF f.id # 0 /\ ~Finalizes(f.mode) THEN did \cup {"left"} ELSE did

\* dbPrepareStmt: a statement known by its text leaves the list, wherever it is; for
\* any other text one is made.
HandedOut(c, t) ==
  IF ~Known(c, t) THEN "none"
  ELSE IF c.entries[t] \notin Live(c) THEN "freed"
  ELSE IF c.entries[t] \notin Listed(c) THEN "shared" ELSE "none"
IdOf(c, t) == IF Known(c, t) THEN c.entries[t] ELSE Fresh(c)
Found(c, t) == IF Known(c, t) THEN Unlink(c, c.entries[t]) ELSE PrepareNew(c, t, Fresh(c))

Preparing == At("next") /\ Top.id = 0 /\ Top.text # <<>>

Prepare ==
  /\ Preparing
  /\ \/ Known(cache, Top.text)
     \/ db = "open" /\ Head(Top.text) # "comment" /\ Unused(cache) # {}
  /\ fault' = HandedOut(cache, Top.text)
  /\ IF fault' = "none"
     THEN /\ cache' = Found(cache, Top.text)
          /\ SetTop([Top EXCEPT !.id = IdOf(cache, Top.text), !.text = Tail(@), !.at = "bind"])
     ELSE UNCHANGED <<cache, frames>>
  /\ UNCHANGED <<store, db, nTransaction, calls, writes, thrown, did>>

\* A comment has no statement, and the NULL pointer to it is followed.
PrepareNothing ==
  /\ Preparing /\ ~Known(cache, Top.text)
  /\ db = "open" /\ Head(Top.text) = "comment"
  /\ fault' = "null"
  /\ UNCHANGED <<cache, store, db, nTransaction, frames, calls, writes, thrown, did>>

\* Sqlite refuses to compile the text; it always does when the database was closed.
PrepareFails ==
  /\ Preparing /\ ~Known(cache, Top.text)
  /\ Return(cache, Top)
  /\ UNCHANGED <<store, db, nTransaction, calls, writes, thrown, fault>>

\* A variable named in the statement does not exist, or has no value to bind.
Bind(ok) ==
  /\ At("bind")
  /\ IF ok THEN SetTop([Top EXCEPT !.at = "step"]) /\ UNCHANGED <<cache, did>>
     ELSE Return(cache, Top)
  /\ UNCHANGED <<store, db, nTransaction, calls, writes, thrown, fault>>

\* The next statement of the text, the next row of this one, or the end.
EvalStep ==
  /\ At("next") /\ (Top.id # 0 \/ Top.text = <<>>)
  /\ IF Top.id # 0 THEN SetTop([Top EXCEPT !.at = "step"]) /\ UNCHANGED <<cache, did>>
     ELSE Return(cache, Top)
  /\ UNCHANGED <<store, db, nTransaction, calls, writes, thrown, fault>>

\* While it steps the statement sqlite calls a function or a hook of the script.
Hook ==
  /\ At("step")
  /\ SetTop([Top EXCEPT !.at = "hook"])
  /\ UNCHANGED <<cache, store, db, nTransaction, calls, writes, thrown, did, fault>>

\* What it returns may end the step with an error.  A progress callback stops the
\* query with TRUE; nobody asks what an update hook or a collation did.
Returned == {"throw", "true", "other"}
SqlFuncFails(ret) == ret = "throw"
ProgressStops(ret) == ret \in {"throw", "true"}
UpdateStops(ret) == FALSE
CollateStops(ret) == FALSE

HookReturns(ret) ==
  /\ At("hook")
  /\ \E failed \in {SqlFuncFails(ret), ProgressStops(ret), UpdateStops(ret), CollateStops(ret)} :
       SetTop([Top EXCEPT !.at = IF failed THEN "fail" ELSE "run"])
  /\ UNCHANGED <<cache, store, db, nTransaction, calls, writes, thrown, did, fault>>

Stmt == cache.stmts[Top.id]
Stepping == At("step") \/ At("run")
LimitReached(f) == f.limit # 0 /\ f.cnt >= f.limit

\* sqlite3_step comes to a row.
StepRow ==
  LET f == [Top EXCEPT !.cnt = @ + 1, !.at = IF Top.mode = "callback" THEN "callback" ELSE "next"]
      c == [cache EXCEPT !.stmts[Top.id].row = @ + 1] IN
  /\ Stepping /\ Head(Stmt.text) = "rows" /\ Stmt.row < Rows
  /\ IF LimitReached(f) THEN Return(c, f)
     ELSE SetTop(f) /\ cache' = c /\ UNCHANGED did
  /\ UNCHANGED <<store, db, nTransaction, calls, writes, thrown, fault>>

\* It comes to the end of the statement, which goes back to the cache.
StepDone ==
  /\ Stepping /\ (Head(Stmt.text) = "rows" => Stmt.row = Rows)
  /\ IF Head(Stmt.text) = "write"
     THEN /\ writes' = writes + 1
          /\ store' = [store EXCEPT !.data = @ \cup {writes + 1}]
     ELSE UNCHANGED <<writes, store>>
  /\ cache' = ReleaseStmt(Reset(cache, Top.id), Top.id, Top.nocache)
  /\ SetTop([Top EXCEPT !.id = 0, !.at = "next"])
  /\ UNCHANGED <<db, nTransaction, calls, thrown, did, fault>>

\* It fails: the statement is discarded.
StepFails ==
  /\ Stepping \/ At("fail")
  /\ Return(ReleaseStmt(Reset(cache, Top.id), Top.id, TRUE), [Top EXCEPT !.id = 0])
  /\ UNCHANGED <<store, db, nTransaction, calls, writes, thrown, fault>>

\* DbEvalCallCmd: the query ends if the callback returned true; it goes on if it
\* returned something else or threw.
CallbackReturns(ret) ==
  /\ At("callback")
  /\ IF ret THEN Return(cache, Top) ELSE SetTop([Top EXCEPT !.at = "next"]) /\ UNCHANGED <<cache, did>>
  /\ UNCHANGED <<store, db, nTransaction, calls, writes, thrown, fault>>

-----------------------------------------------------------------------------
(* Transactions.                                                               *)

\* With a type the outermost transaction is a BEGIN, else a savepoint is set.
Transaction(typed) ==
  /\ GetDb /\ Len(frames) < MaxDepth
  /\ \E o \in RunSql(IF typed /\ nTransaction = 0 THEN "BEGIN" ELSE "SAVEPOINT", store) :
       /\ store' = o.store
       /\ IF o.ok THEN /\ nTransaction' = nTransaction + 1
                       /\ frames' = Append(frames, TransactionFrame)
          ELSE UNCHANGED <<nTransaction, frames>>
  /\ UNCHANGED <<cache, db, writes, thrown, did, fault>>

\* Faulty: an inner transaction that throws rolls back the outer ones.
WholeRollback(err, n) == IF err THEN "ROLLBACK" ELSE IF n = 0 THEN "COMMIT" ELSE "RELEASE"

EndCommand(err, n) == IF err THEN (IF n = 0 THEN "ROLLBACK" ELSE "ROLLBACK TO")
                      ELSE (IF n = 0 THEN "COMMIT" ELSE "RELEASE")

\* Faulty: a transaction that cannot be committed is left open.
NoRollback(err) ==
  IF db # "open" THEN {Outcome(FALSE, store)}
  ELSE {Outcome(o.ok /\ ~err, o.store) : o \in RunSql(EndCommand(err, nTransaction - 1), store)}

\* DbTransPostCmd: if that fails everything is rolled back.  Sqlite refuses to run
\* anything on the NULL pointer of a closed database.
EndOutcomes(err) ==
  IF db # "open" THEN {Outcome(FALSE, store)}
  ELSE LET n == nTransaction - 1 IN
       {IF o.ok THEN Outcome(~err, o.store) ELSE Outcome(FALSE, Rolled(o.store)) :
          o \in RunSql(EndCommand(err, n), store)}

TransactionEnds(err) ==
  /\ At("body")
  /\ nTransaction' = nTransaction - 1
  /\ \E o \in EndOutcomes(err) : store' = o.store /\ thrown' = ~o.ok
  /\ frames' = Rest
  /\ UNCHANGED <<cache, db, calls, writes, did, fault>>

\* Of n records written one after the other the k-th fails (none if k > n).
Records(s, n, k) == [s EXCEPT !.data = @ \cup {writes + j : j \in {i \in 1..n : i < k}}]

\* A transaction was open that the call did not begin, or is left open.
Confuses == did' = IF store.tx # <<>> \/ store'.tx # <<>> THEN did \cup {"confused"} ELSE did

\* Jsi_DbQuery of n records with one statement, reached from exec() by the option
\* cdata.  BEGIN and COMMIT go around them unless asked not to; if BEGIN fails, or a
\* record does, ROLLBACK.
DbExecBinds(t, n, k, begin, discard) ==
  /\ GetDb /\ (~Known(cache, t) => Unused(cache) # {})
  /\ fault' = HandedOut(cache, t)
  /\ cache' = IF fault' = "none" THEN ReleaseStmt(Found(cache, t), IdOf(cache, t), discard) ELSE cache
  /\ IF n > 1 /\ begin
     THEN \E b \in RunSql("BEGIN", store) :
            IF ~b.ok THEN store' = Rolled(store)
            ELSE \E o \in RunSql(IF k > n THEN "COMMIT" ELSE "ROLLBACK", Records(b.store, n, k)) :
                    store' = o.store
     ELSE store' = Records(store, n, k)
  /\ writes' = writes + n
  /\ IF n > 1 /\ begin THEN Confuses ELSE UNCHANGED did
  /\ UNCHANGED <<db, nTransaction, frames, thrown>>

\* import(): as before, but it goes on if BEGIN fails.
Import(n, k) ==
  /\ GetDb
  /\ \E b \in RunSql("BEGIN", store) :
       \E o \in RunSql(IF k > n THEN "COMMIT" ELSE "ROLLBACK", Records(b.store, n, k)) :
         store' = o.store
  /\ writes' = writes + n
  /\ Confuses
  /\ UNCHANGED <<cache, db, nTransaction, frames, thrown, fault>>

\* evaluate(): the statements of a text one after the other, up to one that fails.
Evaluate(t, k) ==
  LET done == {i \in 1..Len(t) : t[i] = "write" /\ i < k} IN
  /\ GetDb
  /\ store' = Records(store, Cardinality(done), Len(t) + 1)
  /\ writes' = writes + Cardinality(done)
  /\ UNCHANGED <<cache, db, nTransaction, frames, thrown, did, fault>>

-----------------------------------------------------------------------------
CacheFlush ==
  /\ GetDb
  /\ cache' = FlushStmtCache(cache)
  /\ did' = did \cup {"flush"}
  /\ UNCHANGED <<store, db, nTransaction, frames, writes, thrown, fault>>

\* cache_size(), and conf({maxStmts}): takes effect with the next release.
CacheSize(n) ==
  /\ GetDb
  /\ cache' = [cache EXCEPT !.max = n]
  /\ UNCHANGED <<store, db, nTransaction, frames, writes, thrown, did, fault>>

\* Sqlite does not close a connection that has statements; the pointer is lost.
Close ==
  /\ GetDb
  /\ IF Live(cache) = {} THEN db' = "closed" /\ store' = Rolled(store)
     ELSE db' = "kept" /\ UNCHANGED store
  /\ UNCHANGED <<cache, nTransaction, frames, writes, thrown, did, fault>>

\* The object is freed when no script refers to it.
DbDelete ==
  /\ fault = "none" /\ frames = <<>> /\ db \notin {"freed", "leaked"}
  /\ cache' = [FlushStmtCache(cache) EXCEPT !.entries = <<>>]
  /\ db' = IF db = "kept" \/ (db = "open" /\ Live(cache') # {}) THEN "leaked" ELSE "freed"
  /\ store' = IF db' = "freed" THEN Rolled(store) ELSE store
  /\ UNCHANGED <<nTransaction, frames, calls, writes, thrown, did, fault>>

Next ==
  \/ \E t \in Texts, mode \in Modes, limit \in Limits, nocache \in BOOLEAN :
       \/ Exec(t, mode, limit, nocache) \/ DbOptSelect(t, limit, nocache)
       \/ OneColumn(t, nocache) \/ Exists(t, nocache)
  \/ Prepare \/ PrepareNothing \/ PrepareFails \/ EvalStep
  \/ \E ok \in BOOLEAN : Bind(ok) \/ CallbackReturns(ok) \/ TransactionEnds(ok)
  \/ Hook \/ (\E ret \in Returned : HookReturns(ret)) \/ StepRow \/ StepDone \/ StepFails
  \/ \E typed \in BOOLEAN : Transaction(typed)
  \/ \E n \in 1..2 : \E k \in 1..(n + 1) :
       \/ \E begin, discard \in BOOLEAN : DbExecBinds(RecordText, n, k, begin, discard)
       \/ Import(n, k)
  \/ \E t \in Texts : \E k \in 1..(Len(t) + 1) : Evaluate(t, k)
  \/ CacheFlush \/ (\E n \in Sizes : CacheSize(n)) \/ Close \/ DbDelete

Spec == Init /\ [][Next]_vars

-----------------------------------------------------------------------------
(* Properties.                                                                 *)

Frame == [kind : {"exec", "transaction"},
          at : {"next", "bind", "step", "hook", "run", "fail", "callback", "body"},
          text : Suffixes, id : 0..MaxStmts, mode : Mode, limit : Nat, cnt : Nat,
          nocache : BOOLEAN, base : SUBSET Nat]

\* The state is well formed.
TypeOK ==
  /\ cache \in Cache
  /\ store \in [data : SUBSET Nat, tx : Seq([kind : {"begin", "savepoint"}, saved : SUBSET Nat])]
  /\ db \in {"open", "closed", "kept", "freed", "leaked"}
  /\ nTransaction \in Nat /\ frames \in Seq(Frame)
  /\ calls \in 0..MaxCalls /\ writes \in Nat /\ thrown \in BOOLEAN
  /\ did \subseteq {"flush", "left", "confused"}
  /\ fault \in {"none", "freed", "shared", "null"}

\* Statements are accounted for: each is on the list once or has one user, or a query
\* left it behind; those on the list are back at their first row; the hash finds each
\* by its text, and finds nothing else unless the cache was flushed.
Accounted ==
  fault = "none" =>
    /\ \A i, j \in 1..Len(cache.list) : i # j => cache.list[i] # cache.list[j]
    /\ \A i, j \in 1..Len(frames) : i # j /\ frames[i].id # 0 => frames[i].id # frames[j].id
    /\ Listed(cache) \cap Held = {} /\ Listed(cache) \cup Held \subseteq Live(cache)
    /\ Live(cache) # Listed(cache) \cup Held => "left" \in did
    /\ \A id \in Listed(cache) : cache.stmts[id].row = 0
    /\ db \notin {"freed", "leaked"} =>
         \A id \in Live(cache) : Known(cache, cache.stmts[id].text) /\ cache.entries[cache.stmts[id].text] = id
    /\ \A t \in DOMAIN cache.entries :
         cache.entries[t] \in Live(cache) \/ "flush" \in did

\* A script that does not flush the cache, lets queries run to their end and issues
\* no query inside a query of the same text meets no statement that is not its own.
Reentered == \E i \in 1..Len(frames) :
               frames[i].id # 0 /\ cache.stmts[frames[i].id].text \in {Top.text, RecordText}
CacheSafe == /\ fault = "freed" => "flush" \in did
             /\ fault = "shared" => "left" \in did \/ Reentered

\* transaction() counts the transactions that are open, unless one was begun or ended
\* by other means in it.
TransactionDepth ==
  /\ nTransaction = Cardinality({i \in 1..Len(frames) : frames[i].kind = "transaction"})
  /\ db = "open" /\ "confused" \notin did => Len(store.tx) = nTransaction

\* A transaction that throws leaves the data as they were, for an inner one as its
\* connection sees them; one that returns has kept all that was written in it.
TransactionAtomic ==
  [][\A err \in BOOLEAN : TransactionEnds(err) /\ "confused" \notin did =>
       IF thrown' THEN /\ db = "open" => store'.data = Top.base
                       /\ nTransaction' = 0 => Durable(store') = Top.base
       ELSE ~err /\ store'.data = store.data /\ Top.base \subseteq store'.data]_vars
=============================================================================
