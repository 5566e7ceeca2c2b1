# jsish: TLA+ models of the interpreter's concurrent and stateful core

jsish (Jsi) is an embeddable JavaScript interpreter in C. One process may hold
many interps: a main interp, sub-interps created with `new Interp()`, and
sub-interps with `{subthread:true}` that run in a thread of their own. Every
interp has a mutex, queues through which other threads hand it work, and a table
of events served by `sys.update()` or by the loop of its thread. Values,
variables, events, aliases, files and statements are all kept in one kind of
hash table.

This directory holds modules that model those parts, TLC configurations that
check them on small instances, and proofs for TLAPS. All paths below are
relative to the repository; line numbers are given as `file:line`.

    tlc -workers 2 -config Threads.cfg MCThreads          check one run
    tlapm InterpQueues_proofs.tla                         check one module's proofs

## 1. Inventory

### How the parts interact

`NewInterpThread` (jsiInterp.c) is the body of a thread: it evaluates the
startup script of its interp (`jsi_evalStrFile`, jsiEval.c), which takes the
interp's mutex, or loops over `Jsi_EventProcess` and `Jsi_Sleep` (jsiCmds.c).
One event of the table, made by `jsi_AddEventHandler`, is the *queue handler*:
its callback `SubInterpEvalCallback` empties the interp's three queues. The
parent fills them with `Interp.eval`, `call` and `send`; children fill the
message queue with `Interp.send`. A child's code enters its parent through an
alias (`AliasInvoke`), directly, with the parent's mutex. Scripts run from any
of these places may do all of it again, so that activations of the loop, of the
pass and of the callback nest.

### Components

State, operations, what is hard, and what makes each correct. `PROJECT.json`
lists the same components with the files and their status.

| Component | State | Operations | Hard | Correct means |
|---|---|---|---|---|
| Inbound queues (jsiInterp.c, jsiFunc.c) | `interpEvalQ`, `interpMsgQ`, the list `interpStrEvents`, `QMutex` | `InterpEvalCmd`, `InterpCallCmd`, `InterpSendCmd`, `SubInterpEvalCallback` | two threads and children; the mutex is left while scripts run; callbacks nest; timed locks fail; the thread ends | scripts run once, in order; a synchronous eval is evaluated once, then answered; no record is used after it was freed |
| Mutexes of interps (jsiInterp.c, jsiEval.c, jsiCmds.c) | `interp->Mutex` (recursive), `doUnlock`, `lockTimeout` | evaluation, alias, call, eval, `Jsi_Sleep`, thread loop | levels given up and taken again across interps and threads | a script runs only with the mutex of its interp; levels balance; nobody waits in a circle |
| Events and timers (jsiCmds.c) | `eventTbl`, `eventIdx`, `hasEventHdl` | `setTimeout`, `setInterval`, `clearInterval`, `sys.update`, `Jsi_EventProcess`, `exit` | the table changes under the walk; updates nest; seconds and milliseconds | a timeout fires once, not early; a due timer is reached; updates end; no freed event is read |
| Hash tables (jsiHash.c) | buckets, entries, counts, searches | create, find, get, delete, rebuild, first/next | growth and deletion in the middle of a search; a mask over 10 buckets | a map; a search visits everything once |
| Life cycle (jsiInterp.c, jsiEval.c, main.c) | `level`, `deleting`, `exited`, `refCount`, the script object that owns an interp, the tables of alias records | `new Interp`, eval, call, alias, onExit, exit, dropping the object, `Jsi_Preserve`/`Release`/`EventuallyFree` | all of it nests on one C stack; exit anywhere in it; the owner goes while its interp runs | nothing is freed under running code; interps and owners go together; everything is freed once |
| Sqlite package (jsiSqlite.c) | `stmtList` (LRU) and its hash, `nTransaction`, the savepoints and rows of the database | exec, oncolumn, exists, transaction, import, evaluate, flush, close | scripts run in the midst of queries and query again; commits fail in nested transactions | list and hash agree, a statement has one user; counts match savepoints; what was rolled back is gone, and only that |
| Red-black trees (jsiTree.c) | nodes, colours, epoch, searches | create, delete, find, searches in three orders | every shape has its own case of rebalancing; searches across changes | a sorted map with equal black heights; a search gives each key once or stops |
| Evaluator: statements (parser.y, jsiCode.c, jsiEval.c) | opcodes, operand stack, scope chain, try list | compilation of statements, throw, jump, catch, finally, with | jumps out of several try, with, loops and switches; exceptions in finally | a program does what its statements mean; the stack and the scopes come back |
| Evaluator: expressions (the same, jsiValue.c, jsiObj.c, jsiFunc.c) | the stack of values, references to variables, `Obj_this`, objects with their properties, scopes of functions | operators, assignments, subscripts, calls, new, delete, literals | operands that are references; the object of a method beside the stack; errors in the middle | an expression gives, changes and reports what its text says |
| Pipelines (jsiExec.c) | descriptors, children, the table of children to wait for | exec in the foreground and background | any system call fails with half of the pipeline running; descriptors are closed by number | descriptors come back; children are accounted for; nothing waits for ever |
| Values and reference counts (jsiValue.c, jsiObj.c, jsiFunc.c, jsiProto.c, jsiUserObj.c) | a count in each value and object | copy, assign, reset, free | cycles, counts through errors | a value is freed once, after its last reference |
| Signals (jsiSignal.c) | pending mask, handlers | handler, dispatch | mask changed in handlers and loop | every signal is delivered |
| Parser and lexer (parser.y, jsiLexer.c, jsiPstate.c) | position, pushed-back characters | next token | lookahead at the end | one token stream per text |
| Arrays (jsiArray.c, jsiObj.c) | the block of pointers, its length, the counts of values | methods that move, copy or share pointers; iterations with functions | functions that change the array under the iteration; what lies past the end; boundaries of blocks | an array holds what the calls should have left in it; values are live and its own |
| Zip file system (jsiZvfs.c, jsiFilesys.c) | archives, the chains of files of a name, channels over one FILE, the bytes on disk | create, append, truncate, mount, unmount, open, read, seek, close | archives over each other; reads in turns; sizes written after the data; damaged tables | a name finds the archive mounted last; each channel gives the bytes of its entry; tables lead to data |
| JSON (jsiJSON.c, jsmn.c, jsiUtils.c) | tokens with the innermost that is open, the value made of them | parse, quote, stringify | texts that are no JSON; escapes; counts of tokens that the text determines | what is written is read back; a text gives the value it says, or none |
| Options (jsiOptions.c) | records in C, flags in the specification of each | set from an object, read, copy, free | an error in the middle; records in records; names that begin alike | what is read is what was given; a reference for each value held |
| Files of the host (jsiFilesys.c, jsiFileCmds.c) | the objects of File with their channels | remove, rename, copy, link, glob, ...; open, read, write, seek, close | links; calls of the host that fail; the mutex is left while the host reads | a command changes what it names; what was written is there, what is read was there |
| Websocket server (jsiWebsocket.c) | sessions, stacks of messages, handlers of pages | send, update, conf, handler; the callbacks of libwebsockets | functions of scripts in callbacks update, send and fail | the table has the sessions that exist; a message is sent once; one answer for a page |
| Loading of extensions (jsiLoad.c, jsiUserObj.c) | `loadTbl`, classes, objects of classes | load, make and drop objects, delete the interp | libraries that load libraries or fail; objects that outlive their class | a library is open while it is used; each object is freed once |
| Dynamic strings, UTF-8, numbers, formats, strings, Math (jsiDString.c, jsiUtf8.c, jsiFormat.c, ...) | lengths and capacities | pure algorithms | boundaries | equal to a reference definition; not modelled |
| Other commands, utilities, main (jsiCmds.c, jsiUtils.c, main.c) | | source, info, puts, the interactive loop | mostly outside the program | not modelled |

### Hazards

`PROJECT.json` lists 40 places where this code is hard to test, each with the
properties that watch it. Those without one are behaviours the code does show
(section 5), so that no property of them could hold, except one that would need two
modules composed (`hasEventHdl`, with the queues).

## 2. Modules

| Module | What it is |
|---|---|
| `InterpQueues` | the three queues of a threaded sub-interp, their posters and the callback that serves them |
| `EvalService` | what the queues promise: scripts later, once and in order; synchronous evals once, then answered |
| `InterpLocks` | the recursive mutexes of a tree of interps and the threads that take them |
| `InterpLife` | the interps of one thread from creation to deletion, their owners, frames and aliases |
| `JsiEvents` | the event table, the pass over it, `sys.update()`, the loop of a thread, the clock |
| `JsiHash` | the hash table with rebuild and search |
| `Dict` | the finite map that the users of a hash table rely on |
| `SqliteDb` | a database object: the cache of statements, queries that run scripts, transactions |
| `EvalCode` | statements compiled to opcodes, the loop that runs them, and what the statements mean |
| `EvalExpr` | expressions compiled to opcodes, the stack machine that runs them, and what expressions mean |
| `JsiTree` | red-black trees with their searches |
| `ExecPipeline` | exec(): words, redirections, pipes, children, failures |
| `JsiArray` | arrays: the block of pointers under every method, and the iterations that call functions |
| `ZipFs` | zip archives: made, mounted over each other, read and positioned through channels |
| `Websocket` | the sessions, messages and pages of a websocket server |
| `HostFiles` | the commands of File on names, over a host with links and directories that refuse |
| `FileObjects` | File objects: channels and their buffers, used by two threads |
| `Signals` | the mask of pending signals, the handler, and the passes that run callbacks |
| `Extensions` | shared libraries, the classes they register and the objects of these, up to the end of the interp |
| `Options` | records of options set by objects of scripts |
| `JsonText` | JSON: tokens, values, and how values are written |
| `MC...` | small instances: symmetry, trees of interps, the mask of the buckets, options of updates, texts. Modules that do not interact share a run, in which a behaviour is one of one of them: `MCThreads` (mutexes in a trio and in a chain of interps, queues with nested callbacks), `MCRuntime` (statements, expressions, trees, exec, arrays, shared libraries), `MCData` (hash tables, archives), `MCLibrary` (websocket sessions and pages, names of files, File objects, signals, options, JSON) |
| `..._proofs` | theorems and their proofs |

`InterpQueues`, `InterpLocks` and `InterpLife` are three views of one program:
the first follows the data between two threads, the second the mutexes between
all, the third the memory within one. `JsiEvents` is the loop that calls the
callback of `InterpQueues`; `Dict` is how the models that use hash tables
(`JsiEvents`, `SqliteDb`) see them. Where one models a call of another's code it
takes that code's whole effect as one step or, if scripts may run in it, as a
frame or an activation.

Each model has one action for what one thread does without being seen by another: a
whole section under a mutex in `InterpQueues`, everything between two operations on
mutexes in `InterpLocks`, the work of the pass between two handlers in `JsiEvents`,
everything between two scripts in `InterpLife`, `SqliteDb` and `JsiArray`, a call in
`JsiHash`, `JsiTree`, `ZipFs` and `HostFiles`, a callback of the library in `Websocket`,
a load or a store of the mask in `Signals`, a member of an object in `Options`, a piece
of the text in `JsonText`, an opcode in `EvalCode` and `EvalExpr`, a system call in
`ExecPipeline`. Operators under a comment that starts with "Faulty" are slips one could
make in the code; no behaviour uses them, they exist to show that the properties would
notice.

### InterpQueues

State: `evalQ`, `msgQ`, `head`, `next`, `isExec` are the fields of the sub-interp
and of the `InterpStrEvent` records; `heap` says which records are allocated;
`frames` is the stack of activations of `SubInterpEvalCallback`, with its local
variables; `iret` is `interp->ret`; `parent` is what the parent's thread does.
`ran`, `execs`, `result` and `sent` are the history the properties speak of.
Scripts are joined texts in the code; here a text is the sequence of the scripts
in it.

| Action | Code |
|---|---|
| `ParentFetch` | the read of `udf->subinterp` at the head of eval, call and send, and the test whether it is gone |
| `PostScript`, `PostSync`, `PostCall`, `PostSend` | their sections under `QMutex` |
| `ChildSend` | `Interp.send` of a child |
| `PostFails`, `LockFails` | `pthread_mutex_timedlock` refused (its deadline is in the past) |
| `WaitDone`, `ReadResult` | the end of `while (s->isExec)`, and the read of `ret` |
| `StartPass` | the event loop, or `sys.update()` in a script, calls the callback |
| `TakeEvals`, `EvalStep`, `ReadMsgs`, `ClearMsgs` | the two sections on the texts, the evaluation, `Jsi_DSSetLength(&interp->interpMsgQ, 0)` outside of them |
| `TakeEvent`, `RunEvent`, `ExecDone`, `Unlink`, `Wake` | the loop over the records, one action per stretch with or without `QMutex`; an eval that throws gives its waiter `Failed` |
| `ThreadEnd` | the startup script ends and `interpObjErase` runs |
| `UseFreed` | the next step of a thread reads or writes freed memory |

Where the C program would go on with an undefined outcome the model sets `fault`
and stops; the properties of a state with a fault are those of the state the
fault arose in.

### InterpLocks

State: `mutex` (owner and level of every interp's mutex), `stack` (of every
thread: the interp whose code runs, where it is in an operation), `job` (the
state of the synchronous eval a thread waits for), `mark` (auxiliary: a thread
that waited for an eval, or was refused a lock). `Nested`, `Enter`, `Finish` are
`jsi_evalStrFile`; `Sleep`, `Wake` are `Jsi_Sleep`; `Alias` to `Converted` are
`AliasInvoke` and the synchronous `InterpCallCmd`; `EvalSameThread` to `NoSleep`
are `InterpEvalCmd`; `Serve` is the part of the callback that runs another
thread's eval. `Needs` says which levels an activation accounts for: one while code of
an interp runs under it, none while it is `Away`. Unlocking a mutex one does not own does
nothing, as `pthread_mutex_unlock` of a recursive mutex does. Scripts are reduced to the
operations they start.

### JsiEvents

State: `events` (the table), `nextId` (`eventIdx`), `served` (`hasEventHdl`),
`loops` (the activations of `SysUpdateCmd` and of the loop of
`NewInterpThread`, each with the pass it is in), `now`, `exited`. `SetTimer`,
`Clear`, `Update`, `Exit` are what scripts do, at top level or in handlers;
`BeginPass` to `HandlerDoneFreed` are `Jsi_EventProcess`; `UpdateReturns` and
`Sleep` the end of a round of `sys.update()`. The walk over the table is that of
`Jsi_HashEntryNext`: bucket after bucket, newest entry first, the next entry of
the bucket read before the handler of this one runs. `count` (how often a timer
has run) and `meddled` (a handler cleared an event or updated) are auxiliary.

### JsiHash

State: the fields of `Jsi_Hash`, the entries by number (`live`, `key`, `data`,
and `chain`, the bucket an entry is linked in), `search` for the fields of one
`Jsi_HashSearch` with what it has returned, `answer` for what the last call
returned. Actions: `Put`, `Get`, `Has`, `Delete`, `Size`, `First`, `NextEntry`.
The order inside a chain is left open, a search decides it as it goes.

### InterpLife

State: `interp` (level, deleting, exited, preserved, of the `Jsi_Interp`), `udf`
(the `InterpObj` behind each script object: its count, whether it points to its
sub-interp, the alias in its table), `rec` (the `AliasCmd` records), `frames`,
the stack of what runs: the program, a start script in a constructor, an eval, a
call, an alias, an onExit function. `fault` names memory that was misused, which
ends a behaviour; `selfEnded` is auxiliary.

| Action | Code |
|---|---|
| `NewInterp`, `StartReturns`, `StartFails`, `StartExits` | `InterpConstructor` and `Jsi_InterpCreate` with the start script between them |
| `Eval`, `Call`, `InvokeAlias`, `AskParent` and `MethodReturns`, `AliasReturns`, `OnExitReturns` | `InterpEvalCmd`, `InterpCallCmd`, `AliasInvoke`, the onExit call of `jsi_exitCmd`; the frames in `Jsi_EvalString` with the level each adds |
| `Exit`, `EndProgram`, `TopReturns` | `exit()`, the end of main |
| `Drop`, `Preserve`, `Release` | the last reference to the object, `Jsi_Preserve`, `Jsi_Release` |
| `SetAlias`, `RefuseAlias`, `GetAlias`, `UnsetAlias` | `Interp.alias` with its forms |
| `Delete`, `DeletedWith`, `Erase` | `Jsi_InterpDelete` with all it takes along, `interpObjErase` |

### SqliteDb

State: `cache` (the statements, which are in the list and in what order, the
hash entries by text, `maxStmts`), `frames` (each query with the rest of its
text, where it is, and each transaction()), `db`, `store` (the savepoint stack
and the rows as sets of writes), `nTransaction`, `thrown` (an error is on its
way out), `did` (auxiliary: which known slips have happened).
`Exec`, `OneColumn`, `Exists`, `DbOptSelect` are the commands that query;
`Prepare` to `StepFails` are `dbPrepareStmt`, `dbEvalStep` and `dbEvalFinalize` with
`HandedOut` (a cached statement is found), `Trim` (the list is cut to
`maxStmts`), `Hook` (a function, progress or update hook or collation runs a
script); `Transaction` and `TransactionEnds` are `SqliteTransactionCmd` and
`DbTransPostCmd`; `DbExecBinds`, `Import`, `Evaluate`, `CacheFlush`,
`CacheSize`, `Close` the rest. The SQL engine is external: `RunSql` is what its
documentation says of BEGIN, SAVEPOINT, RELEASE, ROLLBACK and COMMIT.

### EvalCode

The first half translates the actions of the grammar (`WhileCode` to `TryCode`)
and `code_reserved_replace`; opcodes keep the relative jumps the parser computes.
The second half has one action per opcode, `DoThrow` for `do_throw`, `Jumped`
for what a jump out of try blocks does. `Meaning` is the reference: how a
statement completes, by recursion on the statement. `RunsAsWritten` compares
the end of every run (reports in order, with the scope each saw, and how it
ended) with it. `warned` (a statement was run that the code only logs) and `lost`
(a pending exception was lost to another) leave out the programs on which the code
is known to differ (section 5).

### EvalExpr

The first part translates the rules of the grammar for expressions; the second is the
machine: `stack` (`interp->Stack` up to `Sp`), `obj_this` (`interp->Obj_this`, by place),
`frames` (the activations of `_jsi_evalcode`), `heap` and `cells` (objects and the values
of variables and properties), one action per opcode. `Binary` has the operators with the
conversions of `jsiValue.c`, `Subscript` and `Assign` the lookup along prototypes and the
stores of `jsi_ValueSubscript` and `jsi_AssignKey`, `CallFunction`, `CallFails` and
`CallPuts` the calls. `Ev` is the reference: it evaluates the expression as it is written,
left to right. `ExprsAsWritten` (with `RunsAsWritten` of `EvalCode` the `RunsAsWritten`
of `MCRuntime`) compares what a program reports, how it ends and what is
left on the stack. `surprises` (auxiliary) records that one of four slips of section 5
has happened, of which the reference knows nothing; in every other program the two agree.

### JsiTree

A tree is a record of functions, one for each field of `Jsi_TreeEntry`, and each
C function an operator on it; the mirrored branches are one definition with a
side. `EntryCreate`, `EntryDelete`, `SearchFirst`, `SearchNext` are the actions.
Both ways to delete a node with two children are there: trees of strings swap
the nodes, trees of words their contents.

### ExecPipeline

State: `open` (what each descriptor is open on), `kids` (the processes, and the
pipe ends each has), `table` (`WaitInfoTable`), `ex` (the locals of
`jsi_execCmd` and `JsiCreatePipeline`), `lost` and `forgotten` (auxiliary, for
two slips of section 5). `Exec` begins a call, `Reap` looks at one entry of the
table (`JsiReapDetachedPids`), `CreatePipeline` scans the words; `OpenInput`,
`OpenOutput`, `OpenError`, `ForkNext`, `ForkLast` and `Started` make the
pipeline, `Failure` and `ForkFails` are the label `error`; `ReadOutput`,
`WaitForProcess`, `ReadErrors` are the rest of the command. Processes are
external and may end at any time; descriptors are numbered, since which ones a
child closes depends on their order. The scan says which words are not names of
files (`OwnWords`) and what the last redirection of each kind is, without the loop.

### JsiArray

State: `obj` (`arr`, the block of `arrMaxSize` pointers, and `arrCnt`), `val` (each
value with its count), `iter` (the locals of map, filter, forEach or some while it
calls its function), `crashed`. `js` (auxiliary) is what the calls should have left in
each array. `SetDup` is `jsi_ObjArraySetDup`, `ArraySizer` and `SetLength` those of
jsiObj.c, `Push` to `Splice` the methods; `Call` makes one of them and ends it with
`Done`, which drops the values that nothing points to. `BeginIter`, `Invoke` and
`Return` or `Throws` are an iteration; after `Invoke` the function may make any call, on
this array too. `tainted` (an array shares a value, after filter, or keeps one past its end,
after splice) and `odd` (slice or splice over the bounds of a block) leave out what the
code is known to get wrong (section 5), and SlotsSound says that nothing else does.

### ZipFs

State: `disk` (the cells of each archive file: program, headers, bytes of an entry
each with its place, the table), `archiveHash` (the mounted archives, with the
position of their one `FILE`), `fileHash` and `link` (the chain of `ZvfsFile` of each
name), `file` (the objects that scripts read through, each with its
`ZvfsChannelInfo`), `order` and `clean` (auxiliary). `CreateCmd`, `Truncate`, `Mount`,
`Unmount`, `Open`, `Read`, `Seek`, `Close` are the commands. Inflating is external: it
gives byte k+1 of the entry after byte k, and an error on anything else.

### Websocket

State: `conn`, `want` (libwebsockets: where each connection is, whether it asked to
write), `pss` and `table` (the memory of a session, which libwebsockets owns, and
`pssTable`), `server`, `holds` and `callback` (the object), `handlers` with the
references `refs` taken for them, `http` (the answers to the last page asked for),
`frames` (services and functions of scripts, one in the other). `Connect` to
`CloseLastReturns` are the cases of `callback_jsi_protocol`, `Page`, `HandlerReturns`
and `HangUp` those of `callback_http`; `WebsocketConf`, `WebsocketSend`,
`WebsocketUpdate`, `SetHandler`, `UnsetHandler` the methods, `Construct`, `Drop` and
`Destroyed` the life of the object. `queued` and `got` are what the session was sent and
what reached the host. `ways` names those of section 5 in which sessions or answers
are known to go wrong; the properties say that nothing else does.

### HostFiles and FileObjects

`HostFiles`: `fs` is the host, a tree of nodes and the blocks of each inode. `Walk` is how
the host follows a path through links; `HostRemove` to `HostLink` are its system calls with
the reasons it may refuse; `FileRemoveCmd` with `RmdirAll`, `FileRenameCmd`,
`FileCopyCmd`, `FileRead`, `FileWrite`, `FileTruncate`, `FileGlobCmd` with `SubGlob` are
the commands. Each action is a command, and `last` keeps it with the host before it. The
properties are what the command should have done to that host, stated of the whole tree.

`FileObjects`: `obj` (chan, filename, mode of `FileObj`), `chan` (the channels with the
`FILE` of the C library, its position and buffer), `file`, and `io`, what a thread does
without the mutex, which `jsi_FSReadProc` and `jsi_FSWriteProc` give up. The methods are
the actions of their names; `UseClosed` is a method on an object that was closed. `want`
(auxiliary) is what the files would hold had nothing been buffered.

### Signals

State: `disposition`, `signal_handling` and `sa_old` (the host's and the code's idea of
each signal), `sigmask`, `eventTbl`, `passes` (of each interp, one in the handler of the
other). `SignalSub` is handle, ignore and default of a list; `SignalCallback`,
`SignalAlarm` the other commands; `Signal` the handler, which may come between any two
steps; `SignalIsSet`, `ClearLoads`, `ClearStores` the test and the clearing of a bit, two
steps since it is a load and a store of the mask. `sent`, `runs`, `owed` and `before` are
the history the properties speak of.

### Extensions

State: `opened` (the dynamic linker), `loadTbl`, `userdataTbl`, `cmds`, `loading` (the
Init functions that run, one in the other), `userobj` and `counter`, `stage` (how far the
deletion of the interp is). `LoadLibrary` and `InitReturns` are `jsi_LoadLibrary`,
`UserObjRegister` and `CommandCreateSpecs` what an Init does, `UserObjNew` and `Drop` the
objects of a class, `DeleteVars` to `DeleteLoads` the tables that `jsiInterpDelete` frees
in this order.

### Options

State: `record` (the fields of each database and of the copy a query made), `specified`
(the flags, which belong to the specification and not to the record), `count` and `blocks`
(references and strings held), `work` (the objects that are processed, one in the other),
`job` (for whom). `New`, `OptionsConf`, `DbExecCmd` start a process, `SetOption`,
`ValueToVerify`, `ValueToSubopt`, `Refuse` and `Unknown` are `Jsi_OptionsProcess`
and the functions it calls for one member, `NewReturns`, `ConfReturns`,
`ExecRuns`, `ExecReturns` and `Delete` what follows. `given` is what each option was last
given, against which `ReadsBack` holds what `GetOption` returns.

### JsonText

A text is a sequence of pieces, read one by one. State: `tokens`, `toksuper`, `token`,
`index` of `jsmn_parse`, `status`, `answer` (the value). `Open`, `Close`, `Leaf`,
`Separator` are the cases of the parser's loop; `JSONParse` with `GenArray` and
`GenObject` makes the value; `Written` is how a value is written, by `Jsi_JSONQuote` or by
`jsiValueGetString`. `Meant` is the reference: what the text says by the grammar of JSON.

## 3. Runs

Every run ends within minutes. "States" are distinct states.

| Run | Question | Bounds | Outcome |
|---|---|---|---|
| `queuesService` | what the queues promise when callbacks do not nest and locks do not fail | 3 scripts, 2 evals (a script and an eval throw), a call, a message, 1 callback deep | `ScriptsInOrder`, `SyncRunsOnce`, `ListSound`, `NoFreedMemory` hold, `SyncAnswered` under fairness, and `EvalService` is implemented |
| `queuesLost` | is a script handed over ever lost without an error of its own | 2 scripts, a message | `NoScriptLost` is violated |
| `threads` | do scripts run under their mutex, do levels balance; do functions that call up and down a chain of threads deadlock; what do the queues keep of their promise with nested callbacks, refused locks, functions that crash and the end of the thread | the trio: a main interp, a threaded child, an unthreaded child with doUnlock:false, 4 activations a thread, locks may be refused; the chain: three threads, each the parent of the next, 3 activations, no nested evaluation; the queues with 3 scripts (one throws, one does not parse), 2 evals, a call and a message, 2 callbacks deep | `LocksSound` (`RunsOwned`, `LevelsBalanced`, `OneLevelKept`), `ChainNoDeadlock`, `EvalsServed` (`ScriptsAtMostOnce`, `AnswerAfterRun`), `EvaluatedAgain` hold |
| `locksCall` | does a synchronous call get through | a main interp, a threaded child without a script, an unthreaded one, aliases | `DuoCallReturns` is violated |
| `life` | do levels, owners and aliases stay consistent whatever nests, exits and is dropped | a main interp and two others, one with onExit, one preserved; two alias records, five frames | `LevelsCount`, `NeverUnderfoot`, `OwnersAgree`, `AliasesAccounted`, `EndsClean` hold |
| `sqlite` | do cache, statements in use and transactions agree when scripts query in the midst of queries | three texts, three calls, three deep, two rows, a cache of 0 to 2 statements | `Accounted`, `CacheSafe`, `TransactionDepth`, `TransactionAtomic` hold |
| `runtime` | do compiled statements and expressions do what the program says; do trees stay balanced maps, with searches across changes; does exec clean up; do arrays hold what they should; are libraries open while they are used | 5000 programs of two nested statements and 5324 of three; expressions of two operands, with everything that changes what the other reads; trees of 7 and 5 keys; two calls of exec with up to three commands; two arrays of up to three elements, four calls; three files of libraries of which two share a name, two objects, four operations | `RunsAsWritten` (of statements and of expressions), `TreeSound`, `ExecSound` (`DescriptorsBack`, `ChildrenAccounted`, `NeverStuck`), `ArraysSound`, `ExtensionsSound` hold |
| `arraysPush` | does push add its arguments | the arrays of `runtime` | `PushPushes` is violated |
| `data` | is the hash table a map, do searches visit everything once; do names find the right archive, and channels their bytes | 3 keys of which two share a bucket before and after the rebuild, 3 then 12 buckets; two archives (none, a program, one made elsewhere, one with a damaged table), files of four bytes and one, blocks of two and three, two mounts, one create, four reads or seeks | `TableSound` (`ChainsSound`, `KeysUnique`), `SearchSound` hold, `Dict` is implemented; `FilesSound` (`NamesSound`, `ReadsItsOwn`), `ZipSound` hold |
| `library` | does a websocket serve its sessions and pages; do commands on files do what they name; are signals delivered, options kept, texts in JSON read and written | two sessions, two messages, a limit of one connection, and pages with two requests; four hosts, two commands; two File objects, two threads, three operations; two interps, three signals, two events; two databases, ten objects, three operations; texts of up to four pieces, five written values | `SocketSound` (sessions), `HostSound` (pages, names and File objects), `SignalsSound`, `OptionsSound`, `JsonSound` hold |
| `events` | do timers fire once, do due ones fire, do updates wait and end, do passes advance, is a freed event read | timers: two besides the queue handler, two loops deep, three seconds of 2 ms; the clock: updates with a `minTime` of 1, 3, 4 or 5 ms, without timers, over four seconds of 2 ms | `TimeoutOnce`, `NoFreedEvent`, `UpdateWaits`, `PassAdvances` hold, `TimersRun` and `UpdateEnds` under fairness |
| `eventsEarly` | does a timer wait for its delay | one timer, handlers that do nothing | `NotEarly` is violated |

### Why the bounds are enough

*Queues.* A record can be first, in the middle or last in the list, so two evals
and a call make every shape of it; a text needs a script before and one behind
the one that throws or does not parse; one message is enough for the two sections
that meet it. With two activations an inner callback meets everything an outer
one has left half done; a third would meet what the second leaves. The script that does
not parse is in `threads`, where one in three throws and one is malformed; the eval that
throws is in `queuesService`, where its caller must be answered all the same.

*Locks.* Three interps give a thread a parent, a child in its own thread and one
in another. Four activations let a thread be inside itself, its parent and itself
again, the case in which an operation gives up one of several levels.

*Hash.* A rebuild, a deletion and a re-creation fit, with one more entry slot than keys
so that memory is not always taken again at once. Two keys share a bucket before and
after the rebuild, so that the rebuild may change their order. 3 buckets and a mask of 2
leave a bucket unused, as 10 buckets and a mask of 9 do in the code.

*Events.* Two timers can share a bucket, so that one is read ahead while the
other's handler runs. Seconds of 2 ms make every case of "same second", "next
second" and "whole second" happen within a clock of three seconds; the clock
starts at one second so that no time is 0. A bounded clock makes timers whose
time would lie beyond it impossible (guard of `SetTimer`), and a sleep at the
bound takes no time, so that loops can be followed to their end. A `minTime` of more than
two seconds needs a wait that crosses several of them, which two timers would make too
large to check: these updates have a part of the run to themselves. A pass needs one
timer that it runs and one that the handler makes under it for `PassAdvances`, in the
bucket it is in or one it has still to reach.

*Life.* Two sub-interps can be siblings or parent and child, so an exit, a drop or the
end of a parent meets a running child, its owner and a grandchild. Five frames allow an
onExit function below the frame of the interp it deletes, and an eval of a child whose
script calls an alias of its parent, which evals again or exits. Two records let one be
replaced while it runs. One interp asks onExit and the other is preserved, so each case
meets both positions.

*Sqlite.* Two statements and a cache that may hold one make the cache full, a
statement stolen, freed, or put back last; a text of two statements leaves
the list in its middle; three calls nested are a query, its callback's query and one
more, or a transaction in a transaction with a query in it. A failing COMMIT needs
two levels for what an outer transaction loses.

*Runtime.* Statements nested two deep meet every pair of kinds, three deep the ones that
change the try list, the stack or the scope in between; two tests that succeed let a
loop go round and end. All cases of deletion in a red-black tree occur with seven keys,
and repeat one level up, the cases of a swap with five. Three commands are a first, a
middle and a last; a descriptor taken among those of exec makes a hole; a second call
meets what the first left in the table. Blocks are multiples of two places, so that
three elements need a second one, and an end that is a multiple of the block meets the
places past it; with two arrays one call copies or shares and the next changes either;
four calls are a making, one that leaves something behind, one that meets it, and one
more, or an iteration with two calls inside. Two files of one name make a library that
is loaded already, a third is loaded in the Init of another.

*Archives.* A file longer than the block of the decompressor and than the buffer of
the object needs several of each; two archives with the same names make the chains of
names two long, so either may be taken out first; two channels, on one archive or on
two, read in turns.

*Library.* A session that opens, receives or closes under another's function needs two
of them and a function in a function; two messages have an order; with a limit of one
the second connection is the one refused. Each host has one obstacle of each kind next
to what a command names; a second command meets what a first left. Two threads on two
objects can close or open each other's. Two sends of a signal may merge into one bit,
two events share it; the third signal is one nobody may catch. Scripts of options fail
before, at and after each kind of option; a query in the midst meets what a database
left. Four pieces hold a container in a container, or a name with its value.

Bounds in guards are `MaxIds`, `MaxDepth`, `MaxTime` (events), `MaxEntries`,
`MaxBuckets` (hash), `MaxDepth` (queues, locks), `MaxFrames` (life), `MaxCalls`,
`MaxDepth`, `MaxStmts` (sqlite), `MaxTrue` (code), `MaxKids`, `MaxFd`, `MaxExecs` (exec;
running out of the first two is a failure the code handles), `MaxLen`, `MaxCalls`
(arrays), `MaxBuilds`, `MaxMounts`, `MaxReads` (archives), `MaxIds`, `MaxMsgs`,
`MaxFrames`, `MaxHttp` (websocket), `MaxInos`, `MaxOps` (host), `MaxEvents`, `MaxSends`,
`MaxDepth` (signals), `MaxPieces` (JSON), `MaxOps` of the other parts of `library` and
of libraries; the other constants are sets of inputs.

`CHECK_DEADLOCK FALSE` stands where the program may stop: when every request was made
and a thread has ended, after a fault, when the clock is at its bound, in `JsiHash` when
a creation would exceed `MaxBuckets`, in `InterpLocks` because `threads` and `locksCall`
contain the deadlock that `locksCall` shows (for the chain there is `ChainNoDeadlock`),
in `life` and `sqlite` when the program has ended or calls are used up, in `runtime`,
`data` and `library` when a program has come to its end or the calls are used up.

### Fairness

*InterpQueues* (`FairSpec`): the loop in `NewInterpThread` and `sys.update(-1)`
call the callback for ever, so `StartPass` with no callback active is weakly
fair; an activation goes on (`CallbackStep`), which assumes that scripts come to
their end; the caller polls (`WaitDone`, `ReadResult`). Posting is not fair:
nobody has to ask.

*JsiEvents* (`FairSpec`): time passes where the program lets it (`Tick`), the
thread is scheduled (`PassStep`). A handler runs until it ends: strong fairness
for its end at every depth, since while it runs it may start updates, which makes
its own end impossible again and again. Nothing is assumed of what scripts choose
to do.

No liveness is claimed of `InterpLocks` (it contains a deadlock) or of the modules that
follow one thread, whose steps are calls somebody chooses to make; that exec does not
wait for ever is stated of states (`NeverStuck`, in `ExecSound`), since it depends on
what other processes do.

## 4. Proofs

`InterpQueues_proofs`, for all numbers of scripts, evals, calls and messages and
any nesting, from `QueuesAssumption`:

- `TypeCorrect`: `Spec => []TypeOK`. Inductive with `FramesOK`: an activation that
  works on a record has one, and it is a synchronous eval where the code takes
  it for one.
- `AtMostOnce`: `Spec => []ScriptsAtMostOnce`. The invariant `ScriptsInv` says that
  a script posted is in one place only: the queue, the private text of one
  activation, or the scripts that ran; and that these places are ordered. With
  nested callbacks the order between texts is lost (an outer activation goes on
  with an older text), which is why `Before` is only "different" then.
- `InOrder`: `MaxDepth = 1 => (Spec => []ScriptsInOrder)`, from the same invariant
  with `Before` as "less".
- `AnswersFollowRuns`: `Spec => []AnswerAfterRun`. `ServedInv` says that an
  activation serving an eval has counted it; `WaiterInv` that a waiter whose
  isExec is cleared waits for an eval that ran. `EvalsAreServed` puts it together with
  `AtMostOnce`: these two survive nesting, refused locks and the end of the thread.
- `AgainOnlyNestedOrRefused`: `Spec => EvaluatedAgain`, with no hypothesis. A record that is
  evaluated a second time is either in the hand of an activation further out, which runs
  its script now, or was left behind by an activation to which the lock for its unlinking
  was refused. `LowerInv`: what lies below the innermost activation runs a script.
  `UnpostedInv`: a record that was not posted was not evaluated. `UnmarkedInv`: an activation
  that unlinks without having evaluated found `isExec` cleared.
- `ListStaysSound`: `MaxDepth = 1 => (Spec => []ListSound)`. `ListInv` says that there is a
  sequence of records that `head` and `next` spell out, all live, with every call that is
  live and every eval somebody waits for, unless the callback is about to release that
  waiter; that the callback works on its first record; and that one caller waits for one
  record, which nobody else frees.
- `NoUseAfterFree`: `MaxDepth = 1 /\ ~ScriptEnds => (Spec => []NoFreedMemory)`, from the
  same invariant.
- `EvaluatedOnce`: `MaxDepth = 1 /\ ~LockTimed => (Spec => []SyncRunsOnce)`. `OnceInv`: an
  eval that ran and has not been answered is the one the callback has in hand.
- `QueuesImplementService`: `MaxDepth = 1 /\ ~LockTimed => (Spec => ServiceSafety)`, the
  refinement of `EvalService` step by step; `ServiceInv` says that a private text is being
  run or empty, and which evals may still be answered.

The hypotheses are what the code needs: with callbacks in callbacks a record is served by
both (1236); a timed lock that is refused where the record is to be unlinked leaves it on
the list, to be run again (1260); and a startup script that ends erases the interp with
its list. In each case the property is false and section 5 says so.

`InterpLocks_proofs`, for every tree of interps, any of them with a thread, a loop or
doUnlock:false, and any depth, from `ConstantsAssumption`:

- `TypeCorrect` and `LocksAreSound`: `Spec => []LocksSound`, that is `RunsOwned`,
  `LevelsBalanced` and `OneLevelKept`, from `Inductive`. `Owned`: a mutex has an owner
  exactly while its level is above 0. `Shape`: only the innermost activation of a thread
  waits for anything, the ones below it run or are busy. `Balanced` compares, for a thread
  and an interp, the levels held with those that the activations need (`Needs`): as many,
  until an eval waits for another thread (`mark`); then no fewer, until a lock is refused;
  and never more than one too many, which an interp with doUnlock:false does not have.
  An interp that gives up its mutex in `Jsi_Sleep` while it waits for an eval has one
  level less in the meantime (`Sleeps`). The proof found that a doUnlock:false interp which
  waits for an eval in another thread keeps the level that others give up: `Away` had to
  count it.
- `UnnestedNeverDeadlocks`: `Unnested /\ Descends /\ Spec => []NoDeadlock`, which the run
  `threads` shows for a chain of three (`ChainNoDeadlock`), here for every tree of interps
  and any depth of calls. `Unnested`: scripts use calls, aliases and sleep, every interp
  gives its mutex up, and locks are not timed; `Descends`: no interp is below itself.
  `Calm`, with `Balanced`, leaves a thread no mutex but that of its innermost activation
  (`OwnsOne`): one that waits and keeps another waiting is in a lookup, and waits for a
  child (`WaitsForLookup`), so that the lowest of a circle has nobody to wait for. With
  nested evaluations the claim is false: they keep levels of the caller's mutex
  (`locksCall`).

`JsiEvents_proofs`, for every number of loops and events, any hash function and any set
of delays and options, from `EventsAssumption`:

- `TypeCorrect`, `TimeoutsRunOnce` (`TimeoutOnce`), `NoFreedEventRead` (`NoFreedEvent`),
  from `Inductive`. `LoopsSound`: a loop that is not the innermost runs a handler.
  `Undisturbed`: while no handler has cleared or updated there is one loop, and what it runs
  and what it has read ahead exist and differ. `OnceTimers`: what runs once is a timer. A
  timeout that is active in several loops has run as often (so that the count is bounded by
  the depth, not by two, as the model had it at first).
- `UpdatesWait` (`UpdateWaits`), an action property, from the same invariant: an update
  does not return too early, nor sleep again once its time has passed.
- `PassesAdvance` (`PassAdvances`), from `BucketAhead`: the entry that a pass has read ahead
  is in the bucket it is in. However many events handlers make, what a pass has before it
  (`Ahead`: events made before it, in the rest of its bucket and in those to come) never
  grows, and shrinks by each event that it runs. So a pass ends if its handlers do, for any
  number of events, which `UpdateEnds` can show only up to `MaxIds`.

`JsiHash_proofs`, for every hash function, set of keys and sizes, from
`HashAssumption`:

- `TypeCorrect`, `AlwaysSound` (`TableSound`, that is `ChainsSound` and, for tables whose
  keys are not structs, `KeysUnique`), `OneEntryPerKey`: `IInv` is their conjunction; soundness is
  what makes a lookup find an existing entry, and so keeps keys unique.
- `TableIsMap`: `~StructKeys => (Spec => ImplementsDict)`: every step of the table
  is a step of the map or leaves it, under the refinement mapping in `JsiHash`.
- `SearchesAreSound`: `Spec => []SearchSound`, for one search among any calls. `OnItsWay`
  says that what was returned lies in buckets before the one that is walked, and what is to
  be returned is the rest of that bucket or lies in those to come. It holds until the table
  is rebuilt. The proof found that after a rebuild even a caller who deletes only what it
  was given may make the search read a freed entry: the rebuild may put an entry that was
  returned behind the next one, so that it is returned again (section 5).

`InterpLife_proofs`, for every set of interps and records and any depth of the
stack, from `LifeAssumption`:

- `ThmTypeOK`, `ThmLevelsCount`, `ThmNeverUnderfoot`, `ThmAliasesAccounted`, all from
  `Inductive`. The invariant has six parts. `Levels` says that the level of an interp
  is the number of its frames plus the evals of it. `Placed` says that every frame
  runs in a live interp, and a frame of a sub-interp above one of its parent: so an
  interp with code of a descendant on the stack has a level above zero, deletion
  declines, and what is deleted with an interp is idle. `OneStart`: an interp has one
  start frame, the program's is at the bottom. `Parents`: the owner of an interp is an
  object of its parent. `Tables`: each record is in one table, and only live objects
  have entries. `TypeOK` includes that levels are natural numbers, for which
  `Levels` is needed. Each was checked with TLC before it was proved.
- `ThmOwnersAgree`, `ThmEndsClean`, from `OwnersInductive`. `Owners` says that an interp
  that lives, unless only preservation keeps it, has its owner, that an owner has its
  interp unless that ended itself, and that the parent of what lives is alive. What goes
  with an interp is the least set closed under owning (`DeletedWith`); lemma `Least`
  shows that it is one, without induction. `Above`: an alias or an onExit function runs
  on the frame of the child that called it; with `OneStart` it follows that the
  program's own frame is the last to go. The attempt found a guard of `Exit` that
  grouped `A /\ B => C` the wrong way, by which interps could exit that did not run; the
  model now has what the code does.

`SqliteDb_proofs`, for every set of texts, limits and sizes, any number of rows and
calls and any depth of queries in queries, from `SqliteAssumption`:

- `TypeCorrect`, `StatementsAccounted` (`Accounted`) and `NoForeignStatement`
  (`CacheSafe`), from `Inv`. What carries the proof is `Sound(c, H)`: while the
  statements `H` are in use, none of them is on the list, the list names each
  statement once and at its first row, and no entry of the hash leads to a live
  statement of another text. `Keeps` relates two caches between which that, and the
  completeness of the hash, is preserved; there is one lemma for each operation of the
  code (prepare, find, reset and release, trim, free, flush), and an action combines
  them. Two conjuncts are conditional: after a flush the hash may lead to what was
  freed, and a query that returns early leaves its statement behind.
- `DepthCounted` (`TransactionDepth`) and `TransactionsAtomic` (`TransactionAtomic`),
  from `NestedInv`. `Nested(p)` says that the active calls of `transaction()`, at the
  positions `p` of the stack, correspond one to one to the transactions open in the
  connection, that each call's `base` is the data saved when its transaction began and
  that these grow inwards. It holds while nothing else begins or ends a transaction.
  When the database was closed or lost in the middle, the outermost call's base is what
  the file keeps; that needs `ClosedInv`, by which a closed database has no statement
  left that could still write. `Ranked` (only the outermost transaction can be one that
  BEGIN opened) makes the latest savepoint the innermost transaction.

`Library_proofs`, for signals from `SignalsAssumption`, for every set of interps and
signals and any depth of passes; for the Websocket server from `SocketConstants` (finitely
many places and extensions), for any number of connections, messages and handlers and any
depth of services within callbacks:

- `SocketIsSound`: `SocketSpec => []SocketSound`, from `SocketInv`. `FramesSound` ties the
  functions that run to the connections: each connection that is asked for or was closed
  has one frame, so that no callback finds it twice. `SessionsSound` is what is left of
  `TableIsSessions` after an onClose that failed: a session that exists is in the table, but
  others may be. `StacksSound` numbers the messages: what waits on a stack was sent to that
  session and was not written, sessions to come have no messages, and a write of k messages
  of a stack takes the last k and leaves the first (`WriteLeaves`), so that each is written
  once. `UpdatesSound`: only the outermost `update` remembers the callback of `conf`.
- `SignalsAreSound`: `Spec => []SignalsSound`. `Typed` says that a pass which is not the
  innermost runs a callback; `OriginalKept` that the disposition kept for a signal that
  left the default is the one the process began with. `BitsCovered` is the account of
  callbacks: a bit that is set counts as a callback to come, so that callbacks run and
  still due are no more than signals sent, from the start and since each event was made.
  `LoadedSet`: what is about to be stored clears a bit that was set in what was loaded.
  All of it holds until two threads have changed the mask at once (`torn`, section 5).

`Runtime_proofs`, for shared libraries for every set of files, names and objects and any
depth of loads; for exec() from `ExecAssumption` (the constants have their types), for any
commands, any number of descriptors and processes and any number of calls:

- `ExtensionsAreSound`: `Spec => []ExtensionsSound`. `LibrariesOpen` balances the opens of a
  file with its record, its running Inits and the loads of what was loaded already;
  `RegisteredOpen` says that what registered a class or a command is open until the
  libraries are closed; `ClassesKnown`, that each index was given out by its class;
  `EntriesThere`, that an object has its entry until the classes go.
- `ExecIsSound`: `ExecSpec => []ExecSound`, from `ExecIInv`. `KidsSound` ties the table to
  the children: between calls all of it is detached, while it is reaped the entries from
  `at` on are the children that were not reaped, and in a call it has those of the call.
  `FdsSound` accounts for every descriptor by the variable that has it, so that no cleanup
  closes one twice or misses one. `PipesSound` carries `NeverStuck`: `Numbered` says that
  below the pipe exec reads at most one descriptor is free, the one its input had, so that
  every end opened later has a higher number than the reading end and a child, which
  closes what lies behind its own descriptors, does not inherit it (`Grown`, of a fork);
  `Chained`, that a child which reads a pipe is the only one that does, and that those who
  write it were forked before; `Fresh`, that children of earlier calls have no end of
  these pipes. Hence the first child that is alive reads what nobody writes any more.
  `Numbered` and `Fresh` were found with TLC, on an instance of three sets of descriptors,
  before the proof. The two slips of section 5 are in the statement: `lost` and
  `forgotten`.

Only model-checked, since it is out of the prover's reach: everything under fairness
(`SyncAnswered`, `TimersRun`, `UpdateEnds`, the fairness of `ImplementsService`), which
needs `ENABLED`; the calls of `JsiArray`, which are folds over sequences and need
induction; and `EvalCode`, `EvalExpr`, `JsiTree`, `ZipFs`, `HostFiles` and
`JsonText`, which use RECURSIVE operators. Only model-checked so far: the properties of
`FileObjects` and `Options`.

## 5. Where the code and what it says part

Four runs show a disagreement (`PROJECT.json`, findings):

- `queuesLost`: `SubInterpEvalCallback` empties `interpEvalQ` where it takes the
  messages (jsiInterp.c:1215); a script posted meanwhile is erased.
- `locksCall`: `InterpCallCmd` takes the child's mutex while it holds its own
  (1335); the child's loop keeps a level of its mutex while an alias waits for the
  parent's. Both wait for ever.
- `eventsEarly`: a timer that is due on a whole second runs in every pass until
  then (jsiCmds.c:175).
- `arraysPush`: `a.splice(1)` on two elements leaves the second past the end (its loop
  at jsiArray.c:829 empties only places it moved an element from); `a.push(9)` then
  overwrites it in place and the length stays 1 (jsiObj.c:275).

These are in the models, as the code has them, without a run of their own:

- Queues. Messages appended between recvCmd and the reset of the queue are lost or
  cut (1220). A synchronous eval whose script calls `sys.update()`, or that meets a
  refused lock before it is unlinked, is evaluated again (1236, 1260); `EvaluatedAgain`
  says that nothing else makes it so. `eval`
  returns the value of whatever was evaluated last (1138). A caller waits for ever
  when the thread ends under it (1114). `recvCmd` as a function is called with a
  NULL return pointer and writes through it (jsiFunc.c:157-163). `eval` tests the
  wrong interp for being gone (1058).
- Mutexes. A synchronous eval may leave one level behind, since `Jsi_Sleep` in its
  wait gives up and takes back a level the thread may not have (1114-1126); with
  nested evaluations it gives up one of several levels only, so the eval may not be
  served by who needs that mutex (1077). Aliases convert arguments and results
  without the parent's mutex (349).
- Events. A handler that clears its own event, or the one read ahead, makes the
  pass read freed memory (jsiCmds.c:208, jsiHash.c:578). A timeout whose handler
  calls `sys.update()` fires again. Clearing the queue handler's event leaves
  `hasEventHdl` set. `minTime` may end up to a second early (320). The loop of a
  thread does not end on `exit()`, since it ends on negative counts (1563 of
  jsiInterp.c) and `JSI_ERROR` is positive. The option `maxEvents` of
  `sys.update()` is read and never used (282).
- Hash. Struct keys are never found (291-297, 317-341); no table of the program
  has them. A creation during a search may make it skip or repeat entries; an entry that
  is returned again may be deleted by its caller between the two times, and the search then
  reads it.

- Life. `exit()` in a start script makes `Jsi_EvalString` free the interp
  (jsiEval.c:1862) while the constructor still works with it: with code 0 the new
  object points to freed memory, else `interpObjErase` reads it (`selfEnded`). An
  alias replaced or removed while it runs has its count decremented in the freed
  record (jsiInterp.c:256). `alias(name, f, null)` leaves an entry with a NULL record,
  which later calls of alias use (436-448). An alias whose argument is the interp
  object, as in the wiki's own example (js-interp.wiki:139), makes a cycle and a double
  free at the end. An interp that was preserved when it was deleted is never freed
  (979). An error in onExit counts as false, so the exit goes on.
- Sqlite. A statement in use is found by a second query with the same text, which
  takes it out of a list it is not in (jsiSqlite.c:599-630). A flush frees statements
  and leaves their hash entries (853). exec with a callback or with mode none returns
  without finalizing when the limit is reached or the callback ends it (1822,
  3222-3231). A comment after the last semicolon gives a NULL statement that is used
  (783). close() fails with SQLITE_BUSY while statements are cached, and the
  connection is leaked (2966). A multi-record query inside transaction() fails at its
  BEGIN and then rolls back the caller's transaction; import() goes on after a failing
  BEGIN and commits the outer one.
- Evaluator. `return` inside try skips finally (a warning says so, jsiEval.c:1392); a
  break with no loop, or to a labelled block, is only logged (1601). One
  `last_exception` is kept: an exception raised and caught inside a finally loses the
  pending one's value. A jump out of try shortens the stack before the finally block
  runs (1308), and a with that is left by a throw or a jump does not take its depth
  back (1583).
- Expressions. A variable is pushed as a reference and read when its operator is
  evaluated (jsiEval.c:131), so that `(a=1)+(a=2)` is 4. The object of a method call is
  kept in `Obj_this` by its place on the stack: after a method call whose arguments throw
  or whose callee is no function it stays there, and a later call at that place takes it
  for its `this` (619). `o.x++`, where o has no x of its own, counts in a cell that no
  object holds (jsiValue.c:783). `PUSHTOP2` may read a place of the stack that was never
  allocated (959). A `var a` in a function hides its parameter a. `({}) === "[object
  Object]"` is true; any comparison with NaN gives undefined.
- Exec. A child in the background that still runs is dropped from the table at the
  next exec and never reaped, since waitpid returns 0 for it and only
  `JSI_BAD_PID` counts as not ended (jsiExec.c:342), against the comment that says
  "Ignore it until it exits, then forget about it" (236). If vfork fails behind `|&` the
  descriptor for errors is leaked (834, 914); so is the output pipe when fdopen fails
  (193). A word that starts with a bar, like `|x`, starts a process that was not
  counted, and the array of pids is overrun (620, 793, 882).
- Arrays. filter shares its values with the array it came from (jsiArray.c:303): an
  assignment to an element, or pop(), then changes the other array too, and sets the
  count to 1, so that the first array freed frees it for both. When the function of map or
  filter throws, the error is swallowed: they return null and success (257, 315), and the
  values of the new array are leaked, since its length is still 0 when it is freed; those
  that filter shared keep the count it added. `splice(start, n)` with n
  greater than start + 1 has its result in a block too small (816-826). slice() includes
  its end, against what scripts expect, and with an end past the last element reads the
  place after it, or past the block (616-640).
- Archives. `append` is said to add to an existing archive (help in jsiZvfs.c), but the
  table it writes gives every old file the offset 0, so that they are lost. `create`
  does the same to an archive that exists, although the help says that an error is
  given (2087): it looks for an entry `*TOC*`, which nothing makes. Seeking
  does not empty the buffer of the object, so that what is read next is from before;
  seeking back in a compressed entry does not reset the decompressor and may never end.
  Unmounting frees the archive under channels that are still open.

- Websocket. Messages are written in the reverse of the order they were sent in (a stack
  is popped). An onClose function that fails leaves its session in `pssTable` while
  libwebsockets frees it. `maxConnects` is tested when a connection arrives and counted
  when it is established, so that it can be exceeded. `Jsi_StackFreeElements` passes
  NULL to the function that frees, so that unsent messages are leaked. `handler()` leaks
  the value it replaces. `update(function)` keeps the function without a reference, and
  `conf` in it frees it. An update in a callback may close the connection that the
  callback goes on to use. A quote in a page that has a handler gives two answers, a
  handler that fails none; the name of a native file is leaked while it is sent. The
  default page is sent 1000 times only (`redirCnt`). An error in the options leaks the
  object; `pssTable` is never freed.
- Names of files. Removing, by force, a link to a directory that cannot be removed empties
  that directory; a forced remove reports success for what it could not remove; a link that
  leads nowhere is not found and never removed. Rename and copy ask through links whether
  the target exists. Copy leaks its source when the target cannot be opened, empties a file
  that is copied onto itself, and takes an error while reading for the end. In glob `max`
  ends the innermost directory only, `tails` gives names below the top a leading slash,
  directories are listed with the option for just files, and a skipped entry is leaked.
  A write that is cut short is repeated from its beginning.
- File objects. After close(), or an open() that failed (it answers true), seek, tell, eof,
  flush, truncate, stat and mode use freed memory. Another thread may close or open an
  object while a read or a write is without the mutex. Truncating ignores what is buffered.
  read(n) with n over `BUFSIZ` overruns its buffer (jsiFilesys.c:797).
- Signals. The mask is loaded and stored without protection (jsiSignal.c:143), so that a
  signal is lost or comes back. `sigloc` leads to freed memory when the primary interp is
  deleted. Of two callbacks for a signal only one runs. A list of names with a wrong one
  leaves those before it changed; a bit left over fires a callback made later; signals that
  nobody may catch are recorded as handled.
- Extensions. Loading what is loaded answers OK without closing what was opened, also for
  another file of the same name; loading oneself in an Init gives "duplicate load". An Init
  that fails leaves its commands behind when the library is closed (jsiLoad.c:107).
  `Jsi_UserObjUnregister` reads the entry it has freed. Objects held by events outlive their
  class at the deletion of the interp, and use what was freed.
- Options. null for a record of options stops at its first enum, and values set back by
  null lose their reference; a reset marks every option as specified; `execOpts` is
  cleared with memset when the database is freed, so that its callback is leaked.
  `ValueToVerify` multiplies the offset and goes beyond the record. A dynamic string is
  made again without being freed; a wide integer is stored as an unsigned int.
  Constructors and queries with a bad option, or with cdata, return without freeing.
  What may only be set at first is not refused in a record of options; without strict
  mode a name that fits two options is ignored; the flags are shared by all records of
  one specification.
- JSON. `\"` and `\/` are decoded to nothing, though `Jsi_JSONQuote` writes them; names
  are neither decoded nor escaped; an empty array or object at the top, or a scalar
  without strict mode, is read as null, also when it was carried from one interp to
  another. `JSON.parse("1,2")` in strict mode uses a NULL token, and a text of spaces
  reads one that was never set. An object whose tokens are odd in number, or with a
  container for a name, makes the generator skip or pass tokens. A primitive at the end
  of the text is refused in strict mode, which takes ":" into a primitive (`{1:2}`).
  Writing leaves backslashes as they are, writes each byte of a character as `\u00xx`,
  and forgets the comma behind a string that ends in "{". `\u0000` cuts the text short.

These are outside the models:

- Threads: `scriptFile` of a threaded sub-interp is never run (`else if
  (interp->scriptStr)`, jsiInterp.c:1557); an asynchronous `call` with an array loses
  its arguments (1392); an error in the options after `subthread` decrements a counter
  that was not incremented (643, 861); `numEntries--` after the table's lock is given
  back (jsiHash.c:495); the search calls the lock procedure with 0 where it means to
  lock (569); exec closes the output descriptor twice (jsiExec.c:896, 912), by
  which time another thread may have opened it.
- Life: an alias with a dotted name whose scope does not exist leaves a record without
  a command; `interpObjErase` does not clear the object's alias table, so that
  "Sub-interp gone" is never said; `jsi_eval` leaves its flags changed on a parse error
  (jsiEval.c:1729).
- Evaluator: `maxOpCnt > opCnt` is compared the wrong way round (820).
- Sqlite: a callback that returns true ends a query with an error, the wiki says that
  false ends it (js-sqlite.wiki:118, jsiSqlite.c:1817); the type of a transaction is
  read from argument 0, the help says 1; errors of the constructor return JSI_OK
  (1886-2032).
- Trees: deletion in the trees of objects swaps keys and values but not the flag bits, so
  dontenum, readonly and the like move to another property (jsiTree.c:580-588); struct
  trees lack `n = pred`; searches in preorder do not end (no caller asks for one); a
  search of more than 200 pending pointers does not copy the first; "1,2" equals "12"
  in the dictionary order.
- Files: `Jsi_Rename` compares the file system of the source with itself (jsiFilesys.c:411);
  `Jsi_FSUnregister` uses the node it has freed (326-340). Extensions:
  `jsi_FreeOneLoadHandle` takes a reference to the name of the file where it should give one
  up (jsiLoad.c:145). JSON: code points above FFFF are cut.
- Exec: the exit code is 256 when the first child was killed (jsiExec.c:1001-1009);
  redirections between or behind bars give an empty command.
- Arrays (jsiArray.c): isArray() answers the opposite (425); `Jsi_ValueCmp` cuts the
  difference of two numbers to an int, so that `indexOf(1.5)` finds 1.2 and fractions are
  not sorted.

## 6. What is not modelled

Of the modelled components: `InterpQueues` leaves out the deletion of the sub-interp
from the parent while requests are pending, and the layout of the joined texts.
`InterpLocks` leaves out `QMutex` (steps of `InterpQueues`), the lock of key tables
shared by threads, and deletion. `JsiEvents` leaves out signal events (`Signals` has
them, on its own) and the websocket's event, the deletion of the interp by a handler,
rebuilds of the event table (fewer than 30 events), and the option `sleep`. Time passes
in handlers, sleeps and top-level scripts, not in the pass itself. `JsiHash` leaves out
`Jsi_HashDelete`, the hash functions (a bucket is any function of key and size) and
`lockProc`.

`InterpLife` leaves out threaded interps, interps without a parent, errors in the
options of a new interp, the depth limit and the counters of threads. `SqliteDb` leaves
out the reading of options, binding and formatting, backup, profiling, and the rollback
that sqlite does by itself on some errors; what `DbExecBinds`, `import`, `evaluate` and
a commit run is one step, without hooks in the midst of it; and the case of mode insert
falls through into that of CSV (jsiSqlite.c:3466), so that a query which its limit ended
steps on, which is not modelled. `EvalCode` has the opcodes of control; all else is one
opcode that reports, or one that fails, and `EvalExpr` has the opcodes of expressions,
without bit operators, for-in, getters, regular expressions and commands written in C,
the comparison of two strings by order, the sharing of arguments (`jsi_SharedArgs`), the
cache of `FastVar`, and the wording of errors that depends on the last subscript that
failed. `JsiTree` leaves out struct keys, preorder and the comparison functions.
`ExecPipeline` leaves out Windows, the text of results, other threads, and a wait that a
signal interrupts (EINTR of `waitpid`, jsiExec.c:367, which drops the child from the
table as if it had ended). `JsiArray` leaves out join, indexOf and lastIndexOf (which
change nothing), assignment to the length, arrays that are kept as trees, sort with a
function, and the negative indices of slice and splice. `ZipFs` leaves out stat, glob,
access and the forms of names, deflate and inflate, and files of the host.

`Websocket` leaves out the client, SSL and the text of headers, and the early returns of
callbacks when the interp is being deleted (`Jsi_InterpGone`, jsiWebsocket.c:650, 695,
708, 789); libwebsockets is what its documentation says of callbacks. `HostFiles` and
`FileObjects` leave out the registration of file systems, chmod and times, and the forms
of paths; the host is a tree with links, and what the C library has read ahead is not
kept, so that a read gives what is in the file, also after another File has truncated
it. `Signals` leaves out the names of signals; the handler sets its bit in one step,
although `*sigloc |=` (jsiSignal.c:27) is a load and a store that the handler of another
thread may come between, with the same effect as `torn`; and what a pass does to events
that are cleared under it (`JsiEvents` has that). `Extensions` leaves out the stub
tables and the search for a file; the variables go in one step, before the classes,
where `jsiInterpDelete` frees what is left of them and of the objects after the events,
from `varTbl` to `genObjTbl` (jsiInterp.c:872-874). `Options` leaves out the printing of
specifications, `Jsi_OptionsDup`, the table of C data and options of dates. `JsonText`
leaves out how numbers are written and read (with NaN and Infinity), `JSON.check`, the
cut at `maxDepth` (jsiUtils.c:284), and names written without quotes outside of JSON
(268).

The other components of section 1 are not modelled. Reference counts of values and
objects change at every opcode and every conversion, in some hundred places, and a model
with the few that fit would say nothing of the others. Dynamic strings, numbers,
strings, formats: algorithms over data with little control, better served by tests
against reference implementations. The lexer is a table of tokens, the parser generated.
Other commands, utilities and the main program: wording, conversions, I/O.

## 7. What could follow

1. The queue handler of `InterpQueues` as an event of `JsiEvents`, for the hazard that
   clearing it leaves the queues unserved.
2. Threaded interps in `InterpLife`, with the counters of threads.
3. Two threads in `ExecPipeline`: children inherit what the other thread has open.
4. Proofs: `FileObjects` and `Options`.

Constants stay parameters with assumptions, operations one action each, and no
module that theorems are about uses RECURSIVE.
