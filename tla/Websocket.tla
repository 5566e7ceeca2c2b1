----------------------------- MODULE Websocket -----------------------------
(***************************************************************************)
(* A Websocket object: its sessions, the messages queued for each, the     *)
(* pages it serves (jsiWebsocket.c).                                       *)
(*                                                                         *)
(* libwebsockets is external.  While a call of libwebsocket_service runs   *)
(* it may call back for any connection in any order the protocol allows;   *)
(* it owns the memory of a session, which it hands to the callbacks as     *)
(* user, and frees it when CLOSED returns, whatever that returns.  The     *)
(* functions of the script (onOpen, callback, onClose, onCloseLast and the *)
(* handlers of pages) run within callbacks and may send, update, that is   *)
(* call libwebsocket_service again, and change handlers.                   *)
(***************************************************************************)
EXTENDS Integers, Sequences, FiniteSets, SequencesExt

CONSTANTS
    Slots,         \* the places in memory a session may have
    Exts,          \* extensions of files that may get a handler
    Values,        \* the values of handlers
    Requests,      \* what is asked for by HTTP, see Request
    MaxConnects,   \* the option maxConnects, 0 for none
    MaxRedirects,  \* how often the default url is sent (1000 in the code)
    MaxIds, MaxMsgs, MaxFrames, MaxHttp,   \* bounds
    None

VARIABLES
    server,      \* the WebsocketObj: "none", "live", "freed" or "lost"
    holds,       \* what it holds: of context, options, event, handlers
    conn,        \* libwebsockets: where the connection with this slot is
    want,        \* libwebsockets: SERVER_WRITEABLE was asked for
    pss,         \* the memory of each slot: Freed, Zeroed, or a session
    table,       \* the keys of pssTable
    connectCnt,
    idx,         \* the id of the next session
    callback,    \* "conf", or "arg" during update(function)
    handlers,    \* the value for each extension, or None
    refs,        \* how many references the table of handlers has taken to each value
    redirCnt,
    http,        \* the answers to the last request, and its name's references
    frames,      \* what runs: services, and functions of the script
    queued, got, \* auxiliary, by id: messages sent to the session, and those written
    flaw,        \* memory that was misused, which ends a behaviour
    ways         \* auxiliary: what has happened that the code does not provide for

sessionVars == <<conn, want, pss, table, connectCnt, idx>>
handlerVars == <<handlers, refs>>
httpVars == <<redirCnt, http>>
messageVars == <<queued, got>>
serverVars == <<server, holds>>
socketVars == <<serverVars, sessionVars, callback, handlerVars, httpVars, frames, messageVars,
                flaw, ways>>

Freed  == [sig |-> "freed", id |-> -1, stack |-> <<>>]
Zeroed == [sig |-> "zero", id |-> -1, stack |-> <<>>]
Session(n) == [sig |-> "pss", id |-> n, stack |-> <<>>]

Frame(k, s) == [kind |-> k, slot |-> s, id |-> -1, old |-> callback, req |-> None]
Services == {"service", "update", "destroy"}
Functions == {"onOpen", "callback", "onClose", "onCloseLast", "handler"}

Topmost == frames[Len(frames)]
Popped == SubSeq(frames, 1, Len(frames) - 1)
Push(f) == Len(frames) < MaxFrames /\ frames' = Append(frames, f)

Destroying == \E i \in DOMAIN frames : frames[i].kind = "destroy"
\* A script runs; none that runs while the object is freed can name it.
ScriptRuns == /\ flaw = "none" /\ server = "live" /\ ~Destroying
              /\ frames # <<>> => Topmost.kind \in Functions
\* libwebsockets has been called, and calls back.
Serving == flaw = "none" /\ frames # <<>> /\ Topmost.kind \in Services
Returns(k) == flaw = "none" /\ frames # <<>> /\ Topmost.kind = k

Messages == Cardinality(UNION {queued[i] : i \in DOMAIN queued})
Open == {s \in Slots : conn[s] = "open"}

SocketInit ==
    /\ server = "none" /\ holds = {}
    /\ conn = [s \in Slots |-> "none"] /\ want = [s \in Slots |-> FALSE]
    /\ pss = [s \in Slots |-> Freed] /\ table = {} /\ connectCnt = 0 /\ idx = 0
    /\ callback = "conf"
    /\ handlers = [e \in Exts |-> None] /\ refs = [v \in Values |-> 0]
    /\ redirCnt = 0 /\ http = [n |-> 0, answers |-> 1, names |-> 0, odd |-> FALSE]
    /\ frames = <<>>
    /\ queued = [i \in 0..(MaxIds - 1) |-> {}] /\ got = [i \in 0..(MaxIds - 1) |-> <<>>]
    /\ flaw = "none" /\ ways = {}

-----------------------------------------------------------------------------
(* Construction and deletion. *)

\* Which step of WebsocketConstructor fails decides what websocketObjFree has to take
\* back; after an error in the options nothing is.
Constructed(fails) ==
    /\ server = "none" /\ frames = <<>>
    /\ CASE fails = "options" -> server' = "lost" /\ holds' = {"options"}
         [] fails \in {"context", "connect", "userobj"} -> server' = "freed" /\ holds' = {}
         [] fails = "nothing" ->
              server' = "live" /\ holds' = {"options", "context", "event", "handlers"}
    /\ UNCHANGED <<sessionVars, callback, handlerVars, httpVars, frames, messageVars,
                   flaw, ways>>

Construct == \E fails \in {"nothing", "options", "context", "connect", "userobj"} :
                Constructed(fails)

\* The last reference to the object goes; libwebsocket_context_destroy closes what is
\* open, with CLOSED for each session.
Drop ==
    /\ ScriptRuns /\ frames = <<>>
    /\ Push(Frame("destroy", None))
    /\ UNCHANGED <<serverVars, sessionVars, callback, handlerVars, httpVars, messageVars,
                   flaw, ways>>

\* websocketObjErase, with freeHandlers for every handler.
Destroyed ==
    /\ Returns("destroy")
    /\ \A s \in Slots : conn[s] \notin {"open", "closing"}
    /\ server' = "freed" /\ holds' = {}
    /\ conn' = [s \in Slots |-> "none"]
    /\ refs' = [v \in Values |->
                  refs[v] - Cardinality({e \in Exts : handlers[e] = v})]
    /\ handlers' = [e \in Exts |-> None]
    /\ frames' = Popped
    /\ UNCHANGED <<want, pss, table, connectCnt, idx, callback, httpVars, messageVars,
                   flaw, ways>>

-----------------------------------------------------------------------------
(* What scripts do. *)

\* wsService: after 50 ms every session is to be called back when it can be written.
Asked(due) == want' = [s \in Slots |-> want[s] \/ (due /\ conn[s] = "open")]

Service ==
    /\ ScriptRuns
    /\ \E due \in BOOLEAN : Asked(due)
    /\ Push(Frame("service", None))
    /\ UNCHANGED <<serverVars, conn, pss, table, connectCnt, idx, callback, handlerVars,
                   httpVars, messageVars, flaw, ways>>

\* update(function): the function stands in for callback, uncounted.
WebsocketUpdate ==
    /\ ScriptRuns
    /\ \E due \in BOOLEAN : Asked(due)
    /\ Push(Frame("update", None))
    /\ callback' = "arg"
    /\ UNCHANGED <<serverVars, conn, pss, table, connectCnt, idx, handlerVars, httpVars,
                   messageVars, flaw, ways>>

ServiceReturns ==
    /\ flaw = "none" /\ frames # <<>> /\ Topmost.kind \in {"service", "update"}
    /\ callback' = IF Topmost.kind = "update" THEN Topmost.old ELSE callback
    /\ frames' = Popped
    /\ UNCHANGED <<serverVars, sessionVars, handlerVars, httpVars, messageVars,
                   flaw, ways>>

\* conf({callback:f}) gives up a reference to the function it replaces, also when that
\* is the argument of an update, which nobody counted.
WebsocketConf ==
    /\ ScriptRuns /\ callback = "arg"
    /\ flaw' = "freed function" /\ ways' = ways \cup {"conf"}
    /\ UNCHANGED <<serverVars, sessionVars, callback, handlerVars, httpVars, frames,
                   messageVars>>

\* A message is put on the stack of one session, or of all (target -1).
WebsocketSend(target) ==
    /\ ScriptRuns /\ Messages < MaxMsgs
    /\ LET msg == Messages + 1
           to == {s \in table : target = -1 \/ pss[s].id = target}
       IN IF \E s \in table : pss[s].sig # "pss"
          THEN flaw' = "freed session" /\ UNCHANGED <<pss, queued>>
          ELSE /\ to # {}
               /\ pss' = [s \in Slots |->
                            IF s \in to THEN [pss[s] EXCEPT !.stack = Append(@, msg)]
                            ELSE pss[s]]
               /\ queued' = [i \in DOMAIN queued |->
                               IF \E s \in to : pss[s].id = i THEN queued[i] \cup {msg}
                               ELSE queued[i]]
               /\ UNCHANGED flaw
    /\ UNCHANGED <<serverVars, conn, want, table, connectCnt, idx, callback, handlerVars,
                   httpVars, frames, got, ways>>

\* handler(ext, value); a value that is replaced keeps the reference of the table.
SetHandler(e, v) ==
    /\ ScriptRuns
    /\ handlers[e] # v /\ refs[v] < 2
    /\ handlers' = [handlers EXCEPT ![e] = v]
    /\ refs' = [refs EXCEPT ![v] = @ + 1]
    /\ ways' = IF handlers[e] = None THEN ways ELSE ways \cup {"replaced"}
    /\ UNCHANGED <<serverVars, sessionVars, callback, httpVars, frames, messageVars, flaw>>

\* handler(ext, null)
UnsetHandler(e) ==
    /\ ScriptRuns /\ handlers[e] # None
    /\ refs' = [refs EXCEPT ![handlers[e]] = @ - 1]
    /\ handlers' = [handlers EXCEPT ![e] = None]
    /\ UNCHANGED <<serverVars, sessionVars, callback, httpVars, frames, messageVars,
                   flaw, ways>>

-----------------------------------------------------------------------------
(* What libwebsockets calls back for: sessions.                            *)

\* FILTER_NETWORK_CONNECTION: a connection is refused when maxConnects sessions exist.
Connect(s) ==
    /\ Serving /\ Topmost.kind # "destroy" /\ conn[s] = "none"
    /\ MaxConnects = 0 \/ connectCnt < MaxConnects
    /\ conn' = [conn EXCEPT ![s] = "accepted"]
    /\ UNCHANGED <<serverVars, want, pss, table, connectCnt, idx, callback, handlerVars,
                   httpVars, frames, messageVars, flaw, ways>>

\* FILTER_PROTOCOL_CONNECTION: onOpen may refuse.
Upgrade(s) ==
    /\ Serving /\ Topmost.kind # "destroy" /\ conn[s] = "accepted" /\ idx < MaxIds
    /\ conn' = [conn EXCEPT ![s] = "asked"]
    /\ pss' = [pss EXCEPT ![s] = Zeroed]
    /\ Push(Frame("onOpen", s))
    /\ UNCHANGED <<serverVars, want, table, connectCnt, idx, callback, handlerVars,
                   httpVars, messageVars, flaw, ways>>

\* ESTABLISHED, with getPss: the slot becomes the key of a new entry.
GetPssNew(s) ==
    IF s \in table
    THEN flaw' = "session of another" /\ UNCHANGED <<conn, pss, table, connectCnt, idx>>
    ELSE /\ conn' = [conn EXCEPT ![s] = "open"]
         /\ pss' = [pss EXCEPT ![s] = Session(idx)]
         /\ table' = table \cup {s}
         /\ connectCnt' = connectCnt + 1
         /\ idx' = idx + 1
         /\ UNCHANGED flaw

OpenReturns ==
    /\ Returns("onOpen")
    /\ \/ idx < MaxIds /\ GetPssNew(Topmost.slot)
       \/ /\ conn' = [conn EXCEPT ![Topmost.slot] = "none"]
          /\ pss' = [pss EXCEPT ![Topmost.slot] = Freed]
          /\ UNCHANGED <<table, connectCnt, idx, flaw>>
    /\ frames' = Popped
    /\ UNCHANGED <<serverVars, want, callback, handlerVars, httpVars, messageVars, ways>>

\* RECEIVE, with the function for the data.
Receive(s) ==
    /\ Serving /\ Topmost.kind # "destroy" /\ conn[s] = "open" /\ s \in table
    /\ Push([Frame("callback", s) EXCEPT !.id = pss[s].id])
    /\ UNCHANGED <<serverVars, sessionVars, callback, handlerVars, httpVars, messageVars,
                   flaw, ways>>

\* Afterwards every session is to be called back; after an error this one is closed.
\* Both need the connection, which a nested service may have closed.
ReceiveReturns(fails) ==
    /\ Returns("callback")
    /\ LET s == Topmost.slot IN
       IF conn[s] = "open" /\ pss[s].id = Topmost.id
       THEN /\ conn' = [conn EXCEPT ![s] = IF fails THEN "closing" ELSE @]
            /\ want' = [t \in Slots |-> want[t] \/ (~fails /\ conn[t] = "open")]
            /\ UNCHANGED <<flaw, ways>>
       ELSE /\ flaw' = "freed connection" /\ ways' = ways \cup {"nested"}
            /\ UNCHANGED <<conn, want>>
    /\ frames' = Popped
    /\ UNCHANGED <<serverVars, pss, table, connectCnt, idx, callback, handlerVars, httpVars,
                   messageVars>>

\* The message a write takes: the one pushed last (Jsi_StackPop).
Taken(st) == Reverse(st)

\* SERVER_WRITEABLE: the whole stack is written, until a write fails; that message is
\* lost, and the session closed.
Writeable(s) ==
    /\ Serving /\ Topmost.kind # "destroy" /\ conn[s] = "open" /\ want[s] /\ s \in table
    /\ LET all == Taken(pss[s].stack)
           n == Len(all)
       IN \E k \in 0..n :
            /\ got' = [got EXCEPT ![pss[s].id] = @ \o SubSeq(all, 1, k)]
            /\ pss' = [pss EXCEPT ![s].stack =
                         IF k = n THEN <<>> ELSE Reverse(SubSeq(all, k + 2, n))]
            /\ conn' = [conn EXCEPT ![s] = IF k = n THEN @ ELSE "closing"]
    /\ want' = [want EXCEPT ![s] = FALSE]
    /\ UNCHANGED <<serverVars, table, connectCnt, idx, callback, handlerVars, httpVars,
                   frames, queued, flaw, ways>>

\* CLOSED, with onClose.
Close(s) ==
    /\ Serving /\ conn[s] \in {"open", "closing"}
    /\ conn' = [conn EXCEPT ![s] = "closed"]
    /\ Push(Frame("onClose", s))
    /\ UNCHANGED <<serverVars, want, pss, table, connectCnt, idx, callback, handlerVars,
                   httpVars, messageVars, flaw, ways>>

\* The user memory is freed.
Gone(s) == /\ conn' = [conn EXCEPT ![s] = "none"]
           /\ want' = [want EXCEPT ![s] = FALSE]
           /\ pss' = [pss EXCEPT ![s] = Freed]

\* Faulty: the count of sessions keeps those that were closed.
DeletePssUncounted(s) ==
    /\ table' = table \ {s}
    /\ Gone(s)
    /\ frames' = Popped
    /\ UNCHANGED connectCnt

\* deletePss; after the last one, onCloseLast runs.  (Jsi_StackFreeElements hands DelPss
\* the message as the interp, so that what was not sent is not freed.)
DeletePss(s) ==
    /\ table' = table \ {s}
    /\ connectCnt' = connectCnt - 1
    /\ Gone(s)
    /\ frames' = IF connectCnt - 1 <= 0 THEN Append(Popped, Frame("onCloseLast", s)) ELSE Popped

\* If onClose fails, CLOSED returns without deletePss.
CloseReturns(fails) ==
    /\ Returns("onClose")
    /\ LET s == Topmost.slot IN
       IF fails
       THEN /\ Gone(s) /\ frames' = Popped
            /\ ways' = ways \cup {"onClose"}
            /\ UNCHANGED <<table, connectCnt>>
       ELSE DeletePss(s) /\ UNCHANGED ways
    /\ UNCHANGED <<serverVars, idx, callback, handlerVars, httpVars, messageVars, flaw>>

CloseLastReturns ==
    /\ Returns("onCloseLast")
    /\ frames' = Popped
    /\ UNCHANGED <<serverVars, sessionVars, callback, handlerVars, httpVars, messageVars,
                   flaw, ways>>

-----------------------------------------------------------------------------
(* What libwebsockets calls back for: pages.                               *)

\* root: the path is empty; ext: of the file, "" for none, "known" for one with a type of
\* its own; quote: a quote is in the name; file: "none", "dir", "native" or "virtual".
Request == [root : BOOLEAN, ext : Exts \cup {"", "known"}, quote : BOOLEAN,
            file : {"none", "dir", "native", "virtual"}]

Answer(answers, names, odd) ==
    http' = [n |-> http.n + 1, answers |-> answers, names |-> names, odd |-> odd]

\* HTTP, up to a handler: the redirection, or a file.  ServeString, the file of a virtual
\* file system and libwebsockets_serve_http_file each are an answer; the name of a file
\* that libwebsockets is still sending is not released.
Page(s, r) ==
    /\ Serving /\ Topmost.kind # "destroy" /\ conn[s] = "accepted" /\ http.n < MaxHttp
    /\ redirCnt' = IF r.root THEN redirCnt + 1 ELSE redirCnt
    /\ LET redirects == r.root /\ redirCnt < MaxRedirects
           handled == ~redirects /\ r.ext \in Exts /\ handlers[r.ext] # None
       IN \/ /\ ~handled
             /\ \/ Answer(1, 0, FALSE)
                \/ ~redirects /\ r.file = "native" /\ Answer(1, 1, TRUE)
             /\ conn' = [conn EXCEPT ![s] = "none"]
             /\ UNCHANGED <<frames, ways>>
          \/ /\ handled
             /\ Push([Frame("handler", s) EXCEPT !.req = r])
             /\ conn' = [conn EXCEPT ![s] = "page"]
             /\ UNCHANGED <<http, ways>>
    /\ UNCHANGED <<serverVars, want, pss, table, connectCnt, idx, callback, handlerVars,
                   messageVars, flaw>>

\* After the handler, its result is written; an error was sent before it ran if the name
\* has a quote, and nothing is sent if it fails.
HandlerReturns(fails) ==
    /\ Returns("handler")
    /\ IF conn[Topmost.slot] = "page"
       THEN /\ Answer((IF Topmost.req.quote THEN 1 ELSE 0) + (IF fails THEN 0 ELSE 1), 0,
                      fails \/ Topmost.req.quote)
            /\ conn' = [conn EXCEPT ![Topmost.slot] = "none"]
            /\ UNCHANGED <<flaw, ways>>
       ELSE /\ flaw' = "freed connection" /\ ways' = ways \cup {"nested"}
            /\ UNCHANGED <<conn, http>>
    /\ frames' = Popped
    /\ UNCHANGED <<serverVars, want, pss, table, connectCnt, idx, callback, handlerVars,
                   redirCnt, messageVars>>

\* A nested service finds the connection of a page that is being made closed.
HangUp(s) ==
    /\ Serving /\ conn[s] \in {"accepted", "page"}
    /\ conn' = [conn EXCEPT ![s] = "none"]
    /\ UNCHANGED <<serverVars, want, pss, table, connectCnt, idx, callback, handlerVars,
                   httpVars, frames, messageVars, flaw, ways>>

SocketNext ==
    \/ Construct \/ Drop \/ Destroyed
    \/ Service \/ WebsocketUpdate \/ ServiceReturns \/ WebsocketConf
    \/ \E t \in {-1} \cup (0..(idx - 1)) : WebsocketSend(t)
    \/ \E e \in Exts : UnsetHandler(e) \/ \E v \in Values : SetHandler(e, v)
    \/ OpenReturns \/ CloseLastReturns
    \/ \E s \in Slots : \/ Connect(s) \/ Upgrade(s) \/ Receive(s) \/ Writeable(s) \/ Close(s)
                        \/ HangUp(s) \/ \E r \in Requests : Page(s, r)
    \/ \E fails \in BOOLEAN : \/ ReceiveReturns(fails) \/ CloseReturns(fails)
                              \/ HandlerReturns(fails)

SocketSpec == SocketInit /\ [][SocketNext]_socketVars

-----------------------------------------------------------------------------
SocketTypeOK ==
    /\ server \in {"none", "live", "freed", "lost"}
    /\ conn \in [Slots -> {"none", "accepted", "asked", "open", "closing", "closed", "page"}]
    /\ table \subseteq Slots
    /\ connectCnt \in Int /\ idx \in 0..MaxIds

\* The sessions that libwebsockets has established and not yet closed.
Established == {s \in Slots : conn[s] \in {"open", "closing", "closed"}}

\* The table has the sessions that exist and nothing else, each once and with an id of its
\* own, and connectCnt counts them, whatever nests, unless onClose has failed.
TableIsSessions ==
    "onClose" \notin ways =>
        /\ table = Established
        /\ connectCnt = Cardinality(table)
        /\ \A s \in table : pss[s].sig = "pss" /\ pss[s].id < idx
        /\ \A s, t \in table : pss[s].id = pss[t].id => s = t

\* Every message goes to the sessions it was sent to, and to each once: it was written, or
\* is on the stack of the session, or the session is closed.
MessagesDelivered ==
    \A i \in DOMAIN queued :
        /\ \A m, n \in DOMAIN got[i] : got[i][m] = got[i][n] => m = n
        /\ {got[i][m] : m \in DOMAIN got[i]} \subseteq queued[i]
        /\ \A s \in table : pss[s].id = i /\ conn[s] = "open" =>
              /\ {got[i][m] : m \in DOMAIN got[i]} \cap {pss[s].stack[m] : m \in DOMAIN pss[s].stack} = {}
              /\ queued[i] = {got[i][m] : m \in DOMAIN got[i]}
                             \cup {pss[s].stack[m] : m \in DOMAIN pss[s].stack}

\* A handler in the table has a reference of it, which is the only one unless a value was
\* replaced; update(function) leaves the callback as it was; when the object is gone it
\* holds nothing.
ServerSound ==
    /\ \A v \in Values :
          LET n == Cardinality({e \in Exts : handlers[e] = v})
          IN refs[v] >= n /\ ("replaced" \notin ways => refs[v] = n)
    /\ callback = "arg" => \E i \in DOMAIN frames : frames[i].kind = "update"
    /\ server = "freed" => holds = {} /\ Open = {}

\* A request gets one answer and its name is released, unless the handler fails, the name
\* has a quote, or libwebsockets goes on sending.
PagesAnswered == ~http.odd => http.answers = 1 /\ http.names = 0

\* No freed memory is used unless onClose failed, update was called in a callback or conf
\* in an update.
MemorySound == flaw # "none" => ways # {}

SocketSound == /\ SocketTypeOK /\ TableIsSessions /\ MessagesDelivered /\ ServerSound
               /\ PagesAnswered /\ MemorySound
=============================================================================
