-------------------------- MODULE Library_proofs --------------------------
(***************************************************************************)
(* Proofs about parts of the library that call back into scripts: the      *)
(* Websocket server, for every number of connections, however deep         *)
(* services are nested; and signals, for every number of interps, of       *)
(* signals and of events, however deep passes are nested.                  *)
(***************************************************************************)
EXTENDS Signals, Websocket, FiniteSetTheorems, SequenceTheorems, TLAPS

-----------------------------------------------------------------------------
(* The inductive invariant of the Websocket server.                        *)

\* Places and extensions are finite, None is no value of a handler, and what is asked for
\* are requests.
SocketConstants ==
    /\ IsFiniteSet(Slots) /\ IsFiniteSet(Exts) /\ None \notin Values
    /\ MaxIds \in Nat /\ Requests \subseteq Request

SocketFrame == [kind : Services \cup Functions, slot : Slots \cup {None}, id : Int,
                old : {"conf", "arg"}, req : Requests \cup {None}]

SocketShape ==
    /\ want \in [Slots -> BOOLEAN]
    /\ pss \in [Slots -> [sig : {"freed", "zero", "pss"}, id : Int, stack : Seq(Nat)]]
    /\ callback \in {"conf", "arg"}
    /\ handlers \in [Exts -> Values \cup {None}] /\ refs \in [Values -> Int]
    /\ frames \in Seq(SocketFrame)
    /\ queued \in [0..(MaxIds - 1) -> SUBSET Nat]
    /\ got \in [0..(MaxIds - 1) -> Seq(Nat)]

\* What the functions that run have of the connection they run for; a connection that is
\* asked for, or was closed, has one frame.
FramesSound ==
    /\ \A k \in DOMAIN frames :
          /\ frames[k].kind \in Functions => frames[k].slot \in Slots
          /\ frames[k].kind = "destroy" => k = 1
          /\ frames[k].kind = "onOpen" => conn[frames[k].slot] = "asked"
          /\ frames[k].kind = "onClose" => conn[frames[k].slot] = "closed"
          /\ frames[k].kind = "handler" => frames[k].req \in Requests
    /\ \A j, k \in DOMAIN frames :
          /\ frames[j].kind \in {"onOpen", "onClose"} /\ frames[k].kind \in {"onOpen", "onClose"}
          /\ frames[j].slot = frames[k].slot
          => j = k
    /\ \A s \in Slots : conn[s] = "closed" =>
          \E k \in DOMAIN frames : frames[k].kind = "onClose" /\ frames[k].slot = s

\* The function that update put in place of the callback goes with the outermost update.
UpdatesSound ==
    /\ callback = "arg" => \E k \in DOMAIN frames : frames[k].kind = "update"
    /\ \A k \in DOMAIN frames : frames[k].kind = "update" /\ frames[k].old = "arg" =>
          \E j \in 1..(k - 1) : frames[j].kind = "update"

\* Nothing runs and nothing is connected when there is no object.
ServerGone ==
    /\ server # "live" => frames = <<>> /\ \A s \in Slots : conn[s] = "none"
    /\ server = "freed" => holds = {}

\* What TableIsSessions says, also after an onClose that failed: a session that exists is
\* in the table, but others may be.
SessionsSound ==
    /\ \A s \in Established : s \in table /\ pss[s].sig = "pss" /\ pss[s].id \in 0..(idx - 1)
    /\ \A s \in Slots \ Established : pss[s].sig # "pss"
    /\ \A s, t \in Established : pss[s].id = pss[t].id => s = t
    /\ connectCnt = Cardinality(table)
    /\ "onClose" \notin ways => table \subseteq Established

Elems(q) == {q[m] : m \in DOMAIN q}
Written(i) == Elems(got[i])
Waiting(s) == Elems(pss[s].stack)
Once(q) == \A m, n \in DOMAIN q : q[m] = q[n] => m = n

\* Messages are numbered, sessions to come have none, and what waits on a stack was sent
\* to the session and not written.
StacksSound ==
    /\ \E n \in Nat : UNION {queued[i] : i \in DOMAIN queued} = 1..n
    /\ \A i \in DOMAIN queued : i >= idx => queued[i] = {} /\ got[i] = <<>>
    /\ \A i \in DOMAIN queued : Once(got[i]) /\ Written(i) \subseteq queued[i]
    /\ \A s \in Established :
          /\ Once(pss[s].stack)
          /\ Waiting(s) \cap Written(pss[s].id) = {}
          /\ Waiting(s) \subseteq queued[pss[s].id]
          /\ conn[s] = "open" => queued[pss[s].id] = Written(pss[s].id) \cup Waiting(s)

\* What ServerSound says of handlers.
With(h, v) == {e \in Exts : h[e] = v}
HandlersSound ==
    \A v \in Values :
       /\ refs[v] >= Cardinality(With(handlers, v))
       /\ "replaced" \notin ways => refs[v] = Cardinality(With(handlers, v))

SocketInv == /\ SocketTypeOK /\ SocketShape /\ FramesSound /\ UpdatesSound /\ ServerGone
             /\ SessionsSound /\ StacksSound /\ HandlersSound /\ PagesAnswered /\ MemorySound

-----------------------------------------------------------------------------
LEMMA FrameTop ==
    ASSUME SocketShape, frames # <<>>
    PROVE  /\ Len(frames) \in Nat /\ Len(frames) > 0 /\ Len(frames) \in DOMAIN frames
           /\ Topmost \in SocketFrame
<1>1. frames \in Seq(SocketFrame)
  BY DEF SocketShape
<1>. QED BY <1>1 DEF Topmost

LEMMA SubSeqIs ==
  ASSUME NEW S, NEW q \in Seq(S), NEW m \in 1..(Len(q) + 1), NEW n \in 0..Len(q), NEW l \in Nat,
         l = n - m + 1
  PROVE  /\ SubSeq(q, m, n) \in Seq(S) /\ Len(SubSeq(q, m, n)) = l
         /\ \A k \in 1..l : SubSeq(q, m, n)[k] = q[m + k - 1]
<1>1. Len(q) \in Nat /\ m \in Int /\ n \in Int /\ \A k \in 1..Len(q) : q[k] \in S
  OBVIOUS
<1>2. \A k \in m..n : q[k] \in S
  BY <1>1
<1>3. /\ SubSeq(q, m, n) \in Seq(S)
      /\ Len(SubSeq(q, m, n)) = IF m <= n THEN n - m + 1 ELSE 0
      /\ \A k \in 1..(n - m + 1) : SubSeq(q, m, n)[k] = q[m + k - 1]
  BY <1>1, <1>2, SubSeqProperties
<1>. QED BY <1>1, <1>3

LEMMA FramePopped ==
    ASSUME SocketShape, frames # <<>>
    PROVE  /\ Popped \in Seq(SocketFrame)
           /\ DOMAIN Popped = 1..(Len(frames) - 1)
           /\ \A k \in DOMAIN Popped : k \in DOMAIN frames /\ Popped[k] = frames[k]
           /\ Len(Popped) = Len(frames) - 1
<1>1. frames \in Seq(SocketFrame) /\ Len(frames) \in Nat /\ Len(frames) > 0
  BY FrameTop DEF SocketShape
<1>. DEFINE n == Len(frames) - 1
<1>2. n \in Nat /\ n \in 0..Len(frames) /\ 1 \in 1..(Len(frames) + 1) /\ n = n - 1 + 1
  BY <1>1
<1>3. /\ Popped \in Seq(SocketFrame) /\ Len(Popped) = n
      /\ \A k \in 1..n : Popped[k] = frames[1 + k - 1]
  BY <1>1, <1>2, SubSeqIs DEF Popped
<1>4. \A k \in 1..n : 1 + k - 1 = k /\ k \in 1..Len(frames)
  BY <1>1
<1>. HIDE DEF n
<1>5. DOMAIN Popped = 1..n /\ DOMAIN frames = 1..Len(frames)
  BY <1>1, <1>3
<1>. QED BY <1>3, <1>4, <1>5 DEF n

LEMMA FramePushed ==
    ASSUME SocketShape, NEW f \in SocketFrame, Push(f)
    PROVE  /\ frames' \in Seq(SocketFrame)
           /\ DOMAIN frames' = 1..(Len(frames) + 1) /\ DOMAIN frames = 1..Len(frames)
           /\ Len(frames) \in Nat
           /\ \A k \in DOMAIN frames : frames'[k] = frames[k]
           /\ frames'[Len(frames) + 1] = f
BY DEF SocketShape, Push

\* A frame is one.
LEMMA FrameIs ==
    ASSUME SocketShape, NEW k \in Services \cup Functions, NEW s \in Slots \cup {None}
    PROVE  /\ Frame(k, s) \in SocketFrame
           /\ Frame(k, s).kind = k /\ Frame(k, s).slot = s /\ Frame(k, s).old = callback
BY DEF SocketShape, SocketFrame, Frame

LEMMA FrameWith ==
    ASSUME SocketShape, NEW k \in Services \cup Functions, NEW s \in Slots \cup {None},
           NEW i \in Int, NEW r \in Requests
    PROVE  /\ [Frame(k, s) EXCEPT !.id = i] \in SocketFrame
           /\ [Frame(k, s) EXCEPT !.id = i].kind = k
           /\ [Frame(k, s) EXCEPT !.id = i].slot = s
           /\ [Frame(k, s) EXCEPT !.req = r] \in SocketFrame
           /\ [Frame(k, s) EXCEPT !.req = r].kind = k
           /\ [Frame(k, s) EXCEPT !.req = r].slot = s
           /\ [Frame(k, s) EXCEPT !.req = r].req = r
<1>1. callback \in {"conf", "arg"}
  BY DEF SocketShape
<1>2. /\ [Frame(k, s) EXCEPT !.id = i]
             = [kind |-> k, slot |-> s, id |-> i, old |-> callback, req |-> None]
      /\ [Frame(k, s) EXCEPT !.req = r]
             = [kind |-> k, slot |-> s, id |-> -1, old |-> callback, req |-> r]
  BY DEF Frame
<1>. QED BY <1>1, <1>2 DEF SocketFrame

\* A write that stops after k messages leaves those that were pushed first.
LEMMA WriteTakes ==
    ASSUME NEW st \in Seq(Nat), NEW k \in 0..Len(st)
    PROVE  /\ Len(Taken(st)) = Len(st)
           /\ SubSeq(Taken(st), 1, k) \in Seq(Nat)
           /\ Len(SubSeq(Taken(st), 1, k)) = k
           /\ \A m \in 1..k : SubSeq(Taken(st), 1, k)[m] = st[Len(st) - m + 1]
           /\ k # Len(st) => /\ Reverse(SubSeq(Taken(st), k + 2, Len(st))) \in Seq(Nat)
                       /\ Len(Reverse(SubSeq(Taken(st), k + 2, Len(st)))) = Len(st) - k - 1
                       /\ \A m \in 1..(Len(st) - k - 1) :
                             Reverse(SubSeq(Taken(st), k + 2, Len(st)))[m] = st[m]
<1>. DEFINE all == Taken(st)  n == Len(st)
<1>1. n \in Nat /\ k \in 0..n
  OBVIOUS
<1>2. all \in Seq(Nat) /\ Len(all) = n /\ \A m \in 1..n : all[m] = st[n - m + 1]
  BY <1>1 DEF Taken, Reverse
<1>3. /\ SubSeq(all, 1, k) \in Seq(Nat) /\ Len(SubSeq(all, 1, k)) = k
      /\ \A m \in 1..k : SubSeq(all, 1, k)[m] = st[n - m + 1]
  <2>. HIDE DEF all
  <2>1. 1 \in 1..(Len(all) + 1) /\ k \in 0..Len(all) /\ k \in Nat /\ k = k - 1 + 1
    BY <1>1, <1>2
  <2>2. /\ SubSeq(all, 1, k) \in Seq(Nat) /\ Len(SubSeq(all, 1, k)) = k
        /\ \A m \in 1..k : SubSeq(all, 1, k)[m] = all[1 + m - 1]
    BY <1>2, <2>1, SubSeqIs
  <2>3. \A m \in 1..k : 1 + m - 1 = m /\ m \in 1..n
    BY <1>1
  <2>. QED BY <1>2, <2>2, <2>3
<1>4. ASSUME k # n
      PROVE  /\ Reverse(SubSeq(all, k + 2, n)) \in Seq(Nat)
             /\ Len(Reverse(SubSeq(all, k + 2, n))) = n - k - 1
             /\ \A m \in 1..(n - k - 1) : Reverse(SubSeq(all, k + 2, n))[m] = st[m]
  <2>. DEFINE rest == SubSeq(all, k + 2, n)  r == n - k - 1
  <2>1. r \in Nat /\ k + 2 \in 1..(n + 1)
    BY <1>1, <1>4
  <2>2. rest \in Seq(Nat) /\ Len(rest) = r /\ \A m \in 1..r : rest[m] = all[k + 1 + m]
    <3>. HIDE DEF all
    <3>1. /\ k + 2 \in 1..(Len(all) + 1) /\ n \in 0..Len(all) /\ r = n - (k + 2) + 1
      BY <1>1, <1>2, <2>1
    <3>2. /\ rest \in Seq(Nat) /\ Len(rest) = r
          /\ \A m \in 1..r : rest[m] = all[k + 2 + m - 1]
      <4>1. PICK p \in 1..(Len(all) + 1) : p = k + 2
        BY <3>1
      <4>2. r = n - p + 1
        BY <3>1, <4>1
      <4>. HIDE DEF r
      <4>3. /\ SubSeq(all, p, n) \in Seq(Nat) /\ Len(SubSeq(all, p, n)) = r
            /\ \A m \in 1..r : SubSeq(all, p, n)[m] = all[p + m - 1]
        BY <1>2, <2>1, <3>1, <4>2, SubSeqIs
      <4>. QED BY <4>1, <4>3
    <3>3. \A m \in 1..r : k + 2 + m - 1 = k + 1 + m
      BY <1>1
    <3>. QED BY <3>2, <3>3
  <2>. HIDE DEF all, rest
  <2>3. \A m \in 1..r : r - m + 1 \in 1..r /\ k + 1 + (r - m + 1) = n - m + 1
                        /\ n - m + 1 \in 1..n /\ n - (n - m + 1) + 1 = m
    BY <1>1, <2>1
  <2>4. \A m \in 1..r : rest[r - m + 1] = st[m]
    <3>. HIDE DEF r
    <3>. TAKE m \in 1..r
    <3>1. rest[r - m + 1] = all[k + 1 + (r - m + 1)]
      BY <2>2, <2>3
    <3>2. all[n - m + 1] = st[n - (n - m + 1) + 1]
      BY <1>2, <2>3
    <3>. QED BY <2>3, <3>1, <3>2
  <2>5. Reverse(rest) = [m \in 1..r |-> st[m]]
    <3>1. \A m \in 1..r : Len(rest) - m + 1 = r - m + 1
      BY <2>2
    <3>. QED BY <2>2, <2>4 DEF Reverse
  <2>6. \A m \in 1..r : st[m] \in Nat
    BY <1>1, <2>1
  <2>. HIDE DEF r
  <2>7. Reverse(rest) \in Seq(Nat) /\ Len(Reverse(rest)) = r
    BY <2>1, <2>5, <2>6
  <2>. QED BY <2>5, <2>7 DEF r, rest, all
<1>. QED BY <1>2, <1>3, <1>4
LEMMA MessagesCount ==
    ASSUME StacksSound
    PROVE  /\ Messages \in Nat
           /\ UNION {queued[i] : i \in DOMAIN queued} = 1..Messages
<1>1. PICK n \in Nat : UNION {queued[i] : i \in DOMAIN queued} = 1..n
  BY DEF StacksSound
<1>2. Cardinality(1..n) = n
  BY FS_Interval
<1>. QED BY <1>1, <1>2 DEF Messages

-----------------------------------------------------------------------------
(* The shape.                                                              *)

LEMMA NextShape ==
    ASSUME SocketConstants, SocketTypeOK, SocketShape, FramesSound, SessionsSound,
           StacksSound, SocketNext
    PROVE  SocketTypeOK' /\ SocketShape'
<1>. USE DEF SocketConstants, serverVars, sessionVars, handlerVars, httpVars, messageVars
<1>0. SocketTypeOK /\ UNCHANGED <<server, conn, table, connectCnt, idx>> => SocketTypeOK'
  BY DEF SocketTypeOK
<1>00. /\ \A s \in Slots : Frame("onOpen", s) \in SocketFrame /\ Frame("onClose", s) \in SocketFrame
                             /\ Frame("onCloseLast", s) \in SocketFrame
       /\ Frame("destroy", None) \in SocketFrame /\ Frame("service", None) \in SocketFrame
       /\ Frame("update", None) \in SocketFrame
  BY FrameIs DEF Services, Functions
<1>01. \A s \in Slots : /\ \A i \in Int : [Frame("callback", s) EXCEPT !.id = i] \in SocketFrame
                         /\ \A r \in Requests : [Frame("handler", s) EXCEPT !.req = r] \in SocketFrame
  BY FrameWith, FrameIs DEF Services, Functions, SocketFrame, Frame, SocketShape
<1>02. \A f \in SocketFrame : Push(f) => frames' \in Seq(SocketFrame)
  BY FramePushed
<1>03. frames # <<>> => Popped \in Seq(SocketFrame) /\ Topmost \in SocketFrame
  BY FramePopped, FrameTop
<1>04. /\ frames # <<>> /\ Topmost.kind \in Functions => Topmost.slot \in Slots
  BY FrameTop DEF FramesSound, Topmost
<1>1. CASE Construct
  BY <1>1 DEF Construct, Constructed, SocketTypeOK, SocketShape
<1>2. CASE Drop
  BY <1>2, <1>0, <1>00, <1>02 DEF Drop, SocketShape
<1>3. CASE Destroyed
  <2>1. \A v \in Values : Cardinality({e \in Exts : handlers[e] = v}) \in Nat
    BY FS_Subset, FS_CardinalityType
  <2>2. refs' \in [Values -> Int]
    <3>. DEFINE c == [v \in Values |-> Cardinality({e \in Exts : handlers[e] = v})]
    <3>1. c \in [Values -> Nat]
      BY <2>1
    <3>2. refs' = [v \in Values |-> refs[v] - c[v]]
      BY <1>3 DEF Destroyed
    <3>. HIDE DEF c
    <3>. QED BY <3>1, <3>2 DEF SocketShape
  <2>. QED BY <1>3, <1>03, <2>2 DEF Destroyed, Returns, SocketTypeOK, SocketShape
<1>4. CASE Service
  BY <1>4, <1>0, <1>00, <1>02 DEF Service, Asked, SocketShape
<1>5. CASE WebsocketUpdate
  BY <1>5, <1>0, <1>00, <1>02 DEF WebsocketUpdate, Asked, SocketShape
<1>6. CASE ServiceReturns
  BY <1>6, <1>0, <1>03 DEF ServiceReturns, SocketShape, SocketFrame
<1>7. CASE WebsocketConf
  BY <1>7, <1>0 DEF WebsocketConf, SocketShape
<1>8. ASSUME NEW t \in {-1} \cup (0..(idx - 1)), WebsocketSend(t) PROVE SocketTypeOK' /\ SocketShape'
  <2>. DEFINE msg == Messages + 1
              to == {s \in table : t = -1 \/ pss[s].id = t}
  <2>1. msg \in Nat
    BY MessagesCount
  <2>. HIDE DEF msg
  <2>2. \/ UNCHANGED <<pss, queued>>
        \/ /\ pss' = [s \in Slots |->
                         IF s \in to THEN [pss[s] EXCEPT !.stack = Append(@, msg)] ELSE pss[s]]
           /\ queued' = [i \in DOMAIN queued |->
                            IF \E s \in to : pss[s].id = i THEN queued[i] \cup {msg} ELSE queued[i]]
    BY <1>8 DEF WebsocketSend, msg
  <2>3. pss' \in [Slots -> [sig : {"freed", "zero", "pss"}, id : Int, stack : Seq(Nat)]]
    <3>. HIDE DEF to
    <3>1. ASSUME NEW s \in Slots
          PROVE  pss'[s] \in [sig : {"freed", "zero", "pss"}, id : Int, stack : Seq(Nat)]
      <4>1. pss[s] \in [sig : {"freed", "zero", "pss"}, id : Int, stack : Seq(Nat)]
        BY DEF SocketShape
      <4>2. Append(pss[s].stack, msg) \in Seq(Nat)
        BY <2>1, <4>1
      <4>3. pss'[s] = pss[s] \/ pss'[s] = [pss[s] EXCEPT !.stack = Append(pss[s].stack, msg)]
        BY <2>2
      <4>. QED BY <4>1, <4>2, <4>3
    <3>2. pss' = pss \/ pss' = [s \in Slots |-> pss'[s]]
      BY <2>2
    <3>. QED BY <3>1, <3>2 DEF SocketShape
  <2>4. queued' \in [0..(MaxIds - 1) -> SUBSET Nat]
    <3>. DEFINE S == {i \in DOMAIN queued : \E s \in to : pss[s].id = i}
    <3>1. UNCHANGED queued
          \/ queued' = [i \in DOMAIN queued |-> IF i \in S THEN queued[i] \cup {msg} ELSE queued[i]]
      BY <2>2
    <3>. HIDE DEF S
    <3>2. ASSUME NEW i \in 0..(MaxIds - 1)
          PROVE  queued[i] \in SUBSET Nat /\ queued[i] \cup {msg} \in SUBSET Nat
      BY <2>1 DEF SocketShape
    <3>. QED BY <3>1, <3>2 DEF SocketShape
  <2>. QED BY <1>8, <1>0, <2>3, <2>4 DEF WebsocketSend, SocketShape
<1>9. ASSUME NEW e \in Exts, UnsetHandler(e) PROVE SocketTypeOK' /\ SocketShape'
  BY <1>9, <1>0 DEF UnsetHandler, SocketShape
<1>10. ASSUME NEW e \in Exts, NEW v \in Values, SetHandler(e, v) PROVE SocketTypeOK' /\ SocketShape'
  BY <1>10, <1>0 DEF SetHandler, SocketShape
<1>11. CASE OpenReturns
  <2>1. Topmost.slot \in Slots /\ Popped \in Seq(SocketFrame)
    BY <1>11, <1>03, <1>04 DEF OpenReturns, Returns, Functions
  <2>. PICK s \in Slots : s = Topmost.slot
    BY <2>1
  <2>2. CASE idx < MaxIds /\ GetPssNew(s)
    <3>1. SocketTypeOK'
      <4>1. CASE UNCHANGED <<conn, table, connectCnt, idx>>
        BY <1>0, <1>11, <4>1 DEF OpenReturns
      <4>2. CASE conn' = [conn EXCEPT ![s] = "open"] /\ table' = table \cup {s}
                 /\ connectCnt' = connectCnt + 1 /\ idx' = idx + 1
        <5>1. idx' \in 0..MaxIds /\ connectCnt' \in Int /\ table' \subseteq Slots
          BY <2>2, <4>2 DEF SocketTypeOK
        <5>2. conn' \in [Slots -> {"none", "accepted", "asked", "open", "closing", "closed", "page"}]
          BY <4>2 DEF SocketTypeOK
        <5>. QED BY <1>11, <5>1, <5>2 DEF OpenReturns, SocketTypeOK
      <4>. QED BY <2>2, <4>1, <4>2 DEF GetPssNew
    <3>2. Session(idx) \in [sig : {"freed", "zero", "pss"}, id : Int, stack : Seq(Nat)]
      BY DEF Session, SocketTypeOK
    <3>3. pss' \in [Slots -> [sig : {"freed", "zero", "pss"}, id : Int, stack : Seq(Nat)]]
      BY <2>2, <3>2 DEF GetPssNew, SocketShape
    <3>. QED BY <1>11, <2>1, <3>1, <3>3 DEF OpenReturns, SocketShape
  <2>3. CASE /\ conn' = [conn EXCEPT ![s] = "none"]
             /\ pss' = [pss EXCEPT ![s] = Freed]
             /\ UNCHANGED <<table, connectCnt, idx>>
    BY <1>11, <2>1, <2>3 DEF OpenReturns, Freed, SocketTypeOK, SocketShape
  <2>. QED BY <1>11, <2>2, <2>3 DEF OpenReturns
<1>12. CASE CloseLastReturns
  BY <1>12, <1>0, <1>03 DEF CloseLastReturns, Returns, SocketShape
<1>13. ASSUME NEW s \in Slots, Connect(s) PROVE SocketTypeOK' /\ SocketShape'
  BY <1>13 DEF Connect, SocketTypeOK, SocketShape
<1>14. ASSUME NEW s \in Slots, Upgrade(s) PROVE SocketTypeOK' /\ SocketShape'
  BY <1>14, <1>00, <1>02 DEF Upgrade, Zeroed, SocketTypeOK, SocketShape
<1>15. ASSUME NEW s \in Slots, Receive(s) PROVE SocketTypeOK' /\ SocketShape'
  BY <1>15, <1>0, <1>01, <1>02 DEF Receive, SocketShape
<1>16. ASSUME NEW s \in Slots, Writeable(s) PROVE SocketTypeOK' /\ SocketShape'
  <2>1. s \in Established /\ pss[s].id \in 0..(MaxIds - 1) /\ pss[s].stack \in Seq(Nat)
    BY <1>16 DEF Writeable, Established, SessionsSound, SocketTypeOK, SocketShape
  <2>. DEFINE all == Taken(pss[s].stack)  n == Len(all)
  <2>2. PICK k \in 0..n :
          /\ got' = [got EXCEPT ![pss[s].id] = @ \o SubSeq(all, 1, k)]
          /\ pss' = [pss EXCEPT ![s].stack = IF k = n THEN <<>> ELSE Reverse(SubSeq(all, k + 2, n))]
          /\ conn' = [conn EXCEPT ![s] = IF k = n THEN @ ELSE "closing"]
    BY <1>16 DEF Writeable
  <2>3. n = Len(pss[s].stack)
    BY <2>1 DEF Taken, Reverse
  <2>4. /\ SubSeq(all, 1, k) \in Seq(Nat)
        /\ k # n => Reverse(SubSeq(all, k + 2, n)) \in Seq(Nat)
    BY <2>1, <2>3, WriteTakes
  <2>5. got' \in [0..(MaxIds - 1) -> Seq(Nat)]
    <3>. DEFINE w == SubSeq(all, 1, k)
    <3>1. w \in Seq(Nat) /\ got' = [got EXCEPT ![pss[s].id] = @ \o w]
      BY <2>2, <2>4
    <3>. HIDE DEF w
    <3>. QED BY <2>1, <3>1 DEF SocketShape
  <2>6. pss' \in [Slots -> [sig : {"freed", "zero", "pss"}, id : Int, stack : Seq(Nat)]]
    <3>. DEFINE w == IF k = n THEN <<>> ELSE Reverse(SubSeq(all, k + 2, n))
    <3>1. w \in Seq(Nat) /\ pss' = [pss EXCEPT ![s].stack = w]
      BY <2>2, <2>4
    <3>. HIDE DEF w
    <3>. QED BY <3>1 DEF SocketShape
  <2>7. conn' \in [Slots -> {"none", "accepted", "asked", "open", "closing", "closed", "page"}]
    BY <2>2 DEF SocketTypeOK
  <2>. QED BY <1>16, <2>5, <2>6, <2>7 DEF Writeable, SocketTypeOK, SocketShape
<1>17. ASSUME NEW s \in Slots, Close(s) PROVE SocketTypeOK' /\ SocketShape'
  BY <1>17, <1>00, <1>02 DEF Close, SocketTypeOK, SocketShape
<1>18. ASSUME NEW s \in Slots, HangUp(s) PROVE SocketTypeOK' /\ SocketShape'
  BY <1>18 DEF HangUp, SocketTypeOK, SocketShape
<1>19. ASSUME NEW s \in Slots, NEW r \in Requests, Page(s, r) PROVE SocketTypeOK' /\ SocketShape'
  BY <1>19, <1>01, <1>02 DEF Page, SocketTypeOK, SocketShape
<1>20. ASSUME NEW fails \in BOOLEAN, ReceiveReturns(fails) PROVE SocketTypeOK' /\ SocketShape'
  BY <1>20, <1>03, <1>04 DEF ReceiveReturns, Returns, Functions, SocketTypeOK, SocketShape
<1>21. ASSUME NEW fails \in BOOLEAN, CloseReturns(fails) PROVE SocketTypeOK' /\ SocketShape'
  <2>1. Topmost.slot \in Slots /\ Popped \in Seq(SocketFrame)
    BY <1>21, <1>03, <1>04 DEF CloseReturns, Returns, Functions
  <2>2. Append(Popped, Frame("onCloseLast", Topmost.slot)) \in Seq(SocketFrame)
    BY <2>1, <1>00
  <2>. PICK s \in Slots : s = Topmost.slot
    BY <2>1
  <2>3. frames' \in Seq(SocketFrame)
    BY <1>21, <2>1, <2>2 DEF CloseReturns, DeletePss
  <2>4. Gone(s) /\ table' \subseteq table /\ connectCnt' \in Int
    BY <1>21 DEF CloseReturns, DeletePss, SocketTypeOK
  <2>. QED BY <1>21, <2>3, <2>4 DEF CloseReturns, Gone, Freed, SocketTypeOK, SocketShape
<1>22. ASSUME NEW fails \in BOOLEAN, HandlerReturns(fails) PROVE SocketTypeOK' /\ SocketShape'
  BY <1>22, <1>03, <1>04 DEF HandlerReturns, Returns, Functions, SocketTypeOK, SocketShape
<1>. QED BY <1>1, <1>2, <1>3, <1>4, <1>5, <1>6, <1>7, <1>8, <1>9, <1>10, <1>11, <1>12, <1>13,
            <1>14, <1>15, <1>16, <1>17, <1>18, <1>19, <1>20, <1>21, <1>22, SMT DEF SocketNext

-----------------------------------------------------------------------------
(* Frames and connections.                                                 *)

\* Every action leaves the frames, adds one, or takes the last away.
LEMMA NextFrames ==
    ASSUME SocketConstants, SocketTypeOK, SocketShape, FramesSound, ServerGone,
           SocketNext
    PROVE  FramesSound'
<1>. USE DEF SocketConstants, serverVars, sessionVars, handlerVars, httpVars, messageVars
<1>. DEFINE n == Len(frames)
<1>1. /\ n \in Nat /\ DOMAIN frames = 1..n
      /\ frames # <<>> => /\ n > 0 /\ Topmost = frames[n]
                          /\ Popped \in Seq(SocketFrame) /\ Len(Popped) = n - 1
                          /\ DOMAIN Popped = 1..(n - 1)
                          /\ \A k \in 1..(n - 1) : Popped[k] = frames[k]
  BY FramePopped, FrameTop DEF SocketShape, Topmost
<1>2. \A f \in SocketFrame : Push(f) =>
         /\ DOMAIN frames' = 1..(n + 1) /\ frames'[n + 1] = f
         /\ \A k \in 1..n : frames'[k] = frames[k]
  BY FramePushed
<1>. HIDE DEF n
<1>. DEFINE Busy == {"asked", "closed"}
            Still(s) == conn[s] \in Busy \/ conn'[s] \in Busy => conn'[s] = conn[s]
\* Connections may change that no frame is for.
<1>3. ASSUME UNCHANGED frames, \A s \in Slots : Still(s)
      PROVE  FramesSound'
  BY <1>1, <1>3 DEF FramesSound, Functions
\* A frame that asks nothing of its connection is added.
<1>4. ASSUME NEW f \in SocketFrame, Push(f), f.kind \notin {"onOpen", "onClose"},
             f.kind \in Functions => f.slot \in Slots,
             f.kind = "destroy" => frames = <<>>, f.kind = "handler" => f.req \in Requests,
             \A s \in Slots : Still(s)
      PROVE  FramesSound'
  <2>1. DOMAIN frames' = 1..(n + 1) /\ frames'[n + 1] = f /\ \A k \in 1..n : frames'[k] = frames[k]
    BY <1>2, <1>4
  <2>2. f.kind = "destroy" => n = 0
    BY <1>4 DEF n
  <2>. QED BY <1>1, <1>4, <2>1, <2>2 DEF FramesSound, Functions
\* One is added for a connection that is asked for, or was closed.
<1>5. ASSUME NEW f \in SocketFrame, Push(f), f.kind \in {"onOpen", "onClose"},
             f.slot \in Slots, conn[f.slot] \notin Busy,
             conn' = [conn EXCEPT ![f.slot] = IF f.kind = "onOpen" THEN "asked" ELSE "closed"]
      PROVE  FramesSound'
  <2>1. DOMAIN frames' = 1..(n + 1) /\ frames'[n + 1] = f /\ \A k \in 1..n : frames'[k] = frames[k]
    BY <1>2, <1>5
  <2>2. /\ \A s \in Slots : s # f.slot => conn'[s] = conn[s]
        /\ conn'[f.slot] = IF f.kind = "onOpen" THEN "asked" ELSE "closed"
    BY <1>5 DEF SocketTypeOK
  <2>3. \A k \in 1..n : frames[k].kind \in {"onOpen", "onClose"} => frames[k].slot # f.slot
    BY <1>1, <1>5 DEF FramesSound, Functions
  <2>4. \A k \in 1..(n + 1) : k = n + 1 \/ k \in 1..n
    BY <1>1
  <2>5. \A k \in DOMAIN frames' :
          /\ frames'[k].kind \in Functions => frames'[k].slot \in Slots
          /\ frames'[k].kind = "destroy" => k = 1
          /\ frames'[k].kind = "onOpen" => conn'[frames'[k].slot] = "asked"
          /\ frames'[k].kind = "onClose" => conn'[frames'[k].slot] = "closed"
          /\ frames'[k].kind = "handler" => frames'[k].req \in Requests
    <3>. TAKE k \in DOMAIN frames'
    <3>1. CASE k = n + 1
      BY <1>5, <2>1, <2>2, <3>1 DEF Functions
    <3>2. CASE k \in 1..n
      BY <1>1, <2>1, <2>2, <2>3, <3>2 DEF FramesSound, Functions
    <3>. QED BY <2>1, <2>4, <3>1, <3>2
  <2>6. \A j, k \in DOMAIN frames' :
          /\ frames'[j].kind \in {"onOpen", "onClose"} /\ frames'[k].kind \in {"onOpen", "onClose"}
          /\ frames'[j].slot = frames'[k].slot
          => j = k
    BY <1>1, <2>1, <2>3, <2>4 DEF FramesSound
  <2>7. \A s \in Slots : conn'[s] = "closed" =>
          \E k \in DOMAIN frames' : frames'[k].kind = "onClose" /\ frames'[k].slot = s
    <3>. TAKE s \in Slots
    <3>1. CASE s = f.slot
      BY <1>1, <1>5, <2>1, <2>2, <3>1
    <3>2. CASE s # f.slot
      BY <1>1, <2>1, <2>2, <2>4, <3>2 DEF FramesSound
    <3>. QED BY <3>1, <3>2
  <2>. QED BY <2>5, <2>6, <2>7 DEF FramesSound
\* The last is taken away, and with it what it says of its connection.
<1>6. ASSUME frames # <<>>, frames' = Popped,
             \A s \in Slots : \/ Still(s)
                              \/ Topmost.kind \in {"onOpen", "onClose"} /\ s = Topmost.slot,
             Topmost.kind \in {"onOpen", "onClose"} => conn'[Topmost.slot] # "closed"
      PROVE  FramesSound'
  <2>1. DOMAIN frames' = 1..(n - 1) /\ \A k \in 1..(n - 1) : frames'[k] = frames[k] /\ k \in 1..n /\ k # n
    BY <1>1, <1>6
  <2>2. Topmost = frames[n] /\ n \in 1..n
    BY <1>1, <1>6
  <2>3. \A k \in 1..(n - 1) : frames[k].kind \in {"onOpen", "onClose"} => Still(frames[k].slot)
    BY <1>1, <1>6, <2>1, <2>2 DEF FramesSound, Functions
  <2>4. \A s \in Slots : conn'[s] = "closed" =>
           \E k \in 1..(n - 1) : frames[k].kind = "onClose" /\ frames[k].slot = s
    BY <1>1, <1>6, <2>1, <2>2 DEF FramesSound
  <2>5. \A k \in 1..(n - 1) :
          /\ frames[k].kind = "onOpen" => conn'[frames[k].slot] = "asked"
          /\ frames[k].kind = "onClose" => conn'[frames[k].slot] = "closed"
    BY <1>1, <2>1, <2>3 DEF FramesSound, Functions
  <2>. QED BY <1>1, <2>1, <2>4, <2>5 DEF FramesSound
\* After the last session is gone, onCloseLast takes the place of onClose.
<1>7. ASSUME frames # <<>>, NEW f \in SocketFrame, frames' = Append(Popped, f),
             f.kind = "onCloseLast", f.slot \in Slots, Topmost.kind = "onClose",
             \A s \in Slots : Still(s) \/ s = Topmost.slot, conn'[Topmost.slot] # "closed"
      PROVE  FramesSound'
  <2>1. /\ DOMAIN frames' = 1..n /\ frames'[n] = f
        /\ \A k \in 1..(n - 1) : frames'[k] = frames[k] /\ k \in 1..n /\ k # n
        /\ \A k \in 1..n : k = n \/ k \in 1..(n - 1)
    <3>1. Popped \in Seq(SocketFrame) /\ Len(Popped) = n - 1 /\ n - 1 \in Nat
      BY <1>1, <1>7
    <3>. DEFINE p == Popped
    <3>. HIDE DEF p
    <3>2. /\ Len(Append(p, f)) = n /\ Append(p, f)[n] = f
          /\ \A k \in 1..(n - 1) : Append(p, f)[k] = p[k]
          /\ DOMAIN Append(p, f) = 1..n
      BY <3>1, <1>1 DEF p
    <3>. QED BY <1>1, <1>7, <3>2 DEF p
  <2>2. Topmost = frames[n] /\ n \in 1..n
    BY <1>1, <1>7
  <2>3. \A k \in 1..(n - 1) : frames[k].kind \in {"onOpen", "onClose"} => Still(frames[k].slot)
    BY <1>1, <1>7, <2>1, <2>2 DEF FramesSound, Functions
  <2>4. \A s \in Slots : conn'[s] = "closed" =>
           \E k \in 1..(n - 1) : frames[k].kind = "onClose" /\ frames[k].slot = s
    BY <1>1, <1>7, <2>1, <2>2 DEF FramesSound
  <2>5. \A k \in 1..(n - 1) :
          /\ frames[k].kind = "onOpen" => conn'[frames[k].slot] = "asked"
          /\ frames[k].kind = "onClose" => conn'[frames[k].slot] = "closed"
    BY <1>1, <2>1, <2>3 DEF FramesSound, Functions
  <2>. QED BY <1>1, <1>7, <2>1, <2>4, <2>5 DEF FramesSound
<1>8. UNCHANGED <<frames, conn>> => FramesSound'
  BY DEF FramesSound
<1>9. \A s \in Slots : conn'[s] = conn[s] => Still(s)
  OBVIOUS
<1>10. frames # <<>> /\ Topmost.kind \in Functions => Topmost.slot \in Slots
  BY <1>1 DEF FramesSound, Functions
<1>. USE <1>9 DEF SocketTypeOK
<1>11. CASE Construct
  BY <1>8, <1>11 DEF Construct, Constructed
<1>12. CASE Drop
  <2>1. Frame("destroy", None).kind = "destroy" /\ Frame("destroy", None) \in SocketFrame
    BY FrameIs DEF Services
  <2>. QED BY <1>4, <1>12, <2>1 DEF Drop, Functions
<1>13. CASE Destroyed
  <2>1. n = 1
    BY <1>1, <1>13 DEF Destroyed, Returns, FramesSound
  <2>2. \A s \in Slots : conn[s] \notin Busy \/ conn[s] = "asked"
    BY <1>1, <1>13, <2>1 DEF Destroyed, Returns, FramesSound
  <2>3. DOMAIN frames' = {} /\ \A s \in Slots : conn'[s] # "closed"
    BY <1>1, <1>13, <2>1 DEF Destroyed, Returns
  <2>. QED BY <2>3 DEF FramesSound
<1>14. CASE Service
  <2>1. Frame("service", None).kind = "service" /\ Frame("service", None) \in SocketFrame
    BY FrameIs DEF Services
  <2>. QED BY <1>4, <1>14, <2>1 DEF Service, Functions
<1>15. CASE WebsocketUpdate
  <2>1. Frame("update", None).kind = "update" /\ Frame("update", None) \in SocketFrame
    BY FrameIs DEF Services
  <2>. QED BY <1>4, <1>15, <2>1 DEF WebsocketUpdate, Functions
<1>16. CASE ServiceReturns
  BY <1>6, <1>16 DEF ServiceReturns
<1>17. CASE WebsocketConf
  BY <1>8, <1>17 DEF WebsocketConf
<1>18. ASSUME NEW t \in {-1} \cup (0..(idx - 1)), WebsocketSend(t) PROVE FramesSound'
  BY <1>8, <1>18 DEF WebsocketSend
<1>19. ASSUME NEW e \in Exts, UnsetHandler(e) PROVE FramesSound'
  BY <1>8, <1>19 DEF UnsetHandler
<1>20. ASSUME NEW e \in Exts, NEW v \in Values, SetHandler(e, v) PROVE FramesSound'
  BY <1>8, <1>20 DEF SetHandler
<1>21. CASE OpenReturns
  <2>1. Topmost.slot \in Slots /\ frames # <<>> /\ frames' = Popped /\ Topmost.kind = "onOpen"
    BY <1>21, <1>10 DEF OpenReturns, Returns, Functions
  <2>2. conn[Topmost.slot] = "asked"
    BY <1>1, <2>1 DEF FramesSound
  <2>3. conn' = conn \/ conn' = [conn EXCEPT ![Topmost.slot] = "open"]
        \/ conn' = [conn EXCEPT ![Topmost.slot] = "none"]
    BY <1>21 DEF OpenReturns, GetPssNew
  <2>. QED BY <1>6, <2>1, <2>2, <2>3
<1>22. CASE CloseLastReturns
  BY <1>6, <1>22 DEF CloseLastReturns, Returns
<1>23. ASSUME NEW s \in Slots, Connect(s) PROVE FramesSound'
  BY <1>3, <1>23 DEF Connect
<1>24. ASSUME NEW s \in Slots, Upgrade(s) PROVE FramesSound'
  <2>. DEFINE f == Frame("onOpen", s)
  <2>1. f \in SocketFrame /\ f.kind = "onOpen" /\ f.slot = s
    BY FrameIs DEF Functions
  <2>2. Push(f) /\ conn[s] \notin Busy /\ conn' = [conn EXCEPT ![s] = "asked"]
    BY <1>24 DEF Upgrade
  <2>. HIDE DEF f
  <2>. QED BY <1>5, <2>1, <2>2
<1>25. ASSUME NEW s \in Slots, Receive(s) PROVE FramesSound'
  <2>. DEFINE f == [Frame("callback", s) EXCEPT !.id = pss[s].id]
  <2>1. f \in SocketFrame /\ f.kind = "callback" /\ f.slot = s
    <3>1. pss[s].id \in Int
      BY DEF SocketShape
    <3>2. callback \in {"conf", "arg"}
      BY DEF SocketShape
    <3>. QED BY <3>1, <3>2 DEF Functions, Frame, SocketFrame
  <2>2. Push(f) /\ conn' = conn
    BY <1>25 DEF Receive
  <2>. HIDE DEF f
  <2>. QED BY <1>4, <2>1, <2>2
<1>26. ASSUME NEW s \in Slots, Writeable(s) PROVE FramesSound'
  <2>1. conn[s] = "open" /\ (conn' = conn \/ conn' = [conn EXCEPT ![s] = "closing"])
    BY <1>26 DEF Writeable
  <2>2. UNCHANGED frames
    BY <1>26 DEF Writeable
  <2>. QED BY <1>3, <2>1, <2>2
<1>27. ASSUME NEW s \in Slots, Close(s) PROVE FramesSound'
  <2>. DEFINE f == Frame("onClose", s)
  <2>1. f \in SocketFrame /\ f.kind = "onClose" /\ f.slot = s
    BY FrameIs DEF Functions
  <2>2. Push(f) /\ conn[s] \notin Busy /\ conn' = [conn EXCEPT ![s] = "closed"]
    BY <1>27 DEF Close
  <2>. HIDE DEF f
  <2>. QED BY <1>5, <2>1, <2>2
<1>28. ASSUME NEW s \in Slots, HangUp(s) PROVE FramesSound'
  BY <1>3, <1>28 DEF HangUp
<1>29. ASSUME NEW s \in Slots, NEW r \in Requests, Page(s, r) PROVE FramesSound'
  <2>. DEFINE f == [Frame("handler", s) EXCEPT !.req = r]
  <2>1. f \in SocketFrame /\ f.kind = "handler" /\ f.slot = s /\ f.req = r
    BY FrameWith, FrameIs DEF Functions, Frame, SocketFrame, SocketShape
  <2>2. /\ conn[s] = "accepted" /\ (conn' = [conn EXCEPT ![s] = "none"] \/ conn' = [conn EXCEPT ![s] = "page"])
        /\ UNCHANGED frames \/ Push(f)
    BY <1>29 DEF Page
  <2>3. \A t \in Slots : Still(t)
    BY <2>2
  <2>. HIDE DEF f
  <2>. QED BY <1>3, <1>4, <2>1, <2>2, <2>3
<1>30. ASSUME NEW fails \in BOOLEAN, ReceiveReturns(fails) PROVE FramesSound'
  <2>1. frames # <<>> /\ frames' = Popped /\ Topmost.kind = "callback"
    BY <1>30 DEF ReceiveReturns, Returns
  <2>2. conn' = conn
        \/ (conn[Topmost.slot] = "open" /\ conn' = [conn EXCEPT ![Topmost.slot] = "closing"])
    BY <1>30 DEF ReceiveReturns
  <2>3. \A t \in Slots : Still(t)
    BY <2>2
  <2>. QED BY <1>6, <2>1, <2>3
<1>31. ASSUME NEW fails \in BOOLEAN, CloseReturns(fails) PROVE FramesSound'
  <2>1. frames # <<>> /\ Topmost.kind = "onClose" /\ Topmost.slot \in Slots
    BY <1>31, <1>10 DEF CloseReturns, Returns, Functions
  <2>. DEFINE f == Frame("onCloseLast", Topmost.slot)
  <2>2. frames' = Popped \/ frames' = Append(Popped, f)
    BY <1>31 DEF CloseReturns, DeletePss
  <2>3. conn' = [conn EXCEPT ![Topmost.slot] = "none"]
    BY <1>31 DEF CloseReturns, DeletePss, Gone
  <2>4. f \in SocketFrame /\ f.kind = "onCloseLast" /\ f.slot = Topmost.slot
    BY <2>1, FrameIs DEF Functions
  <2>. HIDE DEF f
  <2>. QED BY <1>6, <1>7, <2>1, <2>2, <2>3, <2>4
<1>32. ASSUME NEW fails \in BOOLEAN, HandlerReturns(fails) PROVE FramesSound'
  <2>1. frames # <<>> /\ frames' = Popped /\ Topmost.kind = "handler"
    BY <1>32 DEF HandlerReturns, Returns
  <2>2. conn' = conn
        \/ (conn[Topmost.slot] = "page" /\ conn' = [conn EXCEPT ![Topmost.slot] = "none"])
    BY <1>32 DEF HandlerReturns
  <2>3. \A t \in Slots : Still(t)
    BY <2>2
  <2>. QED BY <1>6, <2>1, <2>3
<1>. QED BY <1>11, <1>12, <1>13, <1>14, <1>15, <1>16, <1>17, <1>18, <1>19, <1>20, <1>21, <1>22, <1>23,
            <1>24, <1>25, <1>26, <1>27, <1>28, <1>29, <1>30, <1>31, <1>32, SMT DEF SocketNext

\* Nothing happens to an object that is not there.
LEMMA NextServer ==
    ASSUME SocketTypeOK, SocketShape, FramesSound, ServerGone, SocketNext
    PROVE  ServerGone'
<1>. USE DEF serverVars, sessionVars, handlerVars, httpVars, messageVars
<1>1. CASE server = "live" /\ server' = "live"
  BY <1>1 DEF ServerGone
<1>2. CASE Construct
  BY <1>2 DEF Construct, Constructed, ServerGone
<1>3. CASE Destroyed
  <2>1. Len(frames) = 1 /\ frames' = Popped
    BY <1>3, FrameTop DEF Destroyed, Returns, FramesSound, Topmost
  <2>2. Popped = <<>>
    BY <1>3, <2>1, FramePopped DEF Destroyed, Returns
  <2>. QED BY <1>3, <2>1, <2>2 DEF Destroyed, ServerGone
<1>4. CASE server' = server /\ server # "live"
  <2>1. frames = <<>> /\ ~ScriptRuns /\ ~Serving /\ \A k : ~Returns(k)
    BY <1>4 DEF ServerGone, ScriptRuns, Serving, Returns
  <2>2. CASE Construct
    BY <1>2, <2>2
  <2>3. ~Construct => FALSE
    BY <2>1 DEF SocketNext, Drop, Destroyed, Service, WebsocketUpdate, ServiceReturns,
       WebsocketConf, WebsocketSend, SetHandler, UnsetHandler, Connect, Upgrade, OpenReturns,
       Receive, ReceiveReturns, Writeable, Close, CloseReturns, CloseLastReturns, Page,
       HandlerReturns, HangUp
  <2>. QED BY <2>2, <2>3
<1>5. ~Construct /\ ~Destroyed => server' = server
  BY DEF SocketNext, Drop, Service, WebsocketUpdate, ServiceReturns,
     WebsocketConf, WebsocketSend, SetHandler, UnsetHandler, Connect, Upgrade, OpenReturns,
     Receive, ReceiveReturns, Writeable, Close, CloseReturns, CloseLastReturns, Page,
     HandlerReturns, HangUp
<1>. QED BY <1>1, <1>2, <1>3, <1>4, <1>5

\* The function that update was given stands for the callback until that update returns.
LEMMA NextUpdates ==
    ASSUME SocketTypeOK, SocketShape, FramesSound, ServerGone, UpdatesSound, SocketNext
    PROVE  UpdatesSound'
<1>. USE DEF serverVars, sessionVars, handlerVars, httpVars, messageVars
<1>. DEFINE n == Len(frames)
<1>1. /\ n \in Nat /\ DOMAIN frames = 1..n
      /\ frames # <<>> => /\ n > 0 /\ Topmost = frames[n]
                          /\ Popped \in Seq(SocketFrame) /\ Len(Popped) = n - 1
                          /\ DOMAIN Popped = 1..(n - 1)
                          /\ \A k \in 1..(n - 1) : Popped[k] = frames[k]
  BY FramePopped, FrameTop DEF SocketShape, Topmost
<1>2. \A f : f \in SocketFrame /\ Push(f) =>
         /\ DOMAIN frames' = 1..(n + 1) /\ frames'[n + 1] = f
         /\ \A k \in 1..n : frames'[k] = frames[k]
  BY FramePushed
<1>. HIDE DEF n
<1>3. ASSUME UNCHANGED <<frames, callback>> PROVE UpdatesSound'
  BY <1>3 DEF UpdatesSound
<1>4. ASSUME NEW f, f \in SocketFrame, Push(f), f.kind # "update", callback' = callback
      PROVE  UpdatesSound'
  <2>1. /\ DOMAIN frames' = 1..(n + 1) /\ frames'[n + 1] = f
        /\ \A k \in 1..n : frames'[k] = frames[k]
    BY <1>2, <1>4
  <2>2. \A k \in 1..(n + 1) : k = n + 1 \/ k \in 1..n
    BY <1>1
  <2>3. \A k \in 1..n : k \in 1..(n + 1) /\ \A j \in 1..(k - 1) : j \in 1..n
    BY <1>1
  <2>4. callback' = "arg" => \E k \in DOMAIN frames' : frames'[k].kind = "update"
    BY <1>1, <1>4, <2>1, <2>3 DEF UpdatesSound
  <2>5. ASSUME NEW k \in 1..n, frames[k].kind = "update", frames[k].old = "arg"
        PROVE  \E j \in 1..(k - 1) : frames'[j].kind = "update"
    <3>1. PICK j \in 1..(k - 1) : frames[j].kind = "update"
      BY <1>1, <2>5 DEF UpdatesSound
    <3>. QED BY <2>1, <2>3, <3>1
  <2>6. \A k \in DOMAIN frames' : frames'[k].kind = "update" /\ frames'[k].old = "arg" =>
           \E j \in 1..(k - 1) : frames'[j].kind = "update"
    BY <1>4, <2>1, <2>2, <2>5
  <2>. QED BY <2>4, <2>6 DEF UpdatesSound
<1>5. ASSUME frames # <<>>, frames' = Popped, Topmost.kind # "update", callback' = callback
      PROVE  UpdatesSound'
  BY <1>1, <1>5 DEF UpdatesSound
<1>6. CASE WebsocketUpdate
  <2>. DEFINE f == Frame("update", None)
  <2>1. f.kind = "update" /\ f.old = callback /\ f \in SocketFrame
    BY FrameIs DEF Services
  <2>2. Push(f)
    BY <1>6 DEF WebsocketUpdate
  <2>. HIDE DEF f
  <2>3. n + 1 \in DOMAIN frames' /\ frames'[n + 1].kind = "update"
    BY <1>1, <1>2, <2>1, <2>2
  <2>4. ASSUME NEW k \in DOMAIN frames', frames'[k].kind = "update", frames'[k].old = "arg"
        PROVE  \E j \in 1..(k - 1) : frames'[j].kind = "update"
    <3>1. CASE k = n + 1
      BY <1>1, <1>2, <2>1, <2>2, <2>4, <3>1 DEF UpdatesSound
    <3>2. CASE k # n + 1
      BY <1>1, <1>2, <2>1, <2>2, <2>4, <3>2 DEF UpdatesSound
    <3>. QED BY <3>1, <3>2
  <2>. QED BY <2>3, <2>4 DEF UpdatesSound
<1>7. CASE ServiceReturns
  <2>1. CASE Topmost.kind = "update"
    <3>1. frames' = Popped /\ frames # <<>> /\ callback' = frames[n].old /\ frames[n].kind = "update"
      BY <1>1, <1>7, <2>1 DEF ServiceReturns
    <3>. QED BY <1>1, <3>1 DEF UpdatesSound
  <2>2. CASE Topmost.kind # "update"
    BY <1>5, <1>7, <2>2 DEF ServiceReturns
  <2>. QED BY <2>1, <2>2
<1>8. CASE Construct
  BY <1>3, <1>8 DEF Construct, Constructed
<1>9. CASE Drop \/ Service \/ \E s \in Slots : Upgrade(s) \/ Close(s)
  <2>1. PICK k \in {"destroy", "service", "onOpen", "onClose"}, s \in Slots \cup {None} : Push(Frame(k, s))
    BY <1>9 DEF Drop, Service, Upgrade, Close
  <2>. DEFINE f == Frame(k, s)
  <2>2. f \in SocketFrame /\ f.kind # "update"
    BY FrameIs DEF Services, Functions
  <2>3. callback' = callback
    BY <1>9 DEF Drop, Service, Upgrade, Close
  <2>. HIDE DEF f
  <2>. QED BY <1>4, <2>1, <2>2, <2>3 DEF f
<1>10. ASSUME NEW s \in Slots, Receive(s) PROVE UpdatesSound'
  <2>. DEFINE f == [Frame("callback", s) EXCEPT !.id = pss[s].id]
  <2>1. f \in SocketFrame /\ f.kind = "callback" /\ f.slot = s
    <3>1. pss[s].id \in Int
      BY DEF SocketShape
    <3>2. callback \in {"conf", "arg"}
      BY DEF SocketShape
    <3>. QED BY <3>1, <3>2 DEF Functions, Frame, SocketFrame
  <2>2. Push(f) /\ callback' = callback
    BY <1>10 DEF Receive
  <2>. HIDE DEF f
  <2>. QED BY <1>4, <2>1, <2>2
<1>11. ASSUME NEW s \in Slots, NEW r \in Requests, Page(s, r) PROVE UpdatesSound'
  <2>. DEFINE f == [Frame("handler", s) EXCEPT !.req = r]
  <2>1. f \in SocketFrame /\ f.kind = "handler" /\ f.slot = s /\ f.req = r
    BY FrameWith, FrameIs DEF Functions, Frame, SocketFrame, SocketShape
  <2>2. /\ UNCHANGED frames \/ Push(f)
        /\ callback' = callback
    BY <1>11 DEF Page
  <2>. HIDE DEF f
  <2>. QED BY <1>3, <1>4, <2>1, <2>2
<1>12. CASE Destroyed \/ OpenReturns \/ CloseLastReturns
            \/ \E fails \in BOOLEAN : ReceiveReturns(fails) \/ HandlerReturns(fails)
  BY <1>5, <1>12 DEF Destroyed, OpenReturns, CloseLastReturns, ReceiveReturns, HandlerReturns, Returns
<1>13. ASSUME NEW fails \in BOOLEAN, CloseReturns(fails) PROVE UpdatesSound'
  <2>1. frames # <<>> /\ Topmost.kind = "onClose" /\ Topmost.slot \in Slots /\ callback' = callback
    BY <1>1, <1>13 DEF CloseReturns, Returns, Functions, FramesSound
  <2>. DEFINE f == Frame("onCloseLast", Topmost.slot)  p == Popped
  <2>2. frames' = p \/ frames' = Append(p, f)
    BY <1>13 DEF CloseReturns, DeletePss
  <2>3. f.kind = "onCloseLast" /\ f \in SocketFrame
    BY <2>1, FrameIs DEF Functions
  <2>4. p \in Seq(SocketFrame) /\ Len(p) = n - 1 /\ DOMAIN p = 1..(n - 1) /\ \A k \in 1..(n - 1) : p[k] = frames[k]
    BY <1>1, <2>1
  <2>. HIDE DEF f, p
  <2>5. /\ DOMAIN Append(p, f) = 1..n /\ Append(p, f)[n] = f
        /\ \A k \in 1..(n - 1) : Append(p, f)[k] = p[k]
    BY <1>1, <2>3, <2>4
  <2>. QED BY <1>1, <1>5, <2>1, <2>2, <2>3, <2>4, <2>5 DEF UpdatesSound, p
<1>14. CASE WebsocketConf \/ (\E t \in {-1} \cup (0..(idx - 1)) : WebsocketSend(t))
            \/ (\E e \in Exts : UnsetHandler(e) \/ \E v \in Values : SetHandler(e, v))
            \/ (\E s \in Slots : Connect(s) \/ Writeable(s) \/ HangUp(s))
  BY <1>3, <1>14 DEF WebsocketConf, WebsocketSend, UnsetHandler, SetHandler, Connect, Writeable, HangUp
<1>. QED BY <1>6, <1>7, <1>8, <1>9, <1>10, <1>11, <1>12, <1>13, <1>14, SMT DEF SocketNext

-----------------------------------------------------------------------------
(* Handlers and pages.                                                     *)

LEMMA NextHandlers ==
    ASSUME SocketConstants, SocketShape, HandlersSound, SocketNext
    PROVE  HandlersSound'
<1>. USE DEF serverVars, sessionVars, handlerVars, httpVars, messageVars
<1>1. \A h, v : /\ IsFiniteSet(With(h, v)) /\ Cardinality(With(h, v)) \in Nat
  BY FS_Subset, FS_CardinalityType DEF SocketConstants, With
<1>2. ASSUME UNCHANGED handlerVars, "replaced" \in ways => "replaced" \in ways'
      PROVE  HandlersSound'
  BY <1>2 DEF HandlersSound
<1>3. ASSUME NEW e \in Exts, NEW v, handlers' = [handlers EXCEPT ![e] = v], v # handlers[e]
      PROVE  /\ \A w : w \notin {v, handlers[e]} => With(handlers', w) = With(handlers, w)
             /\ Cardinality(With(handlers', v)) = Cardinality(With(handlers, v)) + 1
             /\ Cardinality(With(handlers', handlers[e]))
                   = Cardinality(With(handlers, handlers[e])) - 1
  <2>. DEFINE u == handlers[e]
  <2>1. /\ With(handlers', v) = With(handlers, v) \cup {e} /\ e \notin With(handlers, v)
        /\ With(handlers', u) = With(handlers, u) \ {e} /\ e \in With(handlers, u)
        /\ \A w : w \notin {v, u} => With(handlers', w) = With(handlers, w)
    BY <1>3 DEF SocketShape, With
  <2>2. Cardinality(With(handlers', v)) = Cardinality(With(handlers, v)) + 1
    BY <1>1, <2>1, FS_AddElement
  <2>3. Cardinality(With(handlers', u)) = Cardinality(With(handlers, u)) - 1
    <3>. DEFINE S == With(handlers, u)
    <3>1. IsFiniteSet(S) /\ e \in S /\ With(handlers', u) = S \ {e}
      BY <1>1, <2>1
    <3>. HIDE DEF S
    <3>2. Cardinality(S \ {e}) = Cardinality(S) - 1
      BY <3>1, FS_RemoveElement
    <3>. QED BY <3>1, <3>2 DEF S
  <2>. QED BY <2>1, <2>2, <2>3
<1>4. ASSUME NEW e \in Exts, NEW v \in Values, SetHandler(e, v) PROVE HandlersSound'
  <2>1. /\ handlers' = [handlers EXCEPT ![e] = v] /\ v # handlers[e]
        /\ \A w \in Values : refs'[w] = IF w = v THEN refs[w] + 1 ELSE refs[w]
        /\ ways' = IF handlers[e] = None THEN ways ELSE ways \cup {"replaced"}
    BY <1>4 DEF SetHandler, SocketShape
  <2>2. ASSUME NEW w \in Values
        PROVE  /\ refs'[w] >= Cardinality(With(handlers', w))
               /\ "replaced" \notin ways' => refs'[w] = Cardinality(With(handlers', w))
    <3>. DEFINE c == Cardinality(With(handlers, w))
    <3>0. refs[w] \in Int /\ c \in Nat /\ refs[w] >= c /\ ("replaced" \notin ways => refs[w] = c)
      BY <1>1 DEF HandlersSound, SocketShape
    <3>1. CASE w = v
      <4>1. Cardinality(With(handlers', w)) = c + 1
        BY <1>3, <2>1, <3>1
      <4>. QED BY <2>1, <3>0, <3>1, <4>1
    <3>2. CASE w # v /\ w = handlers[e]
      <4>1. Cardinality(With(handlers', w)) = c - 1
        BY <1>3, <2>1, <3>2
      <4>2. "replaced" \in ways'
        BY <2>1, <3>2 DEF SocketConstants
      <4>. QED BY <2>1, <3>0, <3>2, <4>1, <4>2
    <3>3. CASE w # v /\ w # handlers[e]
      <4>1. With(handlers', w) = With(handlers, w)
        BY <1>3, <2>1, <3>3
      <4>. QED BY <2>1, <3>0, <3>3, <4>1
    <3>. QED BY <3>1, <3>2, <3>3
  <2>. QED BY <2>2 DEF HandlersSound
<1>5. ASSUME NEW e \in Exts, UnsetHandler(e) PROVE HandlersSound'
  <2>. DEFINE u == handlers[e]
  <2>1. /\ handlers' = [handlers EXCEPT ![e] = None] /\ None # u /\ u \in Values
        /\ \A w \in Values : refs'[w] = IF w = u THEN refs[w] - 1 ELSE refs[w]
        /\ ways' = ways
    BY <1>5 DEF UnsetHandler, SocketShape
  <2>2. ASSUME NEW w \in Values
        PROVE  /\ refs'[w] >= Cardinality(With(handlers', w))
               /\ "replaced" \notin ways' => refs'[w] = Cardinality(With(handlers', w))
    <3>. DEFINE c == Cardinality(With(handlers, w))
    <3>0. refs[w] \in Int /\ c \in Nat /\ refs[w] >= c /\ ("replaced" \notin ways => refs[w] = c)
      BY <1>1 DEF HandlersSound, SocketShape
    <3>1. CASE w = u
      <4>1. Cardinality(With(handlers', w)) = c - 1
        BY <1>3, <2>1, <3>1
      <4>. QED BY <2>1, <3>0, <3>1, <4>1
    <3>2. CASE w # u
      <4>1. With(handlers', w) = With(handlers, w)
        <5>1. \A x : x \notin {None, handlers[e]} => With(handlers', x) = With(handlers, x)
          BY <1>3, <2>1
        <5>2. w \notin {None, handlers[e]}
          BY <3>2 DEF SocketConstants
        <5>. QED BY <5>1, <5>2
      <4>. QED BY <2>1, <3>0, <3>2, <4>1
    <3>. QED BY <3>1, <3>2
  <2>. QED BY <2>2 DEF HandlersSound
<1>6. CASE Destroyed
  <2>1. ASSUME NEW w \in Values
        PROVE  /\ With(handlers', w) = {} /\ refs'[w] = refs[w] - Cardinality(With(handlers, w))
    BY <1>6 DEF Destroyed, SocketConstants, With
  <2>2. \A w \in Values : Cardinality(With(handlers', w)) = 0
    BY <2>1, FS_EmptySet
  <2>3. \A w \in Values :
          /\ refs[w] \in Int /\ Cardinality(With(handlers, w)) \in Nat
          /\ refs[w] >= Cardinality(With(handlers, w))
          /\ "replaced" \notin ways => refs[w] = Cardinality(With(handlers, w))
    BY <1>1 DEF HandlersSound, SocketShape
  <2>4. ways' = ways
    BY <1>6 DEF Destroyed
  <2>5. ASSUME NEW w \in Values
        PROVE  /\ refs'[w] >= Cardinality(With(handlers', w))
               /\ "replaced" \notin ways' => refs'[w] = Cardinality(With(handlers', w))
    BY <2>1, <2>2, <2>3, <2>4
  <2>. QED BY <2>5 DEF HandlersSound
<1>7. CASE UNCHANGED handlerVars
  <2>1. "replaced" \in ways => "replaced" \in ways'
    BY DEF SocketNext, Construct, Constructed, Drop, Destroyed, Service, WebsocketUpdate, ServiceReturns,
       WebsocketConf, WebsocketSend, SetHandler, UnsetHandler, Connect, Upgrade, OpenReturns,
       Receive, ReceiveReturns, Writeable, Close, CloseReturns, CloseLastReturns, Page,
       HandlerReturns, HangUp
  <2>. QED BY <1>2, <1>7, <2>1
<1>8. \/ UNCHANGED handlerVars \/ Destroyed
      \/ \E e \in Exts : UnsetHandler(e) \/ \E v \in Values : SetHandler(e, v)
  BY DEF SocketNext, Construct, Constructed, Drop, Service, WebsocketUpdate, ServiceReturns,
     WebsocketConf, WebsocketSend, Connect, Upgrade, OpenReturns,
     Receive, ReceiveReturns, Writeable, Close, CloseReturns, CloseLastReturns, Page,
     HandlerReturns, HangUp
<1>. QED BY <1>4, <1>5, <1>6, <1>7, <1>8

LEMMA NextPages ==
    ASSUME SocketConstants, SocketShape, FramesSound, PagesAnswered, SocketNext
    PROVE  PagesAnswered'
<1>. USE DEF serverVars, sessionVars, handlerVars, httpVars, messageVars
<1>1. ASSUME NEW s \in Slots, NEW r \in Requests, Page(s, r) PROVE PagesAnswered'
  BY <1>1 DEF Page, Answer, PagesAnswered
<1>2. ASSUME NEW fails \in BOOLEAN, HandlerReturns(fails) PROVE PagesAnswered'
  <2>1. Topmost.req.quote \in BOOLEAN
    <3>1. Len(frames) \in DOMAIN frames /\ frames[Len(frames)].kind = "handler"
      BY <1>2, FrameTop DEF HandlerReturns, Returns, Topmost
    <3>2. Topmost.req \in Requests
      BY <3>1 DEF FramesSound, Topmost
    <3>. QED BY <3>2 DEF SocketConstants, Request
  <2>2. CASE UNCHANGED http
    BY <2>2 DEF PagesAnswered
  <2>3. CASE Answer((IF Topmost.req.quote THEN 1 ELSE 0) + (IF fails THEN 0 ELSE 1), 0,
                    fails \/ Topmost.req.quote)
    <3>1. CASE fails \/ Topmost.req.quote
      BY <2>3, <3>1 DEF Answer, PagesAnswered
    <3>2. CASE fails = FALSE /\ Topmost.req.quote = FALSE
      BY <2>3, <3>2 DEF Answer, PagesAnswered
    <3>. QED BY <2>1, <3>1, <3>2
  <2>. QED BY <1>2, <2>2, <2>3 DEF HandlerReturns
<1>3. \/ UNCHANGED http \/ (\E s \in Slots, r \in Requests : Page(s, r))
      \/ \E fails \in BOOLEAN : HandlerReturns(fails)
  BY DEF SocketNext, Construct, Constructed, Drop, Destroyed, Service, WebsocketUpdate, ServiceReturns,
     WebsocketConf, WebsocketSend, SetHandler, UnsetHandler, Connect, Upgrade, OpenReturns,
     Receive, ReceiveReturns, Writeable, Close, CloseReturns, CloseLastReturns, HangUp
<1>. QED BY <1>1, <1>2, <1>3 DEF PagesAnswered

LEMMA NextMemory ==
    ASSUME SocketTypeOK, SocketShape, FramesSound, SessionsSound, MemorySound, SocketNext
    PROVE  MemorySound'
<1>. USE DEF serverVars, sessionVars, handlerVars, httpVars, messageVars
<1>1. ASSUME NEW s \in table, s \notin Established PROVE ways # {}
  BY <1>1 DEF SessionsSound
<1>2. ASSUME NEW t \in {-1} \cup (0..(idx - 1)), WebsocketSend(t), flaw' # flaw PROVE ways' # {}
  <2>1. PICK s \in table : pss[s].sig # "pss"
    BY <1>2 DEF WebsocketSend
  <2>2. s \notin Established
    BY <2>1 DEF SessionsSound
  <2>. QED BY <1>1, <1>2, <2>2 DEF WebsocketSend
<1>3. ASSUME OpenReturns, flaw' # flaw PROVE ways' # {}
  <2>1. Topmost.slot \in table
    BY <1>3 DEF OpenReturns, GetPssNew
  <2>2. conn[Topmost.slot] = "asked"
    BY <1>3, FrameTop DEF OpenReturns, Returns, FramesSound, Topmost
  <2>3. Topmost.slot \notin Established
    BY <2>2 DEF Established
  <2>. QED BY <1>1, <1>3, <2>1, <2>3 DEF OpenReturns
<1>4. ways \subseteq ways'
  BY DEF SocketNext, Construct, Constructed, Drop, Destroyed, Service, WebsocketUpdate, ServiceReturns,
     WebsocketConf, WebsocketSend, SetHandler, UnsetHandler, Connect, Upgrade, OpenReturns,
     Receive, ReceiveReturns, Writeable, Close, CloseReturns, CloseLastReturns, Page,
     HandlerReturns, HangUp
<1>5. \/ flaw' = flaw \/ ways' # {} \/ OpenReturns
      \/ \E t \in {-1} \cup (0..(idx - 1)) : WebsocketSend(t)
  BY DEF SocketNext, Construct, Constructed, Drop, Destroyed, Service, WebsocketUpdate, ServiceReturns,
     WebsocketConf, SetHandler, UnsetHandler, Connect, Upgrade,
     Receive, ReceiveReturns, Writeable, Close, CloseReturns, CloseLastReturns, Page,
     HandlerReturns, HangUp
<1>. QED BY <1>2, <1>3, <1>4, <1>5 DEF MemorySound

-----------------------------------------------------------------------------
(* Sessions.                                                               *)

LEMMA NextSessions ==
    ASSUME SocketConstants, SocketTypeOK, SocketShape, FramesSound, ServerGone, SessionsSound,
           SocketNext
    PROVE  SessionsSound'
<1>. USE DEF serverVars, sessionVars, handlerVars, httpVars, messageVars
<1>. DEFINE Has(c) == c \in {"open", "closing", "closed"}
<1>0. IsFiniteSet(table) /\ Cardinality(table) \in Nat
  BY FS_Subset, FS_CardinalityType DEF SocketTypeOK, SocketConstants
<1>1. \A s \in Slots : (s \in Established <=> Has(conn[s])) /\ (s \in Established' <=> Has(conn'[s]))
  BY DEF Established
\* Nothing begins or ends.
<1>2. ASSUME UNCHANGED <<table, connectCnt, idx>>, "onClose" \in ways => "onClose" \in ways',
             \A s \in Slots : Has(conn'[s]) <=> Has(conn[s]),
             \A s \in Slots : pss'[s].sig = pss[s].sig /\ (Has(conn[s]) => pss'[s].id = pss[s].id)
      PROVE  SessionsSound'
  <2>1. Established' = Established
    BY <1>2 DEF Established
  <2>2. Established \subseteq Slots
    BY DEF Established
  <2>. QED BY <1>1, <1>2, <2>1, <2>2 DEF SessionsSound
<1>3. CASE /\ UNCHANGED <<table, connectCnt, idx, conn, pss>>
           /\ "onClose" \in ways => "onClose" \in ways'
  BY <1>2, <1>3
<1>4. CASE Destroyed
  <2>1. /\ Len(frames) = 1 /\ frames[1].kind = "destroy" /\ \A k \in DOMAIN frames : k = 1
    <3>1. frames # <<>> /\ frames[Len(frames)].kind = "destroy"
      BY <1>4 DEF Destroyed, Returns, Topmost
    <3>2. Len(frames) = 1
      BY <3>1, FrameTop DEF FramesSound
    <3>3. DOMAIN frames = 1..1
      BY <3>2 DEF SocketShape
    <3>. QED BY <3>1, <3>2, <3>3
  <2>2. \A s \in Slots : ~Has(conn[s])
    BY <1>4, <2>1 DEF Destroyed, FramesSound
  <2>3. \A s \in Slots : ~Has(conn'[s])
    BY <1>4 DEF Destroyed
  <2>. QED BY <1>2, <1>4, <2>2, <2>3 DEF Destroyed
<1>5. CASE OpenReturns
  <2>1. Topmost.slot \in Slots /\ conn[Topmost.slot] = "asked" /\ ways' = ways
    BY <1>5, FrameTop DEF OpenReturns, Returns, FramesSound, Topmost, Functions
  <2>. PICK s \in Slots : s = Topmost.slot
    BY <2>1
  <2>2. CASE UNCHANGED <<table, connectCnt, idx, conn, pss>>
    BY <1>3, <2>1, <2>2
  <2>3. CASE /\ conn' = [conn EXCEPT ![s] = "none"] /\ pss' = [pss EXCEPT ![s] = Freed]
             /\ UNCHANGED <<table, connectCnt, idx>>
    <3>1. /\ \A r \in Slots : r # s => conn'[r] = conn[r] /\ pss'[r] = pss[r]
          /\ conn'[s] = "none" /\ pss'[s].sig = "freed" /\ conn[s] = "asked"
      BY <2>1, <2>3 DEF SocketTypeOK, SocketShape, Freed
    <3>2. Established' = Established /\ s \notin Established
      BY <3>1 DEF Established
    <3>3. Established \subseteq Slots
      BY DEF Established
    <3>. QED BY <2>1, <2>3, <3>1, <3>2, <3>3 DEF SessionsSound
  <2>4. CASE /\ s \notin table /\ conn' = [conn EXCEPT ![s] = "open"]
             /\ pss' = [pss EXCEPT ![s] = Session(idx)] /\ table' = table \cup {s}
             /\ connectCnt' = connectCnt + 1 /\ idx' = idx + 1
    <3>1. /\ \A r \in Slots : r # s => conn'[r] = conn[r] /\ pss'[r] = pss[r]
          /\ conn'[s] = "open" /\ pss'[s].sig = "pss" /\ pss'[s].id = idx /\ conn[s] = "asked"
      BY <2>1, <2>4 DEF SocketTypeOK, SocketShape, Session
    <3>2. Established' = Established \cup {s} /\ s \notin Established /\ Established \subseteq Slots
      BY <3>1 DEF Established
    <3>3. Cardinality(table') = Cardinality(table) + 1
      BY <1>0, <2>4, FS_AddElement
    <3>4. idx \in Nat
      BY DEF SocketTypeOK
    <3>5. \A r \in Established : /\ pss'[r] = pss[r] /\ r \in table' /\ pss[r].sig = "pss"
                                 /\ pss[r].id \in 0..(idx - 1) /\ pss[r].id # idx
      BY <2>4, <3>1, <3>2, <3>4 DEF SessionsSound
    <3>6. \A r \in Established' : r \in table' /\ pss'[r].sig = "pss" /\ pss'[r].id \in 0..(idx' - 1)
      BY <2>4, <3>1, <3>2, <3>4, <3>5
    <3>7. \A r \in Slots \ Established' : pss'[r].sig # "pss"
      BY <3>1, <3>2 DEF SessionsSound
    <3>8. \A r, t \in Established' : pss'[r].id = pss'[t].id => r = t
      BY <3>1, <3>2, <3>5 DEF SessionsSound
    <3>9. connectCnt' = Cardinality(table') /\ ("onClose" \notin ways' => table' \subseteq Established')
      BY <2>1, <2>4, <3>2, <3>3 DEF SessionsSound
    <3>. QED BY <3>6, <3>7, <3>8, <3>9 DEF SessionsSound
  <2>. QED BY <1>5, <2>2, <2>3, <2>4 DEF OpenReturns, GetPssNew
<1>6. ASSUME NEW fails \in BOOLEAN, CloseReturns(fails) PROVE SessionsSound'
  <2>1. Topmost.slot \in Slots /\ conn[Topmost.slot] = "closed"
    BY <1>6, FrameTop DEF CloseReturns, Returns, FramesSound, Topmost, Functions
  <2>. PICK s \in Slots : s = Topmost.slot
    BY <2>1
  <2>2. /\ conn' = [conn EXCEPT ![s] = "none"] /\ pss' = [pss EXCEPT ![s] = Freed] /\ idx' = idx
        /\ \/ /\ table' = table \ {s} /\ connectCnt' = connectCnt - 1 /\ ways' = ways
           \/ UNCHANGED <<table, connectCnt>> /\ ways' = ways \cup {"onClose"}
    BY <1>6 DEF CloseReturns, DeletePss, Gone
  <2>3. /\ \A r \in Slots : r # s => conn'[r] = conn[r] /\ pss'[r] = pss[r]
        /\ conn'[s] = "none" /\ pss'[s].sig = "freed"
    BY <2>1, <2>2 DEF SocketTypeOK, SocketShape, Freed
  <2>4. Established' = Established \ {s} /\ s \in Established /\ Established \subseteq Slots
    BY <2>1, <2>3 DEF Established
  <2>5. s \in table
    BY <2>4 DEF SessionsSound
  <2>6. Cardinality(table \ {s}) = Cardinality(table) - 1
    BY <1>0, <2>5, FS_RemoveElement
  <2>7. connectCnt' = Cardinality(table') /\ ("onClose" \notin ways' => table' \subseteq Established')
    BY <2>2, <2>4, <2>6 DEF SessionsSound
  <2>8. \A r \in Established' : r \in table' /\ pss'[r].sig = "pss" /\ pss'[r].id \in 0..(idx' - 1)
    BY <2>2, <2>3, <2>4 DEF SessionsSound
  <2>9. \A r \in Slots \ Established' : pss'[r].sig # "pss"
    BY <2>3, <2>4 DEF SessionsSound
  <2>10. \A r, t \in Established' : pss'[r].id = pss'[t].id => r = t
    BY <2>3, <2>4 DEF SessionsSound
  <2>. QED BY <2>7, <2>8, <2>9, <2>10 DEF SessionsSound
<1>7. ASSUME NEW t \in {-1} \cup (0..(idx - 1)), WebsocketSend(t) PROVE SessionsSound'
  <2>. DEFINE msg == Messages + 1
              to == {s \in table : t = -1 \/ pss[s].id = t}
  <2>1. \/ UNCHANGED pss
        \/ pss' = [s \in Slots |->
                      IF s \in to THEN [pss[s] EXCEPT !.stack = Append(@, msg)] ELSE pss[s]]
    BY <1>7 DEF WebsocketSend
  <2>. HIDE DEF to, msg
  <2>2. \A s \in Slots : pss'[s].sig = pss[s].sig /\ pss'[s].id = pss[s].id
    BY <2>1 DEF SocketShape
  <2>3. UNCHANGED <<table, connectCnt, idx, conn, ways>>
    BY <1>7 DEF WebsocketSend
  <2>. QED BY <1>2, <2>2, <2>3
<1>8. ASSUME NEW s \in Slots, Upgrade(s) PROVE SessionsSound'
  <2>1. /\ conn[s] = "accepted" /\ conn' = [conn EXCEPT ![s] = "asked"]
        /\ pss' = [pss EXCEPT ![s] = Zeroed] /\ UNCHANGED <<table, connectCnt, idx, ways>>
    BY <1>8 DEF Upgrade
  <2>2. /\ \A r \in Slots : r # s => conn'[r] = conn[r] /\ pss'[r] = pss[r]
        /\ conn'[s] = "asked" /\ pss'[s].sig = "zero"
    BY <2>1 DEF SocketTypeOK, SocketShape, Zeroed
  <2>3. Established' = Established /\ s \notin Established /\ Established \subseteq Slots
    BY <2>1, <2>2 DEF Established
  <2>. QED BY <2>1, <2>2, <2>3 DEF SessionsSound
<1>9. ASSUME NEW s \in Slots, Writeable(s) PROVE SessionsSound'
  <2>. DEFINE all == Taken(pss[s].stack)  n == Len(all)
  <2>0. PICK k \in 0..n :
          /\ pss' = [pss EXCEPT ![s].stack = IF k = n THEN <<>> ELSE Reverse(SubSeq(all, k + 2, n))]
          /\ conn' = [conn EXCEPT ![s] = IF k = n THEN @ ELSE "closing"]
    BY <1>9 DEF Writeable
  <2>. DEFINE w == IF k = n THEN <<>> ELSE Reverse(SubSeq(all, k + 2, n))
              c == IF k = n THEN "open" ELSE "closing"
  <2>1. pss' = [pss EXCEPT ![s].stack = w] /\ conn' = [conn EXCEPT ![s] = c] /\ conn[s] = "open"
        /\ c \in {"open", "closing"}
    BY <1>9, <2>0 DEF Writeable
  <2>. HIDE DEF w, c
  <2>2. \A r \in Slots : /\ pss'[r].sig = pss[r].sig /\ pss'[r].id = pss[r].id
                         /\ Has(conn'[r]) <=> Has(conn[r])
    BY <2>1 DEF SocketShape, SocketTypeOK
  <2>. QED BY <1>2, <1>9, <2>2 DEF Writeable
<1>10. ASSUME NEW s \in Slots, Close(s) PROVE SessionsSound'
  <2>1. conn[s] \in {"open", "closing"} /\ conn' = [conn EXCEPT ![s] = "closed"]
        /\ UNCHANGED <<pss, table, connectCnt, idx, ways>>
    BY <1>10 DEF Close
  <2>. QED BY <1>2, <2>1 DEF SocketTypeOK
<1>11. ASSUME NEW s \in Slots, Connect(s) \/ HangUp(s) \/ \E r \in Requests : Page(s, r)
       PROVE SessionsSound'
  <2>1. PICK c \in {"accepted", "none", "page"} :
           conn[s] \in {"accepted", "none", "page"} /\ conn' = [conn EXCEPT ![s] = c]
    BY <1>11 DEF Connect, HangUp, Page
  <2>2. UNCHANGED <<pss, table, connectCnt, idx, ways>>
    BY <1>11 DEF Connect, HangUp, Page
  <2>. QED BY <1>2, <2>1, <2>2 DEF SocketTypeOK
<1>12. ASSUME NEW fails \in BOOLEAN, ReceiveReturns(fails) PROVE SessionsSound'
  <2>1. \/ UNCHANGED conn
        \/ \E c \in {"open", "closing"} :
              conn[Topmost.slot] = "open" /\ conn' = [conn EXCEPT ![Topmost.slot] = c]
    BY <1>12 DEF ReceiveReturns
  <2>2. UNCHANGED <<pss, table, connectCnt, idx>> /\ ways \subseteq ways'
    BY <1>12 DEF ReceiveReturns
  <2>. QED BY <1>2, <2>1, <2>2 DEF SocketTypeOK
<1>13. ASSUME NEW fails \in BOOLEAN, HandlerReturns(fails) PROVE SessionsSound'
  <2>1. \/ UNCHANGED conn
        \/ conn[Topmost.slot] = "page" /\ conn' = [conn EXCEPT ![Topmost.slot] = "none"]
    BY <1>13 DEF HandlerReturns
  <2>2. UNCHANGED <<pss, table, connectCnt, idx>> /\ ways \subseteq ways'
    BY <1>13 DEF HandlerReturns
  <2>. QED BY <1>2, <2>1, <2>2 DEF SocketTypeOK
<1>14. CASE \/ Construct \/ Drop \/ Service \/ WebsocketUpdate \/ ServiceReturns \/ WebsocketConf
            \/ (\E e \in Exts : UnsetHandler(e) \/ \E v \in Values : SetHandler(e, v))
            \/ CloseLastReturns \/ \E s \in Slots : Receive(s)
  BY <1>3, <1>14 DEF Construct, Constructed, Drop, Service, WebsocketUpdate, ServiceReturns,
     WebsocketConf, UnsetHandler, SetHandler, CloseLastReturns, Receive
<1>. QED BY <1>4, <1>5, <1>6, <1>7, <1>8, <1>9, <1>10, <1>11, <1>12, <1>13, <1>14, SMT DEF SocketNext

-----------------------------------------------------------------------------
(* Messages.                                                               *)

LEMMA ElemsAppended ==
    ASSUME NEW q \in Seq(Nat), NEW x \in Nat
    PROVE  /\ Elems(Append(q, x)) = Elems(q) \cup {x}
           /\ Once(q) /\ x \notin Elems(q) => Once(Append(q, x))
<1>1. PICK n \in Nat : n = Len(q)
  OBVIOUS
<1>2. /\ DOMAIN Append(q, x) = 1..(n + 1) /\ DOMAIN q = 1..n /\ Append(q, x)[n + 1] = x
      /\ \A k \in 1..n : Append(q, x)[k] = q[k]
      /\ \A k \in 1..(n + 1) : k \in 1..n \/ k = n + 1
      /\ \A k \in 1..n : k \in 1..(n + 1)
      /\ n + 1 \in 1..(n + 1)
  BY <1>1
<1>. DEFINE p == Append(q, x)
<1>. HIDE DEF p
<1>. QED BY <1>2 DEF Elems, Once, p

LEMMA ElemsJoined ==
    ASSUME NEW g \in Seq(Nat), NEW w \in Seq(Nat)
    PROVE  /\ Elems(g \o w) = Elems(g) \cup Elems(w)
           /\ Once(g) /\ Once(w) /\ Elems(g) \cap Elems(w) = {} => Once(g \o w)
<1>. DEFINE h == g \o w  l == Len(g)  k == Len(w)
<1>1. l \in Nat /\ k \in Nat /\ DOMAIN g = 1..l /\ DOMAIN w = 1..k
  OBVIOUS
<1>2. /\ h \in Seq(Nat) /\ Len(h) = l + k
      /\ \A m \in 1..(l + k) : h[m] = IF m <= l THEN g[m] ELSE w[m - l]
  BY ConcatProperties
<1>3. DOMAIN h = 1..(l + k)
  BY <1>2
<1>. HIDE DEF h, l, k
<1>4. \A m \in 1..l : m \in DOMAIN h /\ h[m] = g[m]
  BY <1>1, <1>2, <1>3
<1>5. \A m \in 1..k : l + m \in DOMAIN h /\ h[l + m] = w[m]
  <2>. TAKE m \in 1..k
  <2>. DEFINE p == l + m
  <2>2. p \in 1..(l + k) /\ ~(p <= l) /\ p - l = m
    BY <1>1
  <2>. HIDE DEF p
  <2>3. h[p] = w[m] /\ p \in DOMAIN h
    BY <1>2, <1>3, <2>2
  <2>. QED BY <2>3 DEF p
<1>6. ASSUME NEW m \in DOMAIN h, m \notin DOMAIN g PROVE \E j \in DOMAIN w : m = l + j
  <2>1. m - l \in 1..k /\ m = l + (m - l)
    BY <1>1, <1>3, <1>6
  <2>. QED BY <1>1, <2>1
<1>7. Elems(h) = Elems(g) \cup Elems(w)
  <2>1. \A m \in DOMAIN h : h[m] \in Elems(g) \cup Elems(w)
    BY <1>1, <1>4, <1>5, <1>6 DEF Elems
  <2>. QED BY <1>1, <1>4, <1>5, <2>1 DEF Elems
<1>8. ASSUME Once(g), Once(w), Elems(g) \cap Elems(w) = {}
      PROVE  Once(h)
  <2>1. \A i \in DOMAIN g, j \in DOMAIN w : g[i] # w[j]
    BY <1>8 DEF Elems
  <2>2. ASSUME NEW i \in DOMAIN h, NEW j \in DOMAIN h, h[i] = h[j] PROVE i = j
    <3>1. CASE i \in DOMAIN g /\ j \in DOMAIN g
      BY <1>1, <1>4, <1>8, <2>2, <3>1 DEF Once
    <3>2. CASE i \notin DOMAIN g /\ j \notin DOMAIN g
      <4>1. PICK a \in DOMAIN w : i = l + a
        BY <1>6, <3>2
      <4>2. PICK b \in DOMAIN w : j = l + b
        BY <1>6, <3>2
      <4>3. w[a] = w[b]
        BY <1>1, <1>5, <2>2, <4>1, <4>2
      <4>. QED BY <1>8, <4>1, <4>2, <4>3 DEF Once
    <3>3. CASE i \in DOMAIN g /\ j \notin DOMAIN g
      BY <1>1, <1>4, <1>5, <1>6, <2>1, <2>2, <3>3
    <3>4. CASE i \notin DOMAIN g /\ j \in DOMAIN g
      BY <1>1, <1>4, <1>5, <1>6, <2>1, <2>2, <3>4
    <3>. QED BY <3>1, <3>2, <3>3, <3>4
  <2>. QED BY <2>2 DEF Once
<1>. QED BY <1>7, <1>8 DEF h

\* w is the end of st, backwards, and rest its beginning.
Mirrors(w, st) == Len(w) <= Len(st) /\ \A m \in 1..Len(w) : w[m] = st[Len(st) - m + 1]
Begins(rest, st) == Len(rest) <= Len(st) /\ \A m \in 1..Len(rest) : rest[m] = st[m]

\* What is written is the end of the stack, from its top.
LEMMA ElemsMirrored ==
    ASSUME NEW st \in Seq(Nat), NEW w \in Seq(Nat), Mirrors(w, st)
    PROVE  /\ Elems(w) \subseteq Elems(st) /\ (Once(st) => Once(w))
           /\ Len(w) = Len(st) => Elems(w) = Elems(st)
           /\ Once(st) => \A m \in 1..(Len(st) - Len(w)) : st[m] \notin Elems(w)
<1>. DEFINE n == Len(st)  k == Len(w)  at(m) == n - m + 1
<1>1. n \in Nat /\ k \in Nat /\ k <= n /\ DOMAIN st = 1..n /\ DOMAIN w = 1..k
  BY DEF Mirrors
<1>2. \A m \in 1..k : w[m] = st[at(m)]
  BY DEF Mirrors
<1>. HIDE DEF n, k
<1>3. /\ \A m \in 1..k : at(m) \in 1..n
      /\ \A m, l \in 1..k : at(m) = at(l) => m = l
      /\ \A l \in 1..(n - k) : l \in 1..n /\ \A m \in 1..k : l # at(m)
      /\ k = n => \A m \in 1..n : at(m) \in 1..k /\ at(at(m)) = m
  BY <1>1
<1>. HIDE DEF at
<1>4. Elems(w) \subseteq Elems(st)
  BY <1>1, <1>2, <1>3 DEF Elems
<1>5. Once(st) => Once(w)
  BY <1>1, <1>2, <1>3 DEF Once
<1>6. k = n => Elems(w) = Elems(st)
  BY <1>1, <1>2, <1>3, <1>4 DEF Elems
<1>7. Once(st) => \A m \in 1..(n - k) : st[m] \notin Elems(w)
  <2>. SUFFICES ASSUME Once(st), NEW l \in 1..(n - k), NEW m \in 1..k, st[l] = w[m]
                PROVE  FALSE
    BY <1>1 DEF Elems
  <2>1. st[l] = st[at(m)] /\ l \in DOMAIN st /\ at(m) \in DOMAIN st
    BY <1>1, <1>2, <1>3
  <2>2. l = at(m)
    BY <2>1 DEF Once
  <2>. QED BY <1>3, <2>2
<1>. QED BY <1>4, <1>5, <1>6, <1>7 DEF n, k

LEMMA ElemsFirst ==
    ASSUME NEW st \in Seq(Nat), NEW rest \in Seq(Nat), Begins(rest, st)
    PROVE  /\ Elems(rest) \subseteq Elems(st) /\ (Once(st) => Once(rest))
           /\ \A x \in Elems(rest) : \E m \in 1..Len(rest) : x = st[m]
<1>. DEFINE n == Len(st)  k == Len(rest)
<1>1. /\ n \in Nat /\ k \in Nat /\ k <= n /\ DOMAIN st = 1..n /\ DOMAIN rest = 1..k
      /\ \A m \in 1..k : rest[m] = st[m]
  BY DEF Begins
<1>. HIDE DEF n, k
<1>2. \A m \in 1..k : m \in 1..n
  BY <1>1
<1>3. /\ Elems(rest) \subseteq Elems(st) /\ (Once(st) => Once(rest))
      /\ \A x \in Elems(rest) : \E m \in 1..k : x = st[m]
  BY <1>1, <1>2 DEF Elems, Once
<1>. QED BY <1>3 DEF k

\* What is written comes after what was, each message once, and leaves the rest.
LEMMA WriteSound ==
    ASSUME NEW g \in Seq(Nat), NEW st \in Seq(Nat), Once(g), Once(st),
           Elems(g) \cap Elems(st) = {},
           NEW w \in Seq(Nat), Mirrors(w, st),
           NEW rest \in Seq(Nat), Begins(rest, st), Len(rest) <= Len(st) - Len(w)
    PROVE  /\ Once(g \o w) /\ Once(rest)
           /\ Elems(g \o w) = Elems(g) \cup Elems(w)
           /\ Elems(w) \subseteq Elems(st) /\ Elems(rest) \subseteq Elems(st)
           /\ Elems(rest) \cap Elems(g \o w) = {}
           /\ Len(w) = Len(st) => Elems(w) = Elems(st)
<1>1. /\ Elems(w) \subseteq Elems(st) /\ Once(w) /\ (Len(w) = Len(st) => Elems(w) = Elems(st))
      /\ \A m \in 1..(Len(st) - Len(w)) : st[m] \notin Elems(w)
  BY ElemsMirrored
<1>2. Len(st) \in Nat /\ Len(w) \in Nat /\ Len(rest) \in Nat /\ Len(rest) <= Len(st)
  OBVIOUS
<1>3. /\ Elems(rest) \subseteq Elems(st) /\ Once(rest)
      /\ \A x \in Elems(rest) : \E m \in 1..Len(rest) : x = st[m]
  BY <1>2, ElemsFirst
<1>4. Elems(rest) \cap Elems(w) = {}
  <2>1. \A m \in 1..Len(rest) : m \in 1..(Len(st) - Len(w))
    BY <1>2
  <2>. QED BY <1>1, <1>3, <2>1
<1>5. Elems(g \o w) = Elems(g) \cup Elems(w) /\ Once(g \o w)
  BY <1>1, ElemsJoined
<1>. QED BY <1>1, <1>3, <1>4, <1>5

LEMMA WriteLeaves ==
    ASSUME NEW g \in Seq(Nat), NEW st \in Seq(Nat), Once(g), Once(st),
           Elems(g) \cap Elems(st) = {}, NEW k \in 0..Len(st)
    PROVE  LET w == SubSeq(Taken(st), 1, k)
               rest == IF k = Len(st) THEN <<>> ELSE Reverse(SubSeq(Taken(st), k + 2, Len(st)))
           IN /\ Once(g \o w) /\ Once(rest)
              /\ Elems(g \o w) = Elems(g) \cup Elems(w)
              /\ Elems(w) \subseteq Elems(st) /\ Elems(rest) \subseteq Elems(st)
              /\ Elems(rest) \cap Elems(g \o w) = {}
              /\ k = Len(st) => Elems(w) = Elems(st) /\ rest = <<>>
<1>. DEFINE w == SubSeq(Taken(st), 1, k)
            rest == IF k = Len(st) THEN <<>> ELSE Reverse(SubSeq(Taken(st), k + 2, Len(st)))
<1>1. Len(st) \in Nat /\ k \in Nat /\ k <= Len(st)
  OBVIOUS
<1>2. w \in Seq(Nat) /\ Len(w) = k /\ \A m \in 1..k : w[m] = st[Len(st) - m + 1]
  BY WriteTakes
<1>3. rest \in Seq(Nat) /\ Len(rest) <= Len(st) - k /\ \A m \in 1..Len(rest) : rest[m] = st[m]
  <2>1. CASE k = Len(st)
    <3>1. rest = <<>> /\ Len(rest) = 0
      BY <2>1
    <3>. QED BY <1>1, <2>1, <3>1
  <2>2. CASE k # Len(st)
    <3>1. rest = Reverse(SubSeq(Taken(st), k + 2, Len(st)))
      BY <2>2
    <3>2. /\ rest \in Seq(Nat) /\ Len(rest) = Len(st) - k - 1
          /\ \A m \in 1..(Len(st) - k - 1) : rest[m] = st[m]
      BY <2>2, <3>1, WriteTakes
    <3>. QED BY <1>1, <2>2, <3>2
  <2>. QED BY <2>1, <2>2
<1>4. k = Len(st) => rest = <<>>
  OBVIOUS
<1>. HIDE DEF w, rest
<1>5. /\ Once(g \o w) /\ Once(rest)
      /\ Elems(g \o w) = Elems(g) \cup Elems(w)
      /\ Elems(w) \subseteq Elems(st) /\ Elems(rest) \subseteq Elems(st)
      /\ Elems(rest) \cap Elems(g \o w) = {}
      /\ Len(w) = Len(st) => Elems(w) = Elems(st)
  <2>1. w \in Seq(Nat) /\ Mirrors(w, st)
    BY <1>1, <1>2 DEF Mirrors
  <2>2. rest \in Seq(Nat) /\ Len(rest) <= Len(st) - Len(w)
    BY <1>2, <1>3
  <2>3. Begins(rest, st)
    BY <1>1, <1>3 DEF Begins
  <2>. QED BY <2>1, <2>2, <2>3, WriteSound
<1>. QED BY <1>2, <1>4, <1>5 DEF w, rest

LEMMA NextStacks ==
    ASSUME SocketConstants, SocketTypeOK, SocketShape, FramesSound, ServerGone, SessionsSound,
           StacksSound, SocketNext
    PROVE  StacksSound'
<1>. USE DEF serverVars, sessionVars, handlerVars, httpVars, messageVars
<1>. DEFINE All == UNION {queued[i] : i \in DOMAIN queued}
            Bound(s) == /\ Once(pss[s].stack)
                        /\ Waiting(s) \cap Written(pss[s].id) = {}
                        /\ Waiting(s) \subseteq queued[pss[s].id]
                        /\ conn[s] = "open" =>
                              queued[pss[s].id] = Written(pss[s].id) \cup Waiting(s)
<1>1. /\ DOMAIN queued = 0..(MaxIds - 1) /\ Established \subseteq Slots
      /\ \A s \in Established : pss[s].id \in DOMAIN queued /\ pss[s].id < idx /\ Bound(s)
  <2>1. \A s \in Established : pss[s].id \in 0..(idx - 1) /\ Bound(s)
    BY DEF SessionsSound, StacksSound
  <2>. QED BY <2>1 DEF SocketShape, SocketTypeOK, SocketConstants, Established
\* No message moves; sessions may end, or be closed.
<1>2. ASSUME UNCHANGED <<queued, got, idx>>,
             \A s \in Established' : s \in Established /\ pss'[s] = pss[s]
                                    /\ (conn'[s] = "open" => conn[s] = "open")
      PROVE  StacksSound'
  <2>1. \A i : Written(i)' = Written(i)
    BY <1>2 DEF Written
  <2>2. \A s \in Established' : Waiting(s)' = Waiting(s)
    BY <1>2 DEF Waiting
  <2>3. \A s \in Established' : Bound(s)'
    BY <1>1, <1>2, <2>1, <2>2
  <2>. QED BY <1>2, <2>1, <2>3 DEF StacksSound
\* A session begins, with an id that has no messages.
<1>3. ASSUME UNCHANGED <<queued, got>>, idx' = idx + 1, idx < MaxIds,
             NEW s \in Slots, s \notin Established, Established' = Established \cup {s}, pss'[s] = Session(idx),
             \A r \in Established : pss'[r] = pss[r] /\ conn'[r] = conn[r]
      PROVE  StacksSound'
  <2>0. idx \in Nat /\ idx \in DOMAIN queued
    BY <1>1, <1>3 DEF SocketTypeOK, SocketConstants
  <2>1. /\ pss'[s].id = idx /\ pss'[s].stack = <<>> /\ queued[idx] = {} /\ got[idx] = <<>>
    BY <1>3, <2>0 DEF Session, StacksSound
  <2>2. Written(idx) = {} /\ Waiting(s)' = {} /\ Once(pss'[s].stack)
    BY <2>1 DEF Written, Waiting, Once, Elems
  <2>3. \A i \in DOMAIN queued : i >= idx' => i >= idx
    BY <1>1, <1>3, <2>0
  <2>4. \A i : Written(i)' = Written(i)
    BY <1>3 DEF Written
  <2>5. \A r \in Established : Waiting(r)' = Waiting(r)
    BY <1>3 DEF Waiting
  <2>6. \A r \in Established' : Bound(r)'
    <3>1. Bound(s)'
      BY <1>3, <2>1, <2>2, <2>4
    <3>2. \A r \in Established : Bound(r)'
      BY <1>1, <1>3, <2>4, <2>5
    <3>. QED BY <1>3, <3>1, <3>2
  <2>. QED BY <1>3, <2>3, <2>4, <2>6 DEF StacksSound
\* A message is sent.
<1>4. ASSUME NEW t \in {-1} \cup (0..(idx - 1)), WebsocketSend(t) PROVE StacksSound'
  <2>. DEFINE msg == Messages + 1
              to == {s \in table : t = -1 \/ pss[s].id = t}
  <2>1. CASE UNCHANGED <<pss, queued>>
    BY <1>2, <1>4, <2>1 DEF WebsocketSend, Established
  <2>2. CASE /\ \A s \in table : pss[s].sig = "pss"
             /\ to # {}
             /\ pss' = [s \in Slots |->
                          IF s \in to THEN [pss[s] EXCEPT !.stack = Append(@, msg)] ELSE pss[s]]
             /\ queued' = [i \in DOMAIN queued |->
                             IF \E s \in to : pss[s].id = i THEN queued[i] \cup {msg} ELSE queued[i]]
    <3>1. msg \in Nat /\ All = 1..Messages /\ Messages \in Nat
      BY MessagesCount
    <3>2. \A i \in DOMAIN queued : msg \notin queued[i]
      <4>1. msg \notin 1..Messages
        BY <3>1
      <4>. QED BY <3>1, <4>1
    <3>3. to \subseteq Established /\ to \subseteq Slots
      BY <2>2 DEF SessionsSound, SocketTypeOK
    <3>4. 1..msg = 1..Messages \cup {msg}
      BY <3>1
    <3>. HIDE DEF msg, to
    <3>5. UNCHANGED <<got, idx, conn>>
      BY <1>4 DEF WebsocketSend
    <3>6. Established' = Established
      BY <3>5 DEF Established
    <3>7. \A s \in Slots : /\ pss'[s].id = pss[s].id
                           /\ pss'[s].stack = IF s \in to THEN Append(pss[s].stack, msg) ELSE pss[s].stack
      BY <2>2 DEF SocketShape
    <3>8. \A s \in Established : pss[s].stack \in Seq(Nat)
      BY <1>1 DEF SocketShape
    <3>9. \A i : Written(i)' = Written(i)
      BY <3>5 DEF Written
    <3>10. ASSUME NEW s \in Established PROVE Bound(s)'
      <4>0. /\ Bound(s) /\ pss[s].id \in DOMAIN queued /\ Written(pss[s].id) \subseteq queued[pss[s].id]
            /\ msg \notin queued[pss[s].id] /\ pss[s].stack \in Seq(Nat) /\ s \in Slots
        BY <1>1, <3>2, <3>8 DEF StacksSound
      <4>1. CASE s \in to
        <5>1. queued'[pss[s].id] = queued[pss[s].id] \cup {msg}
          BY <2>2, <4>0, <4>1
        <5>2. Waiting(s)' = Waiting(s) \cup {msg} /\ Once(pss'[s].stack)
          <6>1. pss'[s].stack = Append(pss[s].stack, msg)
            BY <3>7, <4>0, <4>1
          <6>2. msg \notin Elems(pss[s].stack)
            BY <4>0 DEF Waiting
          <6>. QED BY <3>1, <4>0, <6>1, <6>2, ElemsAppended DEF Waiting
        <5>. QED BY <3>5, <3>7, <3>9, <4>0, <5>1, <5>2
      <4>2. CASE s \notin to
        <5>1. ~\E r \in to : pss[r].id = pss[s].id
          BY <3>3, <4>2 DEF SessionsSound
        <5>2. queued'[pss[s].id] = queued[pss[s].id]
          BY <2>2, <4>0, <5>1
        <5>3. Waiting(s)' = Waiting(s) /\ pss'[s].stack = pss[s].stack
          BY <3>7, <4>0, <4>2 DEF Waiting
        <5>. QED BY <3>5, <3>7, <3>9, <4>0, <5>2, <5>3
      <4>. QED BY <4>1, <4>2
    <3>11. /\ DOMAIN queued' = DOMAIN queued
           /\ \A i \in DOMAIN queued : queued[i] \subseteq queued'[i] /\ queued'[i] \subseteq queued[i] \cup {msg}
           /\ \A i \in DOMAIN queued : i >= idx => queued'[i] = queued[i]
      <4>1. \A i \in DOMAIN queued : i >= idx => ~\E s \in to : pss[s].id = i
        <5>1. \A s \in to : pss[s].id \in 0..(idx - 1) /\ idx \in Nat
          BY <3>3 DEF SessionsSound, SocketTypeOK
        <5>2. DOMAIN queued \subseteq Int
          BY <1>1
        <5>. QED BY <5>1, <5>2
      <4>. QED BY <2>2, <4>1
    <3>12. All' = All \cup {msg}
      <4>1. PICK s \in to : TRUE
        BY <2>2
      <4>2. pss[s].id \in DOMAIN queued /\ msg \in queued'[pss[s].id]
        BY <1>1, <2>2, <3>3
      <4>3. msg \in All'
        BY <3>11, <4>2
      <4>. QED BY <3>11, <4>3
    <3>13. \A i \in DOMAIN queued' : Once(got'[i]) /\ Written(i)' \subseteq queued'[i]
      BY <3>5, <3>9, <3>11 DEF StacksSound
    <3>14. \A i \in DOMAIN queued' : i >= idx' => queued'[i] = {} /\ got'[i] = <<>>
      BY <3>5, <3>11 DEF StacksSound
    <3>15. \E m \in Nat : All' = 1..m
      BY <3>1, <3>4, <3>12
    <3>. QED BY <3>6, <3>10, <3>13, <3>14, <3>15 DEF StacksSound
  <2>. QED BY <1>4, <2>1, <2>2 DEF WebsocketSend
\* Messages are written.
<1>5. ASSUME NEW s \in Slots, Writeable(s) PROVE StacksSound'
  <2>. DEFINE st == pss[s].stack  n == Len(st)  i == pss[s].id
  <2>1. s \in Established /\ i \in DOMAIN queued /\ st \in Seq(Nat) /\ got[i] \in Seq(Nat) /\ Bound(s)
        /\ conn[s] = "open" /\ Once(got[i]) /\ Written(i) \subseteq queued[i] /\ i < idx
    <3>1. s \in Established /\ conn[s] = "open"
      BY <1>5 DEF Writeable, Established
    <3>. QED BY <1>1, <3>1 DEF SocketShape, StacksSound
  <2>2. PICK k \in 0..n :
          /\ got' = [got EXCEPT ![i] = @ \o SubSeq(Taken(st), 1, k)]
          /\ pss' = [pss EXCEPT ![s].stack = IF k = n THEN <<>> ELSE Reverse(SubSeq(Taken(st), k + 2, n))]
          /\ conn' = [conn EXCEPT ![s] = IF k = n THEN @ ELSE "closing"]
    <3>1. Len(Taken(st)) = n
      BY <2>1 DEF Taken, Reverse
    <3>. QED BY <1>5, <3>1 DEF Writeable
  <2>3. UNCHANGED <<queued, idx>>
    BY <1>5 DEF Writeable
  <2>. DEFINE w == SubSeq(Taken(st), 1, k)
              rest == IF k = n THEN <<>> ELSE Reverse(SubSeq(Taken(st), k + 2, n))
              g == got[i]
  <2>4. /\ Once(g \o w) /\ Once(rest)
        /\ Elems(g \o w) = Elems(g) \cup Elems(w)
        /\ Elems(w) \subseteq Elems(st) /\ Elems(rest) \subseteq Elems(st)
        /\ Elems(rest) \cap Elems(g \o w) = {}
        /\ k = n => Elems(w) = Elems(st) /\ rest = <<>>
    <3>1. g \in Seq(Nat) /\ st \in Seq(Nat) /\ Once(g) /\ Once(st) /\ Elems(g) \cap Elems(st) = {}
      BY <2>1 DEF Written, Waiting
    <3>. HIDE DEF g, st
    <3>. QED BY <3>1, WriteLeaves
  <2>5. got' = [got EXCEPT ![i] = g \o w] /\ pss' = [pss EXCEPT ![s].stack = rest]
    BY <2>2
  <2>. HIDE DEF w, rest, n
  <2>6. /\ got'[i] = g \o w /\ \A j \in DOMAIN queued : j # i => got'[j] = got[j]
        /\ pss'[s].stack = rest
        /\ \A r \in Slots : pss'[r].id = pss[r].id /\ (r # s => pss'[r].stack = pss[r].stack)
    BY <1>1, <2>1, <2>5 DEF SocketShape
  <2>7. /\ \A r \in Slots : r # s => conn'[r] = conn[r]
        /\ conn'[s] \in {"open", "closing"} /\ (conn'[s] = "open" => k = n)
    BY <2>1, <2>2 DEF SocketTypeOK
  <2>8. Established' = Established
    BY <2>1, <2>7 DEF Established
  <2>9. pss'[s].id = i /\ Written(i) = Elems(g) /\ Waiting(s) = Elems(st)
        /\ Elems(got'[i]) = Elems(g \o w) /\ Elems(pss'[s].stack) = Elems(rest)
    BY <2>6 DEF Written, Waiting
  <2>10. Bound(s)'
    <3>1. Written(i)' = Elems(g \o w) /\ Waiting(s)' = Elems(rest)
      BY <2>6, <2>9 DEF Written, Waiting
    <3>2. Once(pss'[s].stack)
      BY <2>4, <2>6
    <3>3. Elems(rest) \cap Elems(g \o w) = {} /\ Elems(rest) \subseteq queued'[i]
      BY <2>1, <2>3, <2>4, <2>9
    <3>4. conn'[s] = "open" => queued'[i] = Elems(g \o w) \cup Elems(rest)
      <4>1. ASSUME k = n PROVE Elems(rest) = {} /\ Elems(w) = Elems(st)
        BY <2>4, <4>1 DEF Elems
      <4>. QED BY <2>1, <2>3, <2>4, <2>7, <2>9, <4>1
    <3>. QED BY <2>9, <3>1, <3>2, <3>3, <3>4
  <2>11. ASSUME NEW r \in Established, r # s PROVE Bound(r)'
    <3>1. pss[r].id # i /\ r \in Slots /\ pss[r].id \in DOMAIN queued /\ Bound(r)
      BY <1>1, <2>1, <2>11 DEF SessionsSound
    <3>2. Written(pss[r].id)' = Written(pss[r].id) /\ Waiting(r)' = Waiting(r)
      BY <2>6, <2>11, <3>1 DEF Written, Waiting
    <3>. QED BY <2>3, <2>6, <2>7, <2>11, <3>1, <3>2
  <2>12. ASSUME NEW j \in DOMAIN queued PROVE Once(got'[j]) /\ Written(j)' \subseteq queued[j]
    <3>1. CASE j = i
      <4>1. Elems(g \o w) \subseteq queued[i] /\ Once(g \o w)
        BY <2>1, <2>4, <2>9
      <4>. QED BY <2>6, <3>1, <4>1 DEF Written
    <3>2. CASE j # i
      BY <2>6, <3>2 DEF StacksSound, Written
    <3>. QED BY <3>1, <3>2
  <2>13. \A j \in DOMAIN queued : j >= idx => queued[j] = {} /\ got'[j] = <<>>
    <3>1. \A j \in DOMAIN queued : j >= idx => j # i
      BY <1>1, <2>1 DEF SocketTypeOK, SocketConstants
    <3>. QED BY <2>6, <3>1 DEF StacksSound
  <2>14. \A r \in Established' : Bound(r)'
    BY <2>8, <2>10, <2>11
  <2>. QED BY <2>3, <2>12, <2>13, <2>14 DEF StacksSound
<1>6. CASE UNCHANGED <<queued, got, idx, pss, conn>>
  BY <1>2, <1>6 DEF Established
<1>7. ASSUME UNCHANGED <<queued, got, idx>>, NEW s \in Slots, NEW c,
             conn' = [conn EXCEPT ![s] = c], c = "closing" => conn[s] = "open",
             c = "closed" => conn[s] \in {"open", "closing"}, c # "open",
             pss' = pss \/ (c \in {"none", "asked"} /\ \E p : pss' = [pss EXCEPT ![s] = p])
      PROVE  StacksSound'
  <2>1. \A r \in Slots : r # s => conn'[r] = conn[r] /\ pss'[r] = pss[r]
    BY <1>7 DEF SocketTypeOK, SocketShape
  <2>2. conn'[s] = c
    BY <1>7 DEF SocketTypeOK
  <2>3. ASSUME NEW r \in Established'
        PROVE  r \in Established /\ pss'[r] = pss[r] /\ (conn'[r] = "open" => conn[r] = "open")
    <3>1. CASE r = s
      BY <1>7, <2>2, <3>1 DEF Established
    <3>2. CASE r # s
      BY <2>1, <3>2 DEF Established
    <3>. QED BY <3>1, <3>2
  <2>. QED BY <1>2, <1>7, <2>3
<1>8. CASE OpenReturns
  <2>1. Topmost.slot \in Slots /\ conn[Topmost.slot] = "asked" /\ UNCHANGED <<queued, got>>
    BY <1>8, FrameTop DEF OpenReturns, Returns, FramesSound, Topmost, Functions
  <2>. PICK s \in Slots : s = Topmost.slot
    BY <2>1
  <2>2. CASE UNCHANGED <<table, connectCnt, idx, conn, pss>>
    BY <1>6, <2>1, <2>2
  <2>3. CASE /\ conn' = [conn EXCEPT ![s] = "none"] /\ pss' = [pss EXCEPT ![s] = Freed]
             /\ UNCHANGED <<table, connectCnt, idx>>
    BY <1>7, <2>1, <2>3
  <2>4. CASE /\ s \notin table /\ conn' = [conn EXCEPT ![s] = "open"] /\ idx < MaxIds
             /\ pss' = [pss EXCEPT ![s] = Session(idx)] /\ idx' = idx + 1
    <3>1. /\ \A r \in Slots : r # s => conn'[r] = conn[r] /\ pss'[r] = pss[r]
          /\ conn'[s] = "open" /\ pss'[s] = Session(idx) /\ conn[s] = "asked"
      BY <2>1, <2>4 DEF SocketTypeOK, SocketShape
    <3>2. Established' = Established \cup {s} /\ s \notin Established /\ Established \subseteq Slots
      BY <3>1 DEF Established
    <3>3. \A r \in Established : pss'[r] = pss[r] /\ conn'[r] = conn[r]
      BY <3>1, <3>2
    <3>. QED BY <1>3, <2>1, <2>4, <3>1, <3>2, <3>3
  <2>. QED BY <1>8, <2>2, <2>3, <2>4 DEF OpenReturns, GetPssNew
<1>9. ASSUME NEW fails \in BOOLEAN, CloseReturns(fails) PROVE StacksSound'
  <2>1. Topmost.slot \in Slots
    BY <1>9, FrameTop DEF CloseReturns, Returns, FramesSound, Topmost, Functions
  <2>2. Gone(Topmost.slot) /\ UNCHANGED <<queued, got, idx>>
    BY <1>9 DEF CloseReturns, DeletePss
  <2>. QED BY <1>7, <2>1, <2>2 DEF Gone
<1>10. ASSUME NEW s \in Slots, Connect(s) \/ Upgrade(s) \/ Close(s) \/ HangUp(s) \/ \E r \in Requests : Page(s, r)
       PROVE StacksSound'
  <2>1. PICK c \in {"accepted", "asked", "closed", "none", "page"} :
           /\ conn' = [conn EXCEPT ![s] = c]
           /\ c = "closed" => conn[s] \in {"open", "closing"}
           /\ pss' = pss \/ (c = "asked" /\ pss' = [pss EXCEPT ![s] = Zeroed])
    BY <1>10 DEF Connect, Upgrade, Close, HangUp, Page
  <2>2. UNCHANGED <<queued, got, idx>>
    BY <1>10 DEF Connect, Upgrade, Close, HangUp, Page
  <2>. QED BY <1>7, <2>1, <2>2
<1>11. ASSUME NEW fails \in BOOLEAN, ReceiveReturns(fails) \/ HandlerReturns(fails) PROVE StacksSound'
  <2>1. frames # <<>> /\ Topmost.slot \in Slots
    BY <1>11, FrameTop DEF ReceiveReturns, HandlerReturns, Returns, FramesSound, Topmost, Functions
  <2>2. \/ UNCHANGED conn \/ conn' = [conn EXCEPT ![Topmost.slot] = "none"]
        \/ (conn[Topmost.slot] = "open" /\ conn' = [conn EXCEPT ![Topmost.slot] = "closing"])
    <3>1. \A s : [conn EXCEPT ![s] = conn[s]] = conn
      BY DEF SocketTypeOK
    <3>. QED BY <1>11, <3>1 DEF ReceiveReturns, HandlerReturns
  <2>3. UNCHANGED <<queued, got, idx, pss>>
    BY <1>11 DEF ReceiveReturns, HandlerReturns
  <2>. QED BY <1>6, <1>7, <2>1, <2>2, <2>3
<1>12. CASE Destroyed
  <2>1. Established' = {} /\ UNCHANGED <<queued, got, idx>>
    BY <1>12 DEF Destroyed, Established
  <2>. QED BY <1>2, <2>1
<1>13. CASE \/ Construct \/ Drop \/ Service \/ WebsocketUpdate \/ ServiceReturns \/ WebsocketConf
            \/ (\E e \in Exts : UnsetHandler(e) \/ \E v \in Values : SetHandler(e, v))
            \/ CloseLastReturns \/ \E s \in Slots : Receive(s)
  BY <1>6, <1>13 DEF Construct, Constructed, Drop, Service, WebsocketUpdate, ServiceReturns,
     WebsocketConf, UnsetHandler, SetHandler, CloseLastReturns, Receive
<1>. QED BY <1>4, <1>5, <1>8, <1>9, <1>10, <1>11, <1>12, <1>13, SMT DEF SocketNext

\* Before there is an object.
LEMMA InitiallySocketInv == ASSUME SocketConstants, SocketInit PROVE SocketInv
<1>1. Cardinality({}) = 0
  BY FS_EmptySet
<1>2. SocketTypeOK /\ SocketShape
  BY DEF SocketConstants, SocketInit, SocketTypeOK, SocketShape, Freed
<1>3. FramesSound /\ UpdatesSound /\ ServerGone
  BY DEF SocketInit, FramesSound, UpdatesSound, ServerGone
<1>4. SessionsSound
  <2>1. Established = {}
    BY DEF SocketInit, Established
  <2>. QED BY <1>1, <2>1 DEF SocketInit, SessionsSound, Freed
<1>5. StacksSound
  <2>1. Established = {}
    BY DEF SocketInit, Established
  <2>2. UNION {queued[i] : i \in DOMAIN queued} = 1..0
    BY DEF SocketInit
  <2>3. \A i \in DOMAIN queued : queued[i] = {} /\ got[i] = <<>>
    BY DEF SocketInit
  <2>. QED BY <2>1, <2>2, <2>3 DEF StacksSound, Once, Written, Elems
<1>6. HandlersSound
  <2>1. ASSUME NEW v \in Values PROVE With(handlers, v) = {}
    BY DEF SocketInit, SocketConstants, With
  <2>2. ways = {} /\ \A v \in Values : refs[v] = 0 /\ Cardinality(With(handlers, v)) = 0
    BY <1>1, <2>1 DEF SocketInit
  <2>. QED BY <2>2 DEF HandlersSound
<1>7. PagesAnswered /\ MemorySound
  BY DEF SocketInit, PagesAnswered, MemorySound
<1>. QED BY <1>2, <1>3, <1>4, <1>5, <1>6, <1>7 DEF SocketInv

\* Every step keeps the invariant, whatever runs within what.
LEMMA NextSocketInv == ASSUME SocketConstants, SocketInv, [SocketNext]_socketVars PROVE SocketInv'
<1>1. CASE SocketNext
  <2>. USE <1>1 DEF SocketInv
  <2>1. SocketTypeOK' /\ SocketShape'
    BY NextShape
  <2>2. FramesSound'
    BY NextFrames
  <2>3. ServerGone' /\ UpdatesSound'
    BY NextServer, NextUpdates
  <2>4. SessionsSound' /\ StacksSound'
    BY NextSessions, NextStacks
  <2>5. HandlersSound' /\ PagesAnswered' /\ MemorySound'
    BY NextHandlers, NextPages, NextMemory
  <2>. QED BY <2>1, <2>2, <2>3, <2>4, <2>5
<1>2. CASE UNCHANGED socketVars
  <2>. USE <1>2 DEF socketVars, serverVars, sessionVars, handlerVars, httpVars, messageVars
  <2>1. SocketTypeOK' /\ SocketShape' /\ FramesSound' /\ UpdatesSound' /\ ServerGone'
    BY DEF SocketInv, SocketTypeOK, SocketShape, FramesSound, UpdatesSound, ServerGone
  <2>2. Established' = Established
    BY DEF Established
  <2>3. SessionsSound' /\ HandlersSound' /\ PagesAnswered' /\ MemorySound'
    BY <2>2 DEF SocketInv, SessionsSound, HandlersSound, PagesAnswered, MemorySound
  <2>4. (\A i : Written(i)' = Written(i)) /\ \A s : Waiting(s)' = Waiting(s)
    BY DEF Written, Waiting
  <2>5. StacksSound'
    BY <2>2, <2>4 DEF SocketInv, StacksSound
  <2>. QED BY <2>1, <2>3, <2>5 DEF SocketInv
<1>. QED BY <1>1, <1>2

\* The invariant says what is promised of a Websocket.
LEMMA SocketInvIsSound == ASSUME SocketInv PROVE SocketSound
<1>. USE DEF SocketInv
<1>1. TableIsSessions
  <2>. SUFFICES ASSUME "onClose" \notin ways PROVE TableIsSessions
    BY DEF TableIsSessions
  <2>1. table = Established
    BY DEF SessionsSound, SocketTypeOK, Established
  <2>2. \A s \in Established : pss[s].id < idx
    BY DEF SessionsSound, SocketTypeOK
  <2>. QED BY <2>1, <2>2 DEF TableIsSessions, SessionsSound
<1>2. MessagesDelivered
  <2>1. ASSUME NEW i \in DOMAIN queued, NEW s \in table, pss[s].id = i, conn[s] = "open"
        PROVE  Elems(got[i]) \cap Elems(pss[s].stack) = {}
               /\ queued[i] = Elems(got[i]) \cup Elems(pss[s].stack)
    <3>1. s \in Established
      BY <2>1 DEF Established, SocketTypeOK
    <3>. QED BY <2>1, <3>1 DEF StacksSound, Written, Waiting
  <2>2. \A i \in DOMAIN queued : Once(got[i]) /\ Elems(got[i]) \subseteq queued[i]
    BY DEF StacksSound, Written
  <2>. QED BY <2>1, <2>2 DEF MessagesDelivered, Once, Elems
<1>3. ServerSound
  <2>1. callback = "arg" => \E i \in DOMAIN frames : frames[i].kind = "update"
    BY DEF UpdatesSound
  <2>2. server = "freed" => holds = {} /\ Open = {}
    BY DEF ServerGone, Open
  <2>. QED BY <2>1, <2>2 DEF ServerSound, HandlersSound, With
<1>. QED BY <1>1, <1>2, <1>3 DEF SocketSound

\* SocketSound for every number of connections and scripts that call back into the server
\* as deep as they like: the table holds the sessions that exist, once each, messages reach
\* the sessions they were sent to and each once, handlers are referenced, pages answered,
\* and freed memory is used only after one of the three things the code does not provide
\* for (an onClose that fails, update within a callback, conf within update).
THEOREM SocketIsSound == ASSUME SocketConstants PROVE SocketSpec => []SocketSound
<1>1. SocketInit => SocketInv
  BY InitiallySocketInv
<1>2. SocketInv /\ [SocketNext]_socketVars => SocketInv'
  BY NextSocketInv
<1>3. SocketInv => SocketSound
  BY SocketInvIsSound
<1>. QED BY <1>1, <1>2, <1>3, PTL DEF SocketSpec

-----------------------------------------------------------------------------
(* Signals.                                                                *)

USE SignalsAssumption

-----------------------------------------------------------------------------
(* The inductive invariant of signals.                                     *)

PassFrame == [at : {"scan", "load", "store", "run"}, todo : SUBSET Nat, ev : Nat,
          mask : SUBSET Sigs]

\* The shape of the rest of the state.
SignalShape ==
    /\ sent \in [Sigs -> Nat] /\ runs \in [Sigs -> Nat]
    /\ eventTbl \in Seq([interp : Interps, sig : Sigs])
    /\ before \in Seq([sent : Nat, runs : Nat, bit : BOOLEAN])
    /\ Len(before) = Len(eventTbl)
    /\ passes \in [Interps -> Seq(PassFrame)]

\* A pass that is not the innermost of its interp runs a callback, and a bit is loaded
\* and stored for an event that was made.
PassesSound ==
    \A i \in Interps : \A k \in 1..Len(passes[i]) :
        /\ k < Len(passes[i]) => passes[i][k].at = "run"
        /\ passes[i][k].at \in {"load", "store"} => passes[i][k].ev \in DOMAIN eventTbl

\* Whenever a signal has left the default, what it began with is what will be restored.
OriginalKept ==
    \A s \in Sigs \ Uncaught : signal_handling[s] # "default" => sa_old[s] = original[s]

\* The bit about to be cleared was set in what was loaded.
LoadedSet ==
    "torn" \notin slips =>
        \A i \in Interps : \A k \in 1..Len(passes[i]) :
            passes[i][k].at = "store" => eventTbl[passes[i][k].ev].sig \in passes[i][k].mask

\* A bit that is set counts as a callback that may yet run.
Bit(s) == IF s \in sigmask THEN 1 ELSE 0
BitsCovered ==
    "torn" \notin slips =>
        /\ \A s \in Sigs : runs[s] + Bit(s) <= sent[s]
        /\ \A n \in DOMAIN eventTbl :
              LET s == eventTbl[n].sig IN
              runs[s] + Bit(s) - before[n].runs <=
                  sent[s] - before[n].sent + (IF before[n].bit THEN 1 ELSE 0)

SignalsTyped == TypeOK /\ SignalShape /\ PassesSound
Dispositions == DispositionsTrue /\ OriginalKept
Accounts == NoSignalLost /\ BitsCovered /\ LoadedSet
SignalInv == SignalsTyped /\ Dispositions /\ Accounts /\ MaskThere

-----------------------------------------------------------------------------
(* The passes of an interp.                                                *)

LEMMA TopOf ==
  ASSUME SignalShape, NEW i \in Interps, passes[i] # <<>>
  PROVE  /\ passes[i] \in Seq(PassFrame) /\ Len(passes[i]) \in Nat \ {0}
         /\ Top(i) = passes[i][Len(passes[i])] /\ Top(i) \in PassFrame
<1>1. passes[i] \in Seq(PassFrame) /\ Len(passes[i]) \in Nat /\ Len(passes[i]) # 0
  BY DEF SignalShape
<1> QED
  BY <1>1 DEF Top, Last

LEMMA FrontOf ==
  ASSUME NEW S, NEW q \in Seq(S), q # <<>>
  PROVE  /\ Front(q) \in Seq(S) /\ Len(Front(q)) = Len(q) - 1
         /\ \A k \in 1..(Len(q) - 1) : Front(q)[k] = q[k]
<1> DEFINE n == Len(q)
<1>1. n \in Nat \ {0}
  OBVIOUS
<1>2. n - 1 \in Int /\ 1 \in Int /\ \A i \in 1..(n - 1) : q[i] \in S
  BY <1>1
<1>3. /\ SubSeq(q, 1, n - 1) \in Seq(S)
      /\ Len(SubSeq(q, 1, n - 1)) = IF 1 <= n - 1 THEN n - 1 - 1 + 1 ELSE 0
      /\ \A i \in 1..(n - 1 - 1 + 1) : SubSeq(q, 1, n - 1)[i] = q[1 + i - 1]
  BY <1>2, SubSeqProperties
<1>4. Front(q) = SubSeq(q, 1, n - 1)
  BY DEF Front
<1> HIDE DEF n
<1>5. Len(Front(q)) = n - 1
  BY <1>1, <1>3, <1>4
<1>6. \A k \in 1..(n - 1) : Front(q)[k] = q[k]
  BY <1>1, <1>3, <1>4
<1> QED
  BY <1>3, <1>4, <1>5, <1>6 DEF n

LEMMA Replaced ==
  ASSUME SignalShape, NEW i \in Interps, passes[i] # <<>>, NEW f \in PassFrame, Becomes(i, f)
  PROVE  /\ passes' \in [Interps -> Seq(PassFrame)]
         /\ \A j \in Interps : j # i => passes'[j] = passes[j]
         /\ Len(passes'[i]) = Len(passes[i])
         /\ \A k \in 1..(Len(passes[i]) - 1) : passes'[i][k] = passes[i][k]
         /\ passes'[i][Len(passes[i])] = f
<1> DEFINE q == passes[i]
           g == Front(q)
<1>1. q \in Seq(PassFrame) /\ q # <<>> /\ Len(q) \in Nat \ {0}
  BY TopOf
<1>2. g \in Seq(PassFrame) /\ Len(g) = Len(q) - 1 /\ \A k \in 1..(Len(q) - 1) : g[k] = q[k]
  BY <1>1, FrontOf
<1>3. passes' = [passes EXCEPT ![i] = Append(g, f)]
  BY DEF Becomes
<1> HIDE DEF g
<1>4. /\ Append(g, f) \in Seq(PassFrame) /\ Len(Append(g, f)) = Len(q)
      /\ Append(g, f)[Len(q)] = f
      /\ \A k \in 1..(Len(q) - 1) : Append(g, f)[k] = g[k]
  BY <1>1, <1>2
<1> QED
  BY <1>2, <1>3, <1>4 DEF SignalShape

\* A pass begins in an interp, and one ends.
LEMMA PassPushed ==
  ASSUME SignalShape, NEW i \in Interps, NEW f \in PassFrame,
         passes' = [passes EXCEPT ![i] = Append(@, f)]
  PROVE  /\ passes' \in [Interps -> Seq(PassFrame)]
         /\ \A j \in Interps : j # i => passes'[j] = passes[j]
         /\ Len(passes'[i]) = Len(passes[i]) + 1
         /\ \A k \in 1..Len(passes[i]) : passes'[i][k] = passes[i][k]
         /\ passes'[i][Len(passes[i]) + 1] = f
  BY DEF SignalShape

LEMMA PassPopped ==
  ASSUME SignalShape, NEW i \in Interps, passes[i] # <<>>,
         passes' = [passes EXCEPT ![i] = Front(@)]
  PROVE  /\ passes' \in [Interps -> Seq(PassFrame)]
         /\ \A j \in Interps : j # i => passes'[j] = passes[j]
         /\ Len(passes'[i]) = Len(passes[i]) - 1
         /\ \A k \in 1..(Len(passes[i]) - 1) : passes'[i][k] = passes[i][k]
<1> DEFINE g == Front(passes[i])
<1>1. passes[i] \in Seq(PassFrame)
  BY TopOf
<1>2. /\ g \in Seq(PassFrame) /\ Len(g) = Len(passes[i]) - 1
      /\ \A k \in 1..(Len(passes[i]) - 1) : g[k] = passes[i][k]
  BY <1>1, FrontOf
<1>3. passes' = [passes EXCEPT ![i] = g]
  OBVIOUS
<1> HIDE DEF g
<1> QED
  BY <1>2, <1>3 DEF SignalShape

-----------------------------------------------------------------------------
(* Dispositions.                                                           *)

\* Whichever signals become which action, the books on them stay true.
LEMMA BecomeTrue ==
  ASSUME Dispositions, TypeOK, NEW S, NEW action \in {"default", "handle", "ignore"}, NEW to,
         Become(S, action, to), UNCHANGED original,
         action = "handle" => \A s \in Sigs : to[s] = "handler",
         action = "ignore" => \A s \in Sigs : to[s] = "ignorer",
         action = "default" => \A s \in Sigs : to[s] = sa_old[s]
  PROVE  Dispositions' /\ signal_handling' \in [Sigs -> {"default", "handle", "ignore"}]
<1> DEFINE C == {s \in S : signal_handling[s] # action}
<1>1. /\ disposition' = [s \in Sigs |-> IF s \in C \ Uncaught THEN to[s] ELSE disposition[s]]
      /\ sa_old' = IF action = "default" THEN sa_old ELSE Saved(C)
      /\ signal_handling' = [s \in Sigs |-> IF s \in S THEN action ELSE signal_handling[s]]
  BY DEF Become, Sigaction
<1>2. Saved(C) = [s \in Sigs |-> IF s \in C \ Uncaught /\ signal_handling[s] = "default"
                                THEN disposition[s] ELSE sa_old[s]]
  BY DEF Saved
<1>3. signal_handling' \in [Sigs -> {"default", "handle", "ignore"}]
  BY <1>1 DEF TypeOK
<1>4. ASSUME NEW s \in Sigs \ Uncaught
      PROVE  /\ signal_handling'[s] # "default" => sa_old'[s] = original[s]
             /\ disposition'[s] = CASE signal_handling'[s] = "handle" -> "handler"
                                    [] signal_handling'[s] = "ignore" -> "ignorer"
                                    [] signal_handling'[s] = "default" -> original[s]
  <2>1. /\ signal_handling[s] # "default" => sa_old[s] = original[s]
        /\ signal_handling[s] \in {"default", "handle", "ignore"}
        /\ signal_handling[s] = "handle" => disposition[s] = "handler"
        /\ signal_handling[s] = "ignore" => disposition[s] = "ignorer"
        /\ signal_handling[s] = "default" => disposition[s] = original[s]
    BY DEF Dispositions, OriginalKept, DispositionsTrue, TypeOK
  <2>2. CASE s \in C
    <3>1. /\ disposition'[s] = to[s] /\ signal_handling'[s] = action
          /\ action # "default" => sa_old'[s] =
               IF signal_handling[s] = "default" THEN disposition[s] ELSE sa_old[s]
          /\ signal_handling[s] # action
      BY <2>2, <1>1, <1>2
    <3>2. CASE action = "default"
      BY <3>1, <3>2, <2>1
    <3>3. CASE action = "handle"
      BY <3>1, <3>3, <2>1
    <3>4. CASE action = "ignore"
      BY <3>1, <3>4, <2>1
    <3> QED
      BY <3>2, <3>3, <3>4
  <2>3. CASE s \notin C
    <3>1. /\ disposition'[s] = disposition[s] /\ signal_handling'[s] = signal_handling[s]
          /\ sa_old'[s] = sa_old[s]
      BY <2>3, <1>1, <1>2
    <3> QED
      BY <3>1, <2>1
  <2> QED
    BY <2>2, <2>3
<1>5. DispositionsTrue'
  BY <1>4 DEF DispositionsTrue
<1>6. OriginalKept'
  BY <1>4 DEF OriginalKept
<1> QED
  BY <1>3, <1>5, <1>6 DEF Dispositions

LEMMA NextDispositions ==
  ASSUME Dispositions, TypeOK, [Next]_vars
  PROVE  Dispositions' /\ signal_handling' \in [Sigs -> {"default", "handle", "ignore"}]
<1>1. CASE UNCHANGED hostVars
  BY <1>1 DEF hostVars, Dispositions, DispositionsTrue, OriginalKept, TypeOK
<1>2. ASSUME NEW i, NEW list, NEW action \in {"handle", "ignore", "default"},
             SignalSub(i, list, action)
      PROVE  Dispositions' /\ signal_handling' \in [Sigs -> {"default", "handle", "ignore"}]
  <2> DEFINE to == [s \in Sigs |-> CASE action = "handle" -> "handler"
                                     [] action = "ignore" -> "ignorer"
                                     [] action = "default" -> sa_old[s]]
  <2>1. Become(Known(list), action, to) /\ UNCHANGED original
    BY <1>2 DEF SignalSub
  <2>2. /\ action = "handle" => \A s \in Sigs : to[s] = "handler"
        /\ action = "ignore" => \A s \in Sigs : to[s] = "ignorer"
        /\ action = "default" => \A s \in Sigs : to[s] = sa_old[s]
    OBVIOUS
  <2> HIDE DEF to
  <2> QED
    BY <2>1, <2>2, BecomeTrue
<1>3. ASSUME NEW i, NEW s, SignalCallback(i, s)
      PROVE  Dispositions' /\ signal_handling' \in [Sigs -> {"default", "handle", "ignore"}]
  <2> DEFINE to == [t \in Sigs |-> "handler"]
  <2>1. Become({s}, "handle", to) /\ UNCHANGED original
    BY <1>3 DEF SignalCallback
  <2>2. \A t \in Sigs : to[t] = "handler"
    OBVIOUS
  <2> HIDE DEF to
  <2> QED
    BY <2>1, <2>2, BecomeTrue
<1> QED
  BY <1>1, <1>2, <1>3 DEF Next, vars, SignalAlarm, PassBegins, SignalIsSet, ClearLoads,
     ClearStores, CallbackReturns, PassEnds, InterpFree, Signal, AlarmRings

-----------------------------------------------------------------------------
(* The mask, the passes, and the callbacks that are due.                   *)

LEMMA EventOf ==
  ASSUME SignalShape, NEW n \in DOMAIN eventTbl
  PROVE  /\ eventTbl[n].sig \in Sigs /\ eventTbl[n].interp \in Interps
         /\ before[n].runs \in Nat /\ before[n].sent \in Nat
<1> DEFINE E == [interp : Interps, sig : Sigs]
           B == [sent : Nat, runs : Nat, bit : BOOLEAN]
<1>1. eventTbl \in Seq(E) /\ before \in Seq(B) /\ Len(before) = Len(eventTbl)
  BY DEF SignalShape
<1> HIDE DEF E, B
<1>2. eventTbl[n] \in E
  BY <1>1
<1>3. before[n] \in B
  BY <1>1
<1> QED
  BY <1>2, <1>3 DEF E, B

\* The innermost pass of an interp goes on to f.
LEMMA PassGoesOn ==
  ASSUME SignalShape, PassesSound, LoadedSet, NEW i \in Interps, passes[i] # <<>>,
         NEW f \in PassFrame, Becomes(i, f), UNCHANGED eventTbl,
         "torn" \notin slips' => "torn" \notin slips,
         f.at \in {"load", "store"} => f.ev \in DOMAIN eventTbl,
         f.at = "store" /\ "torn" \notin slips' => eventTbl[f.ev].sig \in f.mask
  PROVE  /\ passes' \in [Interps -> Seq(PassFrame)]
         /\ PassesSound' /\ LoadedSet'
<1> DEFINE n == Len(passes[i])
<1>1. /\ passes' \in [Interps -> Seq(PassFrame)]
      /\ \A j \in Interps : j # i => passes'[j] = passes[j]
      /\ Len(passes'[i]) = n
      /\ \A k \in 1..(n - 1) : passes'[i][k] = passes[i][k]
      /\ passes'[i][n] = f
  BY Replaced
<1>2. n \in Nat \ {0} /\ \A k \in 1..n : k = n \/ (k \in 1..(n - 1) /\ k < n)
  BY TopOf
<1> HIDE DEF n
<1>n. n = Len(passes[i])
  BY DEF n
<1>3. ASSUME NEW j \in Interps, NEW k \in 1..Len(passes'[j])
      PROVE  /\ k < Len(passes'[j]) => passes'[j][k].at = "run"
             /\ passes'[j][k].at \in {"load", "store"} => passes'[j][k].ev \in DOMAIN eventTbl
             /\ passes'[j][k].at = "store" /\ "torn" \notin slips' =>
                  eventTbl[passes'[j][k].ev].sig \in passes'[j][k].mask
  <2>1. CASE j # i
    BY <2>1, <1>1, <1>3 DEF PassesSound, LoadedSet
  <2>2. CASE j = i /\ k = n
    BY <2>2, <1>1, <1>2
  <2>3. CASE j = i /\ k # n
    BY <2>3, <1>1, <1>2, <1>3, <1>n DEF PassesSound, LoadedSet
  <2> QED
    BY <2>1, <2>2, <2>3
<1>4. PassesSound'
  BY <1>3 DEF PassesSound
<1>5. LoadedSet'
  BY <1>3 DEF LoadedSet
<1> QED
  BY <1>1, <1>4, <1>5

\* Nothing that counts has changed.
LEMMA AccountsKept ==
  ASSUME NoSignalLost, BitsCovered, UNCHANGED <<sigmask, eventTbl, auxVars, owed>>,
         "torn" \notin slips' => "torn" \notin slips
  PROVE  NoSignalLost' /\ BitsCovered'
<1>1. UNCHANGED <<sent, runs, before>>
  BY DEF auxVars
<1> QED
  BY <1>1 DEF NoSignalLost, BitsCovered, Bit

PassSound == SignalsTyped /\ Accounts /\ MaskThere

LEMMA CommandsSound ==
  ASSUME PassSound, signal_handling' \in [Sigs -> {"default", "handle", "ignore"}],
         ops < MaxOps, ops' = ops + 1, MaxOps \in Nat,
         UNCHANGED <<alive, sigmask, eventTbl, passes, auxVars, owed, fault, slips>>
  PROVE  PassSound'
<1>1. UNCHANGED <<sent, runs, before>>
  BY DEF auxVars
<1>2. NoSignalLost' /\ BitsCovered'
  BY AccountsKept DEF PassSound, Accounts
<1>3. TypeOK'
  BY DEF PassSound, SignalsTyped, TypeOK
<1>4. SignalShape' /\ PassesSound' /\ LoadedSet' /\ MaskThere'
  BY <1>1 DEF PassSound, SignalsTyped, Accounts, SignalShape, PassesSound, LoadedSet, MaskThere
<1> QED
  BY <1>2, <1>3, <1>4 DEF PassSound, SignalsTyped, Accounts

LEMMA CallbackSound ==
  ASSUME PassSound, signal_handling' \in [Sigs -> {"default", "handle", "ignore"}],
         MaxOps \in Nat, NEW i \in Interps, NEW s \in Sigs, SignalCallback(i, s)
  PROVE  PassSound'
<1> USE DEF PassSound, SignalsTyped, Accounts
<1> DEFINE e == [interp |-> i, sig |-> s]
           b == [sent |-> sent[s], runs |-> runs[s], bit |-> s \in sigmask]
           m == Len(eventTbl)
<1>1. /\ eventTbl' = Append(eventTbl, e) /\ before' = Append(before, b)
      /\ ops < MaxOps /\ ops' = ops + 1
      /\ UNCHANGED <<alive, sigmask, passes, sent, runs, owed, fault, slips>>
  BY DEF SignalCallback, Scripting
<1>2. /\ e \in [interp : Interps, sig : Sigs]
      /\ b \in [sent : Nat, runs : Nat, bit : BOOLEAN]
  BY DEF SignalShape
<1>e. e.sig = s /\ b.sent = sent[s] /\ b.runs = runs[s] /\ b.bit = (s \in sigmask)
  OBVIOUS
<1> HIDE DEF e, b
<1>3. /\ eventTbl \in Seq([interp : Interps, sig : Sigs]) /\ m \in Nat
      /\ before \in Seq([sent : Nat, runs : Nat, bit : BOOLEAN]) /\ Len(before) = m
  BY DEF SignalShape
<1>4. /\ eventTbl' \in Seq([interp : Interps, sig : Sigs]) /\ Len(eventTbl') = m + 1
      /\ before' \in Seq([sent : Nat, runs : Nat, bit : BOOLEAN]) /\ Len(before') = m + 1
      /\ \A n \in 1..m : eventTbl'[n] = eventTbl[n] /\ before'[n] = before[n]
      /\ eventTbl'[m + 1] = e /\ before'[m + 1] = b
  BY <1>1, <1>2, <1>3
<1>5. /\ DOMAIN eventTbl = 1..m /\ DOMAIN eventTbl' = 1..(m + 1)
      /\ \A n \in 1..(m + 1) : n = m + 1 \/ n \in 1..m
      /\ 1..m \subseteq 1..(m + 1)
  BY <1>3, <1>4
<1>6. TypeOK' /\ SignalShape'
  BY <1>1, <1>4 DEF TypeOK, SignalShape
<1>7. PassesSound' /\ LoadedSet'
  BY <1>1, <1>4, <1>5 DEF PassesSound, LoadedSet
<1>8. BitsCovered'
  <2>1. ASSUME "torn" \notin slips
        PROVE  /\ \A t \in Sigs : runs[t] + Bit(t) <= sent[t]
               /\ \A n \in DOMAIN eventTbl' :
                    LET t == eventTbl'[n].sig IN
                    runs[t] + Bit(t) - before'[n].runs <=
                      sent[t] - before'[n].sent + (IF before'[n].bit THEN 1 ELSE 0)
    <3>1. runs[s] + Bit(s) - b.runs <= sent[s] - b.sent + (IF b.bit THEN 1 ELSE 0)
      <4>1. runs[s] \in Nat /\ sent[s] \in Nat
        BY DEF SignalShape
      <4>2. Bit(s) = IF b.bit THEN 1 ELSE 0
        BY <1>e DEF Bit
      <4> QED
        BY <4>1, <4>2, <1>e
    <3> QED
      BY <2>1, <3>1, <1>4, <1>5, <1>e DEF BitsCovered
  <2> QED
    BY <2>1, <1>1 DEF BitsCovered, Bit
<1> QED
  BY <1>1, <1>6, <1>7, <1>8 DEF NoSignalLost, MaskThere

\* A signal sets its bit, which becomes due.
LEMMA CaughtSound ==
  ASSUME PassSound, NEW s \in Sigs, Caught(s),
         UNCHANGED <<alive, signal_handling, eventTbl, passes, runs, before, ops>>
  PROVE  PassSound'
<1> USE DEF PassSound, SignalsTyped, Accounts
<1>1. sent' = [sent EXCEPT ![s] = @ + 1] /\ sent' \in [Sigs -> Nat]
      /\ sent'[s] = sent[s] + 1 /\ \A t \in Sigs : t # s => sent'[t] = sent[t]
  <2>1. sent' = [sent EXCEPT ![s] = @ + 1] /\ sent \in [Sigs -> Nat]
    BY DEF Caught, SignalShape
  <2> QED
    BY <2>1
<1>2. \/ /\ sigmask' = sigmask \cup {s} /\ owed' = owed \cup {s}
         /\ UNCHANGED <<fault, slips>>
      \/ /\ slips' = slips \cup {"deleted"} /\ UNCHANGED <<sigmask, owed>>
  BY DEF Caught
<1>3. "torn" \notin slips' => "torn" \notin slips
  BY <1>2
<1>4. TypeOK' /\ SignalShape' /\ PassesSound' /\ LoadedSet'
  BY <1>1, <1>2, <1>3 DEF TypeOK, SignalShape, PassesSound, LoadedSet
<1>5. NoSignalLost' /\ MaskThere'
  BY <1>2, <1>3 DEF NoSignalLost, MaskThere
<1>6. BitsCovered'
  <2> DEFINE B(t) == IF t \in sigmask' THEN 1 ELSE 0
  <2>1. SUFFICES ASSUME "torn" \notin slips
        PROVE  /\ \A t \in Sigs : runs[t] + B(t) <= sent'[t]
               /\ \A n \in DOMAIN eventTbl :
                    runs[eventTbl[n].sig] + B(eventTbl[n].sig) - before[n].runs <=
                      sent'[eventTbl[n].sig] - before[n].sent
                        + (IF before[n].bit THEN 1 ELSE 0)
    BY <1>3 DEF BitsCovered, Bit
  <2>2. \A t \in Sigs : /\ runs[t] \in Nat /\ sent[t] \in Nat /\ sent'[t] \in Nat
                        /\ Bit(t) \in {0, 1} /\ B(t) \in {0, 1}
                        /\ B(t) - Bit(t) <= sent'[t] - sent[t]
    <3>1. \A t \in Sigs : /\ runs[t] \in Nat /\ sent[t] \in Nat /\ sent'[t] \in Nat
                          /\ Bit(t) \in {0, 1} /\ B(t) \in {0, 1}
                          /\ t # s => B(t) = Bit(t)
      BY <1>1, <1>2 DEF SignalShape, Bit
    <3> HIDE DEF B
    <3> QED
      BY <3>1, <1>1
  <2> HIDE DEF B
  <2>3. \A t \in Sigs : runs[t] + B(t) <= sent'[t]
    BY <2>1, <2>2 DEF BitsCovered
  <2>4. ASSUME NEW n \in DOMAIN eventTbl, NEW t \in Sigs, t = eventTbl[n].sig
        PROVE  runs[t] + B(t) - before[n].runs <=
                 sent'[t] - before[n].sent + (IF before[n].bit THEN 1 ELSE 0)
    <3>1. /\ runs[t] + Bit(t) - before[n].runs <=
              sent[t] - before[n].sent + (IF before[n].bit THEN 1 ELSE 0)
          /\ before[n].runs \in Nat /\ before[n].sent \in Nat
      BY <2>1, <2>4, EventOf DEF BitsCovered
    <3> QED
      BY <3>1, <2>2
  <2>5. \A n \in DOMAIN eventTbl : eventTbl[n].sig \in Sigs
    BY EventOf
  <2> QED
    BY <2>3, <2>4, <2>5
<1> QED
  BY <1>4, <1>5, <1>6

LEMMA SignalIsSetSound ==
  ASSUME PassSound, NEW i \in Interps, NEW n \in DOMAIN eventTbl, SignalIsSet(i, n),
         UNCHANGED signal_handling
  PROVE  PassSound'
<1> USE DEF PassSound, SignalsTyped, Accounts
<1> DEFINE f == [Top(i) EXCEPT !.todo = @ \ {n}, !.ev = n,
                   !.at = IF eventTbl[n].sig \in sigmask THEN "load" ELSE "scan"]
<1>1. /\ passes[i] # <<>>
      /\ UNCHANGED <<alive, sigmask, eventTbl, auxVars, owed, ops>>
      /\ \/ /\ Becomes(i, f) /\ UNCHANGED <<fault, slips>>
         \/ /\ fault' = "freed mask" /\ slips' = slips \cup {"deleted"} /\ UNCHANGED passes
  BY DEF SignalIsSet, Passing
<1>2. f \in PassFrame /\ f.ev = n /\ f.at # "store"
  <2>1. Top(i) \in PassFrame
    BY <1>1, TopOf
  <2>2. n \in Nat
    BY DEF SignalShape
  <2> QED
    BY <2>1, <2>2 DEF PassFrame
<1> HIDE DEF f
<1>3. UNCHANGED <<sent, runs, before>>
  BY <1>1 DEF auxVars
<1>4. "torn" \notin slips' => "torn" \notin slips
  BY <1>1
<1>5. NoSignalLost' /\ BitsCovered'
  BY <1>1, <1>4, AccountsKept
<1>6. passes' \in [Interps -> Seq(PassFrame)] /\ PassesSound' /\ LoadedSet'
  <2>1. CASE Becomes(i, f) /\ UNCHANGED <<fault, slips>>
    BY <2>1, <1>1, <1>2, <1>4, PassGoesOn
  <2>2. CASE UNCHANGED passes
    BY <2>2, <1>1, <1>4 DEF SignalShape, PassesSound, LoadedSet
  <2> QED
    BY <2>1, <2>2, <1>1
<1>7. TypeOK' /\ MaskThere'
  BY <1>1 DEF TypeOK, MaskThere
<1> QED
  BY <1>1, <1>3, <1>5, <1>6, <1>7 DEF SignalShape

LEMMA ClearLoadsSound ==
  ASSUME PassSound, NEW i \in Interps, ClearLoads(i), UNCHANGED signal_handling
  PROVE  PassSound'
<1> USE DEF PassSound, SignalsTyped, Accounts
<1> DEFINE f == [Top(i) EXCEPT !.at = "store", !.mask = sigmask]
<1>1. /\ passes[i] # <<>> /\ Top(i).at = "load" /\ Becomes(i, f)
      /\ slips' = IF eventTbl[Top(i).ev].sig \in sigmask THEN slips ELSE slips \cup {"torn"}
      /\ UNCHANGED <<alive, sigmask, eventTbl, auxVars, owed, fault, ops>>
  BY DEF ClearLoads, Passing
<1>2. f \in PassFrame /\ f.ev = Top(i).ev /\ f.at = "store" /\ f.mask = sigmask
  BY <1>1, TopOf DEF PassFrame, TypeOK
<1>3. f.ev \in DOMAIN eventTbl
  <2>1. Len(passes[i]) \in 1..Len(passes[i])
    BY <1>1, TopOf
  <2> QED
    BY <2>1, <1>1, <1>2, TopOf DEF PassesSound
<1> HIDE DEF f
<1>4. "torn" \notin slips' => "torn" \notin slips /\ eventTbl[f.ev].sig \in f.mask
  BY <1>1, <1>2
<1>5. NoSignalLost' /\ BitsCovered'
  BY <1>1, <1>4, AccountsKept
<1>6. passes' \in [Interps -> Seq(PassFrame)] /\ PassesSound' /\ LoadedSet'
  BY <1>1, <1>2, <1>3, <1>4, PassGoesOn
<1>7. TypeOK' /\ MaskThere'
  BY <1>1 DEF TypeOK, MaskThere
<1>8. UNCHANGED <<sent, runs, before>>
  BY <1>1 DEF auxVars
<1> QED
  BY <1>1, <1>5, <1>6, <1>7, <1>8 DEF SignalShape

\* The bit is cleared and the callback runs: the bit that was counted pays for it.
LEMMA ClearStoresSound ==
  ASSUME PassSound, NEW i \in Interps, ClearStores(i), UNCHANGED signal_handling
  PROVE  PassSound'
<1> USE DEF PassSound, SignalsTyped, Accounts
<1> DEFINE f == [Top(i) EXCEPT !.at = "run", !.mask = {}]
<1>0. SUFFICES ASSUME NEW s, s = eventTbl[Top(i).ev].sig PROVE PassSound'
  OBVIOUS
<1>1. /\ passes[i] # <<>> /\ Top(i).at = "store" /\ Becomes(i, f)
      /\ sigmask' = Top(i).mask \ {s}
      /\ slips' = IF sigmask = Top(i).mask THEN slips ELSE slips \cup {"torn"}
      /\ runs' = [runs EXCEPT ![s] = @ + 1]
      /\ owed' = owed \ {s}
      /\ UNCHANGED <<alive, eventTbl, sent, before, fault, ops>>
  BY <1>0 DEF ClearStores, Passing, Cleared
<1>2. /\ f \in PassFrame /\ f.at = "run" /\ Top(i).mask \subseteq Sigs
  BY <1>1, TopOf DEF PassFrame
<1> HIDE DEF f
<1>3. /\ Top(i).ev \in DOMAIN eventTbl /\ s \in Sigs
      /\ "torn" \notin slips => s \in Top(i).mask
  <2>1. Len(passes[i]) \in 1..Len(passes[i]) /\ Top(i) = passes[i][Len(passes[i])]
    BY <1>1, TopOf
  <2>2. Top(i).ev \in DOMAIN eventTbl
    BY <2>1, <1>1 DEF PassesSound
  <2>3. "torn" \notin slips => s \in Top(i).mask
    BY <2>1, <1>0, <1>1 DEF LoadedSet
  <2> QED
    BY <2>2, <2>3, <1>0, EventOf
<1>4. "torn" \notin slips' => "torn" \notin slips /\ sigmask = Top(i).mask
  BY <1>1
<1>5. passes' \in [Interps -> Seq(PassFrame)] /\ PassesSound' /\ LoadedSet'
  BY <1>1, <1>2, <1>4, PassGoesOn
<1>6. TypeOK' /\ MaskThere'
  BY <1>1, <1>2 DEF TypeOK, MaskThere
<1>7. /\ runs' \in [Sigs -> Nat] /\ runs'[s] = runs[s] + 1
      /\ \A t \in Sigs : t # s => runs'[t] = runs[t]
  <2>1. runs \in [Sigs -> Nat] /\ s \in Sigs
    BY <1>3 DEF SignalShape
  <2>2. runs' = [runs EXCEPT ![s] = @ + 1]
    BY <1>1
  <2> QED
    BY <2>1, <2>2
<1>8. SignalShape'
  BY <1>1, <1>5, <1>7 DEF SignalShape
<1>9. NoSignalLost'
  BY <1>1, <1>4 DEF NoSignalLost
<1>10. BitsCovered'
  <2> DEFINE B(t) == IF t \in sigmask' THEN 1 ELSE 0
  <2>1. SUFFICES ASSUME "torn" \notin slips, sigmask = Top(i).mask
        PROVE  /\ \A t \in Sigs : runs'[t] + B(t) <= sent[t]
               /\ \A n \in DOMAIN eventTbl :
                    runs'[eventTbl[n].sig] + B(eventTbl[n].sig) - before[n].runs <=
                      sent[eventTbl[n].sig] - before[n].sent
                        + (IF before[n].bit THEN 1 ELSE 0)
    BY <1>1, <1>4 DEF BitsCovered, Bit
  <2>2. \A t \in Sigs : /\ runs[t] \in Nat /\ runs'[t] \in Nat /\ sent[t] \in Nat
                        /\ Bit(t) \in {0, 1} /\ B(t) \in {0, 1}
                        /\ runs'[t] + B(t) = runs[t] + Bit(t)
    <3>1. Bit(s) = 1 /\ B(s) = 0
      <4>1. s \in sigmask
        BY <2>1, <1>3
      <4>2. s \notin sigmask'
        BY <1>1
      <4> QED
        BY <4>1, <4>2 DEF Bit
    <3>2. \A t \in Sigs : t # s => B(t) = Bit(t)
      BY <2>1, <1>1 DEF Bit
    <3>3. \A t \in Sigs : /\ runs[t] \in Nat /\ runs'[t] \in Nat /\ sent[t] \in Nat
                          /\ Bit(t) \in {0, 1} /\ B(t) \in {0, 1}
      BY <1>7 DEF SignalShape, Bit
    <3> HIDE DEF B
    <3> QED
      BY <3>1, <3>2, <3>3, <1>7
  <2> HIDE DEF B
  <2>3. \A t \in Sigs : runs'[t] + B(t) <= sent[t]
    BY <2>1, <2>2 DEF BitsCovered
  <2>4. ASSUME NEW n \in DOMAIN eventTbl, NEW t \in Sigs, t = eventTbl[n].sig
        PROVE  runs'[t] + B(t) - before[n].runs <=
                 sent[t] - before[n].sent + (IF before[n].bit THEN 1 ELSE 0)
    <3>1. /\ runs[t] + Bit(t) - before[n].runs <=
              sent[t] - before[n].sent + (IF before[n].bit THEN 1 ELSE 0)
          /\ before[n].runs \in Nat /\ before[n].sent \in Nat
      BY <2>1, <2>4, EventOf DEF BitsCovered
    <3> QED
      BY <3>1, <2>2
  <2>5. \A n \in DOMAIN eventTbl : eventTbl[n].sig \in Sigs
    BY EventOf
  <2> QED
    BY <2>3, <2>4, <2>5
<1> QED
  BY <1>5, <1>6, <1>8, <1>9, <1>10

LEMMA CallbackReturnsSound ==
  ASSUME PassSound, NEW i \in Interps, CallbackReturns(i), UNCHANGED signal_handling
  PROVE  PassSound'
<1> USE DEF PassSound, SignalsTyped, Accounts
<1> DEFINE f == Scan(Top(i).todo)
<1>1. /\ passes[i] # <<>> /\ Becomes(i, f)
      /\ UNCHANGED <<alive, sigmask, eventTbl, auxVars, owed, fault, slips, ops>>
  BY DEF CallbackReturns, Passing
<1>2. f \in PassFrame /\ f.at = "scan"
  BY <1>1, TopOf DEF PassFrame, Scan
<1> HIDE DEF f
<1>3. passes' \in [Interps -> Seq(PassFrame)] /\ PassesSound' /\ LoadedSet'
  BY <1>1, <1>2, PassGoesOn
<1>4. NoSignalLost' /\ BitsCovered'
  BY <1>1, AccountsKept
<1>5. UNCHANGED <<sent, runs, before>>
  BY <1>1 DEF auxVars
<1> QED
  BY <1>1, <1>3, <1>4, <1>5 DEF SignalShape, TypeOK, MaskThere

LEMMA PassBeginsSound ==
  ASSUME PassSound, MaxOps \in Nat, NEW i \in Interps, PassBegins(i), UNCHANGED signal_handling
  PROVE  PassSound'
<1> USE DEF PassSound, SignalsTyped, Accounts
<1> DEFINE f == Scan({n \in DOMAIN eventTbl : eventTbl[n].interp = i})
           m == Len(passes[i])
<1>1. /\ passes' = [passes EXCEPT ![i] = Append(@, f)]
      /\ passes[i] # <<>> => Top(i).at = "run"
      /\ ops < MaxOps /\ ops' = ops + 1
      /\ UNCHANGED <<alive, sigmask, eventTbl, auxVars, owed, fault, slips>>
  BY DEF PassBegins, Scripting
<1>2. f \in PassFrame /\ f.at = "scan"
  <2>1. DOMAIN eventTbl \subseteq Nat
    BY DEF SignalShape
  <2> QED
    BY <2>1 DEF PassFrame, Scan
<1> HIDE DEF f
<1>3. /\ passes' \in [Interps -> Seq(PassFrame)]
      /\ \A j \in Interps : j # i => passes'[j] = passes[j]
      /\ Len(passes'[i]) = m + 1
      /\ \A k \in 1..m : passes'[i][k] = passes[i][k]
      /\ passes'[i][m + 1] = f
  BY <1>1, <1>2, PassPushed
<1>4. m \in Nat /\ (m > 0 => passes[i][m].at = "run")
  <2>1. passes[i] \in Seq(PassFrame)
    BY DEF SignalShape
  <2>2. CASE passes[i] = <<>>
    BY <2>2
  <2>3. CASE passes[i] # <<>>
    BY <2>3, <1>1, TopOf
  <2> QED
    BY <2>2, <2>3
<1> HIDE DEF m
<1>m. m = Len(passes[i])
  BY DEF m
<1>5. ASSUME NEW j \in Interps, NEW k \in 1..Len(passes'[j])
      PROVE  /\ k < Len(passes'[j]) => passes'[j][k].at = "run"
             /\ passes'[j][k].at \in {"load", "store"} => passes'[j][k].ev \in DOMAIN eventTbl
             /\ passes'[j][k].at = "store" /\ "torn" \notin slips =>
                  eventTbl[passes'[j][k].ev].sig \in passes'[j][k].mask
  <2>1. CASE j # i
    BY <2>1, <1>3, <1>5 DEF PassesSound, LoadedSet
  <2>2. CASE j = i /\ k = m + 1
    BY <2>2, <1>2, <1>3, <1>4
  <2>3. CASE j = i /\ k # m + 1
    <3>1. k \in 1..m /\ (k = m \/ k < m)
      BY <2>3, <1>3, <1>4, <1>5
    <3>2. passes'[j][k] = passes[i][k] /\ passes[i][k].at = "run"
      BY <3>1, <2>3, <1>3, <1>4, <1>m DEF PassesSound
    <3> QED
      BY <3>2
  <2> QED
    BY <2>1, <2>2, <2>3
<1>6. PassesSound' /\ LoadedSet'
  BY <1>1, <1>5 DEF PassesSound, LoadedSet
<1>7. NoSignalLost' /\ BitsCovered'
  BY <1>1, AccountsKept
<1>8. UNCHANGED <<sent, runs, before>>
  BY <1>1 DEF auxVars
<1>9. TypeOK'
  BY <1>1 DEF TypeOK
<1> QED
  BY <1>1, <1>3, <1>6, <1>7, <1>8, <1>9 DEF SignalShape, MaskThere

LEMMA PassEndsSound ==
  ASSUME PassSound, NEW i \in Interps, PassEnds(i), UNCHANGED signal_handling
  PROVE  PassSound'
<1> USE DEF PassSound, SignalsTyped, Accounts
<1> DEFINE m == Len(passes[i])
<1>1. /\ passes[i] # <<>> /\ passes' = [passes EXCEPT ![i] = Front(@)]
      /\ UNCHANGED <<alive, sigmask, eventTbl, auxVars, owed, fault, slips, ops>>
  BY DEF PassEnds, Passing
<1>2. /\ passes' \in [Interps -> Seq(PassFrame)]
      /\ \A j \in Interps : j # i => passes'[j] = passes[j]
      /\ Len(passes'[i]) = m - 1
      /\ \A k \in 1..(m - 1) : passes'[i][k] = passes[i][k]
  BY <1>1, PassPopped
<1>3. m \in Nat \ {0} /\ \A k \in 1..(m - 1) : k \in 1..m /\ k < m
  BY <1>1, TopOf
<1>4. PassesSound' /\ LoadedSet'
  <2> HIDE DEF m
  <2>m. m = Len(passes[i])
    BY DEF m
  <2>1. ASSUME NEW j \in Interps, NEW k \in 1..Len(passes'[j])
        PROVE  /\ k \in 1..Len(passes[j]) /\ passes'[j][k] = passes[j][k]
               /\ k < Len(passes'[j]) => k < Len(passes[j])
    <3>1. CASE j = i
      BY <3>1, <2>1, <1>2, <1>3, <2>m
    <3>2. CASE j # i
      BY <3>2, <2>1, <1>2
    <3> QED
      BY <3>1, <3>2
  <2> QED
    BY <2>1, <1>1 DEF PassesSound, LoadedSet
<1>5. NoSignalLost' /\ BitsCovered'
  BY <1>1, AccountsKept
<1>6. UNCHANGED <<sent, runs, before>>
  BY <1>1 DEF auxVars
<1> QED
  BY <1>1, <1>2, <1>4, <1>5, <1>6 DEF SignalShape, TypeOK, MaskThere

LEMMA SameSound ==
  ASSUME PassSound, signal_handling' \in [Sigs -> {"default", "handle", "ignore"}],
         alive' \subseteq Interps,
         UNCHANGED <<sigmask, eventTbl, passes, auxVars, owed, fault, slips, ops>>
  PROVE  PassSound'
<1> USE DEF PassSound, SignalsTyped, Accounts
<1>1. UNCHANGED <<sent, runs, before>>
  BY DEF auxVars
<1>2. NoSignalLost' /\ BitsCovered'
  BY AccountsKept
<1> QED
  BY <1>1, <1>2 DEF TypeOK, SignalShape, PassesSound, LoadedSet, MaskThere

LEMMA InitiallySignalInv == MaxOps \in Nat /\ Init => SignalInv
<1> SUFFICES ASSUME MaxOps \in Nat, Init PROVE SignalInv
  OBVIOUS
<1>1. /\ sent = [s \in Sigs |-> 0] /\ runs = [s \in Sigs |-> 0]
      /\ passes = [i \in Interps |-> <<>>] /\ eventTbl = <<>> /\ before = <<>>
      /\ sigmask = {} /\ owed = {} /\ fault = "none" /\ slips = {} /\ ops = 0
      /\ alive = Interps /\ signal_handling = [s \in Sigs |-> "default"]
      /\ disposition = original
  BY DEF Init
<1>2. TypeOK
  BY <1>1 DEF TypeOK
<1>3. SignalShape
  BY <1>1 DEF SignalShape
<1>4. PassesSound /\ LoadedSet
  BY <1>1 DEF PassesSound, LoadedSet
<1>5. Dispositions
  BY <1>1 DEF Dispositions, DispositionsTrue, OriginalKept
<1>6. NoSignalLost /\ BitsCovered /\ MaskThere
  BY <1>1 DEF NoSignalLost, BitsCovered, Bit, MaskThere
<1> QED
  BY <1>2, <1>3, <1>4, <1>5, <1>6 DEF SignalInv, SignalsTyped, Accounts

LEMMA NextSignalInv ==
  ASSUME SignalInv, [Next]_vars
  PROVE  SignalInv'
<1>1. /\ Dispositions'
      /\ signal_handling' \in [Sigs -> {"default", "handle", "ignore"}]
  BY NextDispositions DEF SignalInv, SignalsTyped
<1>2. PassSound
  BY DEF PassSound, SignalInv
<1>3. PassSound'
  <2>1. ASSUME NEW i \in Interps, NEW list, NEW action, SignalSub(i, list, action)
        PROVE  PassSound'
    BY <2>1, <1>1, <1>2, CommandsSound DEF SignalSub, Scripting
  <2>2. ASSUME NEW i \in Interps, NEW s \in Sigs, SignalCallback(i, s)
        PROVE  PassSound'
    BY <2>2, <1>1, <1>2, CallbackSound
  <2>3. ASSUME NEW i \in Interps, NEW secs, SignalAlarm(i, secs)
        PROVE  PassSound'
    BY <2>3, <1>1, <1>2, CommandsSound DEF SignalAlarm, Scripting, hostVars
  <2>4. ASSUME NEW i \in Interps,
               PassBegins(i) \/ (\E n \in DOMAIN eventTbl : SignalIsSet(i, n))
                 \/ ClearLoads(i) \/ ClearStores(i) \/ CallbackReturns(i) \/ PassEnds(i)
        PROVE  PassSound'
    <3>1. UNCHANGED signal_handling
      BY <2>4 DEF PassBegins, SignalIsSet, ClearLoads, ClearStores, CallbackReturns,
                  PassEnds, hostVars
    <3> QED
      BY <2>4, <3>1, <1>2, PassBeginsSound, SignalIsSetSound, ClearLoadsSound,
         ClearStoresSound, CallbackReturnsSound, PassEndsSound
  <2>5. ASSUME NEW i \in Interps, InterpFree(i)
        PROVE  PassSound'
    <3>1. /\ alive' = alive \ {i}
          /\ UNCHANGED <<hostVars, sigmask, eventTbl, passes, auxVars, owed, fault, slips, ops>>
      BY <2>5 DEF InterpFree
    <3>2. alive' \subseteq Interps
      BY <3>1, <1>2 DEF PassSound, SignalsTyped, TypeOK
    <3> QED
      BY <3>1, <3>2, <1>1, <1>2, SameSound
  <2>6. ASSUME NEW s \in Sigs, Signal(s)
        PROVE  PassSound'
    BY <2>6, <1>2, CaughtSound DEF Signal, hostVars
  <2>7. CASE AlarmRings
    <3>1. /\ UNCHANGED <<alive, hostVars, eventTbl, passes, runs, before, ops>>
          /\ \/ Caught(Alrm)
             \/ UNCHANGED <<sigmask, sent, owed, fault, slips>>
      BY <2>7 DEF AlarmRings
    <3>2. CASE Caught(Alrm)
      BY <3>1, <3>2, <1>2, CaughtSound DEF hostVars
    <3>3. CASE UNCHANGED <<sigmask, sent, owed, fault, slips>>
      <4>1. alive' \subseteq Interps
        BY <3>1, <1>2 DEF PassSound, SignalsTyped, TypeOK
      <4> QED
        BY <3>1, <3>3, <4>1, <1>1, <1>2, SameSound DEF auxVars
    <3> QED
      BY <3>1, <3>2, <3>3
  <2>8. CASE UNCHANGED vars
    <3>1. alive' \subseteq Interps
      BY <2>8, <1>2 DEF PassSound, SignalsTyped, TypeOK, vars
    <3> QED
      BY <2>8, <3>1, <1>1, <1>2, SameSound DEF vars
  <2> QED
    BY <2>1, <2>2, <2>3, <2>4, <2>5, <2>6, <2>7, <2>8 DEF Next
<1> QED
  BY <1>1, <1>3 DEF SignalInv, PassSound

LEMMA AccountsRuns ==
  ASSUME SignalInv
  PROVE  RunsOwed
<1> USE DEF SignalInv, SignalsTyped, Accounts
<1> SUFFICES ASSUME "torn" \notin slips
             PROVE  /\ \A s \in Sigs : runs[s] <= sent[s]
                    /\ \A n \in DOMAIN eventTbl :
                         runs[eventTbl[n].sig] - before[n].runs <=
                           sent[eventTbl[n].sig] - before[n].sent
                             + (IF before[n].bit THEN 1 ELSE 0)
  BY DEF RunsOwed
<1>1. \A s \in Sigs : runs[s] \in Nat /\ sent[s] \in Nat /\ Bit(s) \in {0, 1}
  BY DEF SignalShape, Bit
<1>2. ASSUME NEW n \in DOMAIN eventTbl, NEW s \in Sigs, s = eventTbl[n].sig
      PROVE  runs[s] - before[n].runs <=
               sent[s] - before[n].sent + (IF before[n].bit THEN 1 ELSE 0)
  <2>1. /\ runs[s] + Bit(s) - before[n].runs <=
            sent[s] - before[n].sent + (IF before[n].bit THEN 1 ELSE 0)
        /\ before[n].runs \in Nat /\ before[n].sent \in Nat
    BY <1>2, EventOf DEF BitsCovered
  <2> QED
    BY <2>1, <1>1
<1>3. \A n \in DOMAIN eventTbl : eventTbl[n].sig \in Sigs
  BY EventOf
<1> QED
  BY <1>1, <1>2, <1>3 DEF BitsCovered

-----------------------------------------------------------------------------
(* The properties.                                                         *)

\* What the code takes dispositions for is what they are; a signal that was caught
\* waits until a callback is due, and callbacks run no more often than signals came,
\* as long as no store of the mask came between a load and a store of it; and no freed
\* mask is used before the primary interp is deleted (jsiSignal.c, Jsi_EventProcess).
THEOREM SignalsAreSound == Spec => []SignalsSound
<1>1. Init => SignalInv
  BY InitiallySignalInv
<1>2. SignalInv /\ [Next]_vars => SignalInv'
  BY NextSignalInv
<1>3. SignalInv => SignalsSound
  BY AccountsRuns DEF SignalInv, SignalsTyped, Dispositions, Accounts, SignalsSound
<1> QED
  BY <1>1, <1>2, <1>3, PTL DEF Spec
=============================================================================
