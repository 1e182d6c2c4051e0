---------------------------- MODULE BrokerProofs ----------------------------
(***************************************************************************)
(* Proofs about Broker, for any number of connections and calls.           *)
(***************************************************************************)
EXTENDS Broker, FiniteSetTheorems, SequenceTheorems, TLAPS

-----------------------------------------------------------------------------
(* The inductive invariant.  PendingIsUnanswered is not inductive alone: a *)
(* registration must find its id unused (Ids), a call that leaves must     *)
(* have been registered under its own id (Issued), and a call that enters  *)
(* must not hold a reply (Fresh).                                          *)

Fresh ==
    \A c \in Calls : pc[c] \in {"idle", "accepted", "connected"} => reqId[c] = 0 /\ reply[c] = NoReply

Issued ==
    \A c \in Calls : pc[c] \notin {"idle", "accepted", "connected", "done"} => reqId[c] # 0

Ids ==
    /\ \A c \in Calls : reqId[c] <= nextId
    /\ \A c, d \in Calls : reqId[c] = reqId[d] /\ reqId[c] # 0 => c = d

ErrorHeld ==
    \A c \in Calls : pc[c] \in {"wrapping", "failing"} => reply[c].kind = "error"

CallInv == Fresh /\ Issued /\ Ids /\ ErrorHeld /\ PendingIsUnanswered

IInv == TypeOK /\ CallInv

-----------------------------------------------------------------------------
\* The table is finite, so its size is a number.
LEMMA PendingSize ==
    ASSUME TypeOK
    PROVE  /\ \A S \in SUBSET Calls : IsFiniteSet(S) /\ Cardinality(S) \in Nat
           /\ Cardinality({}) = 0
  BY FiniteCalls, FS_Subset, FS_CardinalityType, FS_EmptySet

\* Sending on a channel and receiving from it keep a family of channels typed.
LEMMA SendAt ==
    ASSUME NEW S, NEW D, NEW q \in [D -> Seq(S)], NEW d, NEW e \in S
    PROVE  [q EXCEPT ![d] = Append(@, e)] \in [D -> Seq(S)]
<1>1. \A i \in D : Append(q[i], e) \in Seq(S)
  OBVIOUS
<1> QED  BY <1>1

LEMMA TailAt ==
    ASSUME NEW S, NEW D, NEW q \in [D -> Seq(S)], NEW d \in D, q[d] # <<>>
    PROVE  /\ Head(q[d]) \in S
           /\ [q EXCEPT ![d] = Tail(@)] \in [D -> Seq(S)]
<1>1. q[d] \in Seq(S)
  OBVIOUS
<1>2. Head(q[d]) \in S /\ Tail(q[d]) \in Seq(S)
  BY <1>1
<1> QED  BY <1>2

\* Only the plugin's and the daemon's side of a socket touch messages.
LEMMA MessageTypes ==
    ASSUME TypeOK
    PROVE  /\ Plain("hello") \in Message
           /\ Plain("welcome") \in Message
           /\ \A c \in Calls : ToolInvoke(c) \in Message
           /\ \A m \in Message : ToolResult(m) \in Message
  BY DEF TypeOK, Plain, ToolInvoke, ToolResult, Message, MsgTypes

LEMMA TypeInit == Init => TypeOK
<1> SUFFICES ASSUME Init PROVE TypeOK
  OBVIOUS
<1>1. NoReply \in Reply /\ NoAnswer \in Answer
  BY DEF Reply, Answer
<1>2. <<>> \in Seq(Message)
  OBVIOUS
<1>3. pending \subseteq Calls /\ greeted \subseteq Conns /\ helloSent \subseteq Conns
  BY DEF Init
<1> QED  BY <1>1, <1>2, <1>3 DEF Init, TypeOK

\* A step of a plugin or of the network keeps the types.
LEMMA TypePeer ==
    ASSUME TypeOK, NEW x \in Conns, Peer(x)
    PROVE  TypeOK'
<1> USE DEF serverVars, storeVars, callVars, connVars, wireVars
<1>1. CASE PeerConnect(x)
  BY <1>1 DEF PeerConnect, TypeOK
<1>2. CASE PeerHello(x)
  <2>1. toDaemon' \in [Conns -> Seq(Message)]
    BY <1>2, MessageTypes, SendAt DEF PeerHello, TypeOK
  <2>2. /\ helloSent' \subseteq Conns
        /\ UNCHANGED <<serverVars, writeMu, storeVars, callVars, connVars,
                       link, toPeer, executed, phase>>
    BY <1>2 DEF PeerHello, TypeOK
  <2> QED  BY ZenonT(30), <2>1, <2>2 DEF TypeOK
<1>3. CASE PeerRead(x)
  <2> DEFINE m == Head(toPeer[x])
  <2>1. m \in Message /\ toPeer' \in [Conns -> Seq(Message)]
    BY <1>3, TailAt DEF PeerRead, TypeOK
  <2>2. ToolResult(m) \in Message
    BY <2>1, MessageTypes
  <2>3. toDaemon' \in [Conns -> Seq(Message)]
    <3>1. toDaemon \in [Conns -> Seq(Message)]
      BY DEF TypeOK
    <3>2. [toDaemon EXCEPT ![x] = Append(@, ToolResult(m))] \in [Conns -> Seq(Message)]
      BY <2>2, <3>1, SendAt
    <3>3. \/ toDaemon' = [toDaemon EXCEPT ![x] = Append(@, ToolResult(m))]
          \/ toDaemon' = toDaemon
      BY <1>3 DEF PeerRead
    <3> QED  BY <3>1, <3>2, <3>3
  <2>4. executed' \in [Calls -> Nat]
    <3>1. \A c \in Calls : executed[c] \in Nat /\ executed[c] + 1 \in Nat
      BY SMTT(30) DEF TypeOK
    <3> QED  BY <1>3, <3>1 DEF PeerRead, TypeOK
  <2>5. UNCHANGED <<serverVars, writeMu, storeVars, callVars, connVars,
                    link, helloSent, phase>>
    BY <1>3 DEF PeerRead
  <2> QED  BY ZenonT(30), <2>1, <2>3, <2>4, <2>5 DEF TypeOK
<1>4. CASE PeerDrop(x)
  <2>1. <<>> \in Seq(Message)
    OBVIOUS
  <2>2. /\ toPeer' \in [Conns -> Seq(Message)]
        /\ link' \in [Conns -> {"unused", "open", "peerGone", "closed"}]
    BY <1>4, <2>1 DEF PeerDrop, TypeOK
  <2>3. UNCHANGED <<serverVars, writeMu, storeVars, callVars, connVars,
                    toDaemon, helloSent, executed, phase>>
    BY <1>4 DEF PeerDrop
  <2> QED  BY ZenonT(30), <2>2, <2>3 DEF TypeOK
<1> QED  BY <1>1, <1>2, <1>3, <1>4 DEF Peer

\* A step of a handler keeps the types.
LEMMA TypeHandler ==
    ASSUME TypeOK, NEW x \in Conns, Handler(x)
    PROVE  TypeOK'
<1> USE DEF serverVars, storeVars, callVars, connVars, wireVars
<1>1. CASE SetActiveConn(x)
  BY <1>1 DEF SetActiveConn, Closed, TypeOK
<1>2. CASE ReadHello(x)
  <2>1. toDaemon' \in [Conns -> Seq(Message)]
    BY <1>2, TailAt DEF ReadHello, TypeOK
  <2>2. hpc' \in [Conns -> {"off", "upgraded", "reading", "hello", "welcome",
                           "writing", "clear", "clearing", "gone"}]
    BY <1>2 DEF ReadHello, TypeOK
  <2>3. UNCHANGED <<serverVars, writeMu, storeVars, callVars, greeted,
                    link, toPeer, helloSent, executed, phase>>
    BY <1>2 DEF ReadHello
  <2> QED  BY ZenonT(30), <2>1, <2>2, <2>3 DEF TypeOK
<1>3. CASE SetConnected(x)
  BY <1>3 DEF SetConnected, TypeOK
<1>4. CASE ReadResult(x)
  <2> DEFINE m == Head(toDaemon[x])
  <2>1. m \in Message /\ toDaemon' \in [Conns -> Seq(Message)]
    BY <1>4, TailAt DEF ReadResult, TypeOK
  <2>2. [kind |-> "result", id |-> m.id, of |-> m.call] \in Reply
    BY <2>1 DEF Message, Reply
  <2>3. reply' \in [Calls -> Reply]
    BY <1>4, <2>2 DEF ReadResult, TypeOK
  <2>4. RemovePending(m.id)
    BY <1>4 DEF ReadResult
  <2>5. pending' \subseteq Calls /\ pendingRequests' \in Nat
    BY <2>4, PendingSize DEF RemovePending, TypeOK
  <2>6. UNCHANGED <<conn, connMu, nextId, writeMu, pluginConnected, advertiser,
                    pc, cc, reqId, answer, errId, connVars,
                    link, toPeer, helloSent, executed, phase>>
    BY <1>4 DEF ReadResult
  <2> QED  BY ZenonT(30), <2>1, <2>3, <2>5, <2>6 DEF TypeOK
<1>5. CASE ReadError(x)
  <2>1. <<>> \in Seq(Message)
    OBVIOUS
  <2>2. toDaemon' \in [Conns -> Seq(Message)]
    BY <1>5, <2>1 DEF ReadError, TypeOK
  <2>3. hpc' \in [Conns -> {"off", "upgraded", "reading", "hello", "welcome",
                           "writing", "clear", "clearing", "gone"}]
    BY <1>5 DEF ReadError, TypeOK
  <2>4. UNCHANGED <<serverVars, writeMu, storeVars, callVars, greeted,
                    link, toPeer, helloSent, executed, phase>>
    BY <1>5 DEF ReadError
  <2> QED  BY ZenonT(30), <2>2, <2>3, <2>4 DEF TypeOK
<1>6. CASE ClearActiveConn(x)
  BY <1>6 DEF ClearActiveConn, SetDisconnected, TypeOK
<1>7. CASE ClearStaleConn(x)
  BY <1>7 DEF ClearStaleConn, TypeOK
<1>8. CASE FailPending(x)
  <2>1. [kind |-> "error", batch |-> x] \in Reply
    BY DEF Reply
  <2> QED  BY <1>8, <2>1 DEF FailPending, FailAllPending, TypeOK
<1>9. CASE LockForWelcome(x)
  BY <1>9 DEF LockForWelcome, TypeOK
<1>10. CASE WriteWelcome(x)
  <2>1. Sent(x, Plain("welcome")) \in [Conns -> Seq(Message)]
    BY MessageTypes, SendAt DEF Sent, TypeOK
  <2> QED  BY <1>10, <2>1 DEF WriteWelcome, TypeOK
<1> QED  BY <1>1, <1>2, <1>3, <1>4, <1>5, <1>6, <1>7, <1>8, <1>9, <1>10 DEF Handler

\* Leaving InvokeTool early keeps the types of what it changes.
LEMMA TypeGiveUp ==
    ASSUME TypeOK, NEW c \in Calls, NEW code \in Codes, GiveUp(c, code),
           writeMu' \in Conns \cup Calls \cup {None}
    PROVE  TypeOK'
<1> USE DEF serverVars, storeVars, callVars, connVars, wireVars
<1>1. pending' \subseteq Calls /\ pendingRequests' \in Nat
  BY PendingSize DEF GiveUp, RemovePending, TypeOK
<1>2. Fail(code, reqId[c]) \in Answer
  BY DEF Fail, Answer, TypeOK
<1> QED  BY <1>1, <1>2 DEF GiveUp, TypeOK

\* A step of a call keeps the types.
LEMMA TypeInvoke ==
    ASSUME TypeOK, ErrorHeld, NEW c \in Calls,
           Accept(c) \/ Invoke(c) \/ Timeout(c) \/ Cancel(c)
    PROVE  TypeOK'
<1> USE DEF serverVars, storeVars, callVars, connVars, wireVars
<1>0. CASE Accept(c)
  <2>1. pc' \in [Calls -> {"idle", "accepted", "connected", "invalid", "registered",
                          "sending", "waiting", "wrapping", "failing", "done"}]
    BY <1>0 DEF Accept, TypeOK
  <2> QED  BY ZenonT(30), <1>0, <2>1 DEF Accept, TypeOK
<1>1. CASE GetConn(c)
  <2>1. Fail("not_connected", 0) \in Answer
    BY DEF Fail, Answer, Codes
  <2> QED  BY <1>1, <2>1 DEF GetConn, TypeOK
<1>2. CASE Register(c)
  <2>1. pending' \subseteq Calls /\ pendingRequests' \in Nat
    BY <1>2, PendingSize DEF Register, AddPending, TypeOK
  <2>2. nextId' \in Nat
    BY <1>2 DEF Register, TypeOK
  <2>3. reqId' \in [Calls -> Nat]
    BY <1>2, <2>2 DEF Register, TypeOK
  <2>4. pc' \in [Calls -> {"idle", "accepted", "connected", "invalid", "registered",
                          "sending", "waiting", "wrapping", "failing", "done"}]
    BY <1>2 DEF Register, Checked, TypeOK
  <2>5. UNCHANGED <<conn, connMu, writeMu, pluginConnected, advertiser,
                    cc, reply, answer, errId, connVars, wireVars, phase>>
    BY <1>2 DEF Register
  <2> QED  BY ZenonT(30), <2>1, <2>2, <2>3, <2>4, <2>5 DEF TypeOK
<1>3. CASE Reject(c)
  BY <1>3, TypeGiveUp DEF Reject, Codes, TypeOK
<1>4. CASE LockForInvoke(c)
  BY <1>4 DEF LockForInvoke, TypeOK
<1>5. CASE SendInvoke(c)
  <2>1. Sent(cc[c], ToolInvoke(c)) \in [Conns -> Seq(Message)]
    BY MessageTypes, SendAt DEF Sent, TypeOK
  <2> QED  BY <1>5, <2>1 DEF SendInvoke, TypeOK
<1>6. CASE SendFails(c)
  BY <1>6, TypeGiveUp DEF SendFails, Codes, TypeOK
<1>7. CASE Timeout(c)
  BY <1>7, TypeGiveUp DEF Timeout, Codes, TypeOK
<1>8. CASE Cancel(c)
  BY <1>8, TypeGiveUp DEF Cancel, Codes, TypeOK
<1>9. CASE ReceiveResult(c)
  <2>1. reply[c] \in Reply /\ reply[c].kind = "result"
    BY <1>9 DEF ReceiveResult, TypeOK
  <2>2. [code |-> "result", id |-> reply[c].id, of |-> reply[c].of] \in Answer
    BY <2>1 DEF Reply, NoReply, Answer, Codes
  <2>3. answer' \in [Calls -> Answer]
    BY <1>9, <2>2 DEF ReceiveResult, TypeOK
  <2>4. pc' \in [Calls -> {"idle", "accepted", "connected", "invalid", "registered",
                          "sending", "waiting", "wrapping", "failing", "done"}]
    BY <1>9 DEF ReceiveResult, TypeOK
  <2>5. UNCHANGED <<serverVars, writeMu, storeVars, cc, reqId, reply, errId,
                    connVars, wireVars, phase>>
    BY <1>9 DEF ReceiveResult
  <2> QED  BY ZenonT(30), <2>3, <2>4, <2>5 DEF TypeOK
<1>10. CASE ReceiveError(c)
  <2>1. pc' \in [Calls -> {"idle", "accepted", "connected", "invalid", "registered",
                          "sending", "waiting", "wrapping", "failing", "done"}]
    BY <1>10 DEF ReceiveError, TypeOK
  <2>2. UNCHANGED <<serverVars, writeMu, storeVars, cc, reqId, reply, answer,
                    errId, connVars, wireVars, phase>>
    BY <1>10 DEF ReceiveError
  <2> QED  BY SMTT(30), <2>1, <2>2 DEF TypeOK
<1>11. CASE WrapPendingError(c)
  <2>1. pc' = [pc EXCEPT ![c] = "failing"]
    BY <1>11 DEF WrapPendingError
  <2>2. errId' \in [Conns \cup {Daemon} -> Nat]
    BY <1>11 DEF WrapPendingError, TypeOK
  <2>3. UNCHANGED <<serverVars, writeMu, storeVars, cc, reqId, reply, answer,
                    connVars, wireVars, phase>>
    BY <1>11 DEF WrapPendingError
  <2>4. pc' \in [Calls -> {"idle", "accepted", "connected", "invalid", "registered",
                          "sending", "waiting", "wrapping", "failing", "done"}]
    BY <2>1 DEF TypeOK
  <2> QED  BY ZenonT(30), <2>2, <2>3, <2>4 DEF TypeOK
<1>12. CASE WriteToolError(c)
  <2>1. reply[c] \in Reply /\ reply[c].kind = "error"
    BY <1>12 DEF WriteToolError, TypeOK, ErrorHeld
  <2>2. reply[c].batch \in Conns \cup {Daemon}
    BY <2>1 DEF Reply, NoReply
  <2>3. Fail(BatchCode(reply[c].batch), errId[reply[c].batch]) \in Answer
    BY <2>2 DEF Fail, BatchCode, Answer, Codes, TypeOK
  <2>4. answer' \in [Calls -> Answer]
    BY <1>12, <2>3 DEF WriteToolError, TypeOK
  <2>5. pc' \in [Calls -> {"idle", "accepted", "connected", "invalid", "registered",
                          "sending", "waiting", "wrapping", "failing", "done"}]
    BY <1>12 DEF WriteToolError, TypeOK
  <2>6. UNCHANGED <<serverVars, writeMu, storeVars, cc, reqId, reply, errId,
                    connVars, wireVars, phase>>
    BY <1>12 DEF WriteToolError
  <2> QED  BY ZenonT(30), <2>4, <2>5, <2>6 DEF TypeOK
<1> QED  BY <1>1, <1>2, <1>3, <1>4, <1>5, <1>6, <1>7, <1>8, <1>9, <1>10, <1>11, <1>12, <1>0 DEF Invoke

\* A step of the daemon's shutdown keeps the types.
LEMMA TypeShutdown ==
    ASSUME TypeOK, Stop \/ Shutdown
    PROVE  TypeOK'
<1> USE DEF serverVars, storeVars, callVars, connVars, wireVars
<1>1. CASE Stop
  BY <1>1 DEF Stop, TypeOK
<1>2. CASE ShutdownHTTP
  BY <1>2 DEF ShutdownHTTP, TypeOK
<1>3. CASE ShutdownWS
  BY <1>3 DEF ShutdownWS, SetDisconnected, Closed, TypeOK
<1>4. CASE ShutdownFail
  <2>1. [kind |-> "error", batch |-> Daemon] \in Reply
    BY DEF Reply
  <2> QED  BY <1>4, <2>1 DEF ShutdownFail, FailAllPending, TypeOK
<1>5. CASE Exit
  <2>1. Fail("aborted", 0) \in Answer
    BY DEF Fail, Answer, Codes
  <2> QED  BY <1>5, <2>1 DEF Exit, TypeOK
<1> QED  BY <1>1, <1>2, <1>3, <1>4, <1>5 DEF Shutdown

LEMMA TypeStep == TypeOK /\ ErrorHeld /\ [Next]_vars => TypeOK'
<1> SUFFICES ASSUME TypeOK, ErrorHeld, [Next]_vars PROVE TypeOK'
  OBVIOUS
<1>1. CASE Next
  BY <1>1, TypePeer, TypeHandler, TypeInvoke, TypeShutdown DEF Next
<1>2. CASE UNCHANGED vars
  BY SMTT(30), <1>2 DEF vars, serverVars, storeVars, callVars, connVars, wireVars, TypeOK
<1> QED  BY <1>1, <1>2

-----------------------------------------------------------------------------
LEMMA CallInit == Init => CallInv
<1> SUFFICES ASSUME Init PROVE CallInv
  OBVIOUS
<1> QED  BY DEF Init, CallInv, Fresh, Issued, Ids, ErrorHeld, PendingIsUnanswered,
                InFlight, NoReply

\* The variables CallInv speaks of, but for phase.
tableVars == <<pending, nextId, pc, reqId, reply>>

LEMMA CallUnchanged ==
    ASSUME CallInv, UNCHANGED tableVars, Running' => Running
    PROVE  CallInv'
  BY DEF tableVars, CallInv, Fresh, Issued, Ids, ErrorHeld, PendingIsUnanswered, InFlight

\* An id in use is registered by one call.
LEMMA OneRegistered ==
    ASSUME CallInv, NEW c \in Calls, reqId[c] # 0, TypeOK
    PROVE  Registered(reqId[c]) = pending \cap {c}
  BY DEF CallInv, Ids, Registered, TypeOK

LEMMA CallGiveUp ==
    ASSUME IInv, NEW c \in Calls, NEW code \in Codes, Running,
           pc[c] \in {"invalid", "registered", "sending", "waiting"},
           GiveUp(c, code), UNCHANGED phase
    PROVE  CallInv'
<1>1. reqId[c] # 0
  BY DEF IInv, CallInv, Issued
<1>2. pending' = pending \ {c}
  BY <1>1, OneRegistered DEF IInv, GiveUp, RemovePending
<1>3. pc' = [pc EXCEPT ![c] = "done"] /\ UNCHANGED <<nextId, reqId, reply>>
  BY DEF GiveUp
<1>4. InFlight' = InFlight \ {c}
  BY <1>3 DEF InFlight, IInv, TypeOK
<1>5. PendingIsUnanswered'
  BY <1>2, <1>3, <1>4 DEF IInv, CallInv, PendingIsUnanswered, Running
<1>6. Fresh' /\ Issued' /\ Ids' /\ ErrorHeld'
  BY <1>3 DEF IInv, CallInv, Fresh, Issued, Ids, ErrorHeld, TypeOK
<1> QED  BY <1>5, <1>6 DEF CallInv

\* Whoever fails everything pending leaves nothing in the table, and an error
\* with each call it took out.
LEMMA CallFailAll ==
    ASSUME IInv, NEW b \in Conns \cup {Daemon}, Running,
           FailAllPending(b), UNCHANGED <<nextId, pc, reqId>>
    PROVE  CallInv'
<1>1. PendingIsUnanswered'
  BY DEF IInv, CallInv, PendingIsUnanswered, FailAllPending, InFlight, NoReply, TypeOK
<1>2. Fresh'
  BY DEF IInv, CallInv, Fresh, PendingIsUnanswered, InFlight, FailAllPending, TypeOK
<1>3. Issued' /\ Ids' /\ ErrorHeld'
  BY DEF IInv, CallInv, Issued, Ids, ErrorHeld, FailAllPending, TypeOK
<1> QED  BY <1>1, <1>2, <1>3 DEF CallInv

LEMMA CallReadResult ==
    ASSUME IInv, NEW x \in Conns, ReadResult(x)
    PROVE  CallInv'
<1> DEFINE m == Head(toDaemon[x])
<1>1. /\ pending' = pending \ Registered(m.id)
      /\ reply' = [c \in Calls |->
                     IF c \in Registered(m.id)
                     THEN [kind |-> "result", id |-> m.id, of |-> m.call]
                     ELSE reply[c]]
      /\ Running
      /\ UNCHANGED <<nextId, pc, reqId, phase>>
  BY DEF ReadResult, RemovePending
<1>2. Registered(m.id) \subseteq {c \in InFlight : reply[c] = NoReply}
  BY <1>1 DEF Registered, IInv, CallInv, PendingIsUnanswered
<1>3. PendingIsUnanswered'
  BY <1>1, <1>2 DEF IInv, CallInv, PendingIsUnanswered, InFlight, NoReply, Running
<1>4. Fresh'
  BY <1>1, <1>2 DEF IInv, CallInv, Fresh, InFlight
<1>5. ErrorHeld'
  BY <1>1, <1>2 DEF IInv, CallInv, ErrorHeld, InFlight
<1>6. Issued' /\ Ids'
  BY <1>1 DEF IInv, CallInv, Issued, Ids
<1> QED  BY <1>3, <1>4, <1>5, <1>6 DEF CallInv

LEMMA CallRegister ==
    ASSUME IInv, NEW c \in Calls, Register(c)
    PROVE  CallInv'
<1> PICK to \in Checked : pc' = [pc EXCEPT ![c] = to]
  BY DEF Register
<1>1. /\ nextId' = nextId + 1
      /\ reqId' = [reqId EXCEPT ![c] = nextId + 1]
      /\ pc[c] = "connected" /\ pc' = [pc EXCEPT ![c] = to] /\ to \in {"registered", "invalid"}
      /\ pending' = (pending \ Registered(nextId + 1)) \cup {c}
      /\ Running /\ UNCHANGED <<reply, phase>>
  BY DEF Register, AddPending, Checked
<1>2. nextId \in Nat /\ \A d \in Calls : reqId[d] \in Nat /\ reqId[d] <= nextId
  BY DEF IInv, CallInv, Ids, TypeOK
<1>3. Registered(nextId + 1) = {}
  BY <1>2 DEF Registered, IInv, TypeOK
<1>4. reply[c] = NoReply /\ c \notin InFlight
  BY <1>1 DEF IInv, CallInv, Fresh, InFlight
<1>5. InFlight' = InFlight \cup {c}
  BY <1>1 DEF InFlight, IInv, TypeOK
<1>6. PendingIsUnanswered'
  BY <1>1, <1>3, <1>4, <1>5 DEF IInv, CallInv, PendingIsUnanswered, Running
<1>7. Ids'
  <2>1. /\ reqId' \in [Calls -> Nat] /\ nextId' \in Nat /\ nextId' = nextId + 1
        /\ reqId'[c] = nextId + 1
        /\ \A d \in Calls \ {c} : reqId'[d] = reqId[d]
    BY <1>1, <1>2 DEF IInv, TypeOK
  <2>2. \A d \in Calls : reqId'[d] <= nextId'
    BY <1>2, <2>1
  <2>3. \A d, e \in Calls : reqId'[d] = reqId'[e] /\ reqId'[d] # 0 => d = e
    <3>1. \A d, e \in Calls : reqId[d] = reqId[e] /\ reqId[d] # 0 => d = e
      BY DEF IInv, CallInv, Ids
    <3>2. \A d \in Calls \ {c} : reqId'[d] # reqId'[c]
      BY <1>2, <2>1
    <3> QED  BY <2>1, <3>1, <3>2
  <2> QED  BY <2>2, <2>3 DEF Ids
<1>8. Fresh'
  BY <1>1 DEF IInv, CallInv, Fresh, TypeOK
<1>9. Issued'
  BY <1>1, <1>2 DEF IInv, CallInv, Issued, TypeOK
<1>10. ErrorHeld'
  BY <1>1 DEF IInv, CallInv, ErrorHeld, TypeOK
<1> QED  BY <1>6, <1>7, <1>8, <1>9, <1>10 DEF CallInv

\* A call that moves from one place in InvokeTool to another without touching
\* the table, its id or its reply.
LEMMA CallMoves ==
    ASSUME IInv, NEW c \in Calls, NEW to,
           pc' = [pc EXCEPT ![c] = to],
           UNCHANGED <<pending, nextId, reqId, reply, phase>>,
           \/ pc[c] = "idle" /\ to = "accepted"
           \/ pc[c] = "accepted" /\ to \in {"connected", "done"}
           \/ pc[c] \in {"registered", "sending"} /\ to \in {"sending", "waiting"}
           \/ pc[c] = "waiting" /\ reply[c].kind = "result" /\ to = "done"
           \/ pc[c] = "waiting" /\ reply[c].kind = "error" /\ to \in {"wrapping", "failing"}
           \/ pc[c] = "wrapping" /\ to = "failing"
           \/ pc[c] = "failing" /\ to = "done"
    PROVE  CallInv'
<1>1. {d \in InFlight' : reply[d] = NoReply} = {d \in InFlight : reply[d] = NoReply}
  BY SMTT(30) DEF InFlight, NoReply, IInv, TypeOK
<1>2. PendingIsUnanswered'
  BY <1>1 DEF IInv, CallInv, PendingIsUnanswered, Running
<1>3. Fresh' /\ Issued' /\ Ids' /\ ErrorHeld'
  BY DEF IInv, CallInv, Fresh, Issued, Ids, ErrorHeld, TypeOK
<1> QED  BY <1>2, <1>3 DEF CallInv

LEMMA CallExit == IInv /\ Exit => CallInv'
<1> SUFFICES ASSUME IInv, Exit PROVE CallInv'
  OBVIOUS
<1>1. ~Running'
  BY DEF Exit, Running
<1>2. /\ pc' = [c \in Calls |-> IF Idle(c) THEN pc[c] ELSE "done"]
      /\ UNCHANGED <<nextId, reqId, reply>>
  BY DEF Exit, serverVars
<1>3. Fresh' /\ Issued' /\ Ids' /\ ErrorHeld'
  BY <1>2 DEF IInv, CallInv, Fresh, Issued, Ids, ErrorHeld, Idle
<1>4. PendingIsUnanswered'
  BY <1>1 DEF PendingIsUnanswered
<1> QED  BY <1>3, <1>4 DEF CallInv

LEMMA CallStep == IInv /\ [Next]_vars => CallInv'
<1> SUFFICES ASSUME IInv, [Next]_vars PROVE CallInv'
  OBVIOUS
<1> USE DEF serverVars, storeVars, callVars, connVars, wireVars, tableVars
<1>0. CallInv
  BY DEF IInv
<1>1. CASE UNCHANGED vars
  BY <1>0, <1>1, CallUnchanged DEF vars, Running
<1>2. ASSUME NEW x \in Conns, Peer(x) PROVE CallInv'
  BY <1>0, <1>2, CallUnchanged
     DEF Peer, PeerConnect, PeerHello, PeerRead, PeerDrop, Running
<1>3. ASSUME NEW x \in Conns, Handler(x) PROVE CallInv'
  <2>1. CASE ReadResult(x)
    BY <2>1, CallReadResult
  <2>2. CASE FailPending(x)
    BY <2>2, CallFailAll DEF FailPending
  <2>3. CASE \/ SetActiveConn(x) \/ ReadHello(x) \/ SetConnected(x) \/ ReadError(x)
    BY <1>0, <2>3, CallUnchanged
       DEF SetActiveConn, ReadHello, SetConnected, ReadError, Running
  <2>4. CASE \/ ClearActiveConn(x) \/ ClearStaleConn(x)
             \/ LockForWelcome(x) \/ WriteWelcome(x)
    BY <1>0, <2>4, CallUnchanged
       DEF ClearActiveConn, ClearStaleConn, LockForWelcome, WriteWelcome, Running
  <2> QED  BY <1>3, <2>1, <2>2, <2>3, <2>4 DEF Handler
<1>4. ASSUME NEW c \in Calls, Accept(c) \/ Invoke(c) \/ Timeout(c) \/ Cancel(c)
      PROVE  CallInv'
  <2>0. CASE Accept(c)
    BY <2>0, CallMoves DEF Accept
  <2>1. CASE GetConn(c)
    <3>1. pc' = [pc EXCEPT ![c] = "done"] \/ pc' = [pc EXCEPT ![c] = "connected"]
      BY <2>1 DEF GetConn
    <3> QED  BY <2>1, <3>1, CallMoves DEF GetConn
  <2>2. CASE Register(c)
    BY <2>2, CallRegister
  <2>3. CASE Reject(c) \/ SendFails(c) \/ Timeout(c) \/ Cancel(c)
    BY <2>3, CallGiveUp DEF Reject, SendFails, Timeout, Cancel, GiveUp, Codes
  <2>4. CASE LockForInvoke(c) \/ SendInvoke(c)
    BY <2>4, CallMoves DEF LockForInvoke, SendInvoke
  <2>5. CASE ReceiveResult(c)
    BY <2>5, CallMoves DEF ReceiveResult
  <2>6. CASE ReceiveError(c)
    BY <2>6, CallMoves DEF ReceiveError
  <2>7. CASE WrapPendingError(c) \/ WriteToolError(c)
    BY <2>7, CallMoves DEF WrapPendingError, WriteToolError
  <2> QED  BY <1>4, <2>0, <2>1, <2>2, <2>3, <2>4, <2>5, <2>6, <2>7 DEF Invoke
<1>5. CASE Stop \/ Shutdown
  <2>1. CASE Exit
    BY <2>1, CallExit
  <2>2. CASE ShutdownFail
    BY <2>2, CallFailAll DEF ShutdownFail, Running
  <2>3. CASE Stop \/ ShutdownHTTP \/ ShutdownWS
    BY <1>0, <2>3, CallUnchanged
       DEF Stop, ShutdownHTTP, Drained, DrainTimeout, ShutdownWS, Running
  <2> QED  BY <1>5, <2>1, <2>2, <2>3 DEF Shutdown
<1> QED  BY <1>1, <1>2, <1>3, <1>4, <1>5 DEF Next

\* The invariant the theorems rest on.
THEOREM Invariance == Spec => []IInv
<1>1. Init => IInv
  BY TypeInit, CallInit DEF IInv
<1>2. IInv /\ [Next]_vars => IInv'
  BY TypeStep, CallStep DEF IInv, CallInv
<1> QED  BY <1>1, <1>2, PTL DEF Spec

\* Every variable of the broker stays in its type.
THEOREM TypeCorrect == Spec => []TypeOK
  BY Invariance, PTL DEF IInv

\* The pending table holds exactly the calls in flight without a reply: no send
\* on a pendingCh can wait, and no call leaks its entry or loses it in silence.
THEOREM TableCorrect == Spec => []PendingIsUnanswered
<1>1. IInv => PendingIsUnanswered
  BY DEF IInv, CallInv
<1> QED  BY <1>1, Invariance, PTL

-----------------------------------------------------------------------------
(* pending_requests.  Outside connMu's sections the count follows the      *)
(* table; inside them it may not, and FailAllPending makes both empty.     *)

LEMMA CountGiveUp ==
    ASSUME TypeOK, PendingCountAccurate, NEW c \in Calls, NEW code, GiveUp(c, code)
    PROVE  PendingCountAccurate'
<1>1. connMu' = connMu /\ RemovePending(reqId[c])
  BY DEF GiveUp
<1>2. pending \ {} = pending
  OBVIOUS
<1> QED  BY <1>1, <1>2 DEF RemovePending, PendingCountAccurate

\* The count and what it counts, and the lock that hides them.
countVars == <<pending, pendingRequests, connMu>>

LEMMA CountStep == TypeOK /\ PendingCountAccurate /\ [Next]_vars => PendingCountAccurate'
<1> SUFFICES ASSUME TypeOK, PendingCountAccurate, [Next]_vars
             PROVE  PendingCountAccurate'
  OBVIOUS
<1> USE DEF serverVars, storeVars, callVars, connVars, wireVars
<1>0. None \notin Conns /\ None # Daemon
  BY BrokerAssumption
<1>1. CASE UNCHANGED countVars
  BY <1>1 DEF countVars, PendingCountAccurate
<1>2. CASE UNCHANGED vars
  BY <1>1, <1>2 DEF vars, countVars
<1>3. ASSUME NEW x \in Conns, Peer(x) PROVE PendingCountAccurate'
  BY <1>1, <1>3 DEF countVars, Peer, PeerConnect, PeerHello, PeerRead, PeerDrop
<1>4. ASSUME NEW x \in Conns, Handler(x) PROVE PendingCountAccurate'
  <2>1. CASE ReadResult(x)
    <3>1. \E id : RemovePending(id)
      BY <2>1 DEF ReadResult
    <3>2. pending \ {} = pending
      OBVIOUS
    <3>3. connMu' = connMu
      BY <2>1 DEF ReadResult
    <3> QED  BY <3>1, <3>2, <3>3 DEF RemovePending, PendingCountAccurate
  <2>2. CASE ClearActiveConn(x)
    BY <1>0, <2>2 DEF ClearActiveConn, PendingCountAccurate
  <2>3. CASE FailPending(x)
    BY <2>3, PendingSize DEF FailPending, FailAllPending, PendingCountAccurate
  <2>4. CASE SetActiveConn(x) \/ ReadHello(x) \/ SetConnected(x) \/ ReadError(x)
    BY <1>1, <2>4 DEF countVars, SetActiveConn, ReadHello, SetConnected, ReadError
  <2>5. CASE ClearStaleConn(x) \/ LockForWelcome(x) \/ WriteWelcome(x)
    BY <1>1, <2>5 DEF countVars, ClearStaleConn, LockForWelcome, WriteWelcome
  <2> QED  BY <1>4, <2>1, <2>2, <2>3, <2>4, <2>5 DEF Handler
<1>5. ASSUME NEW c \in Calls, Accept(c) \/ Invoke(c) \/ Timeout(c) \/ Cancel(c)
      PROVE  PendingCountAccurate'
  <2>1. CASE Reject(c) \/ SendFails(c) \/ Timeout(c) \/ Cancel(c)
    BY <2>1, CountGiveUp DEF Reject, SendFails, Timeout, Cancel
  <2>2. CASE Register(c)
    BY <2>2 DEF Register, AddPending, PendingCountAccurate
  <2>3. CASE Accept(c) \/ GetConn(c) \/ LockForInvoke(c) \/ SendInvoke(c)
    BY <1>1, <2>3 DEF countVars, Accept, GetConn, LockForInvoke, SendInvoke
  <2>4. CASE \/ ReceiveResult(c) \/ ReceiveError(c)
             \/ WrapPendingError(c) \/ WriteToolError(c)
    BY <1>1, <2>4
       DEF countVars, ReceiveResult, ReceiveError, WrapPendingError, WriteToolError
  <2> QED  BY <1>5, <2>1, <2>2, <2>3, <2>4 DEF Invoke
<1>6. CASE Stop \/ Shutdown
  <2>1. CASE ShutdownWS
    BY <1>0, <2>1 DEF ShutdownWS, PendingCountAccurate
  <2>2. CASE ShutdownFail
    BY <2>2, PendingSize DEF ShutdownFail, FailAllPending, PendingCountAccurate
  <2>3. CASE Stop \/ ShutdownHTTP \/ Exit
    BY <1>1, <2>3 DEF countVars, Stop, ShutdownHTTP, Exit
  <2> QED  BY <1>6, <2>1, <2>2, <2>3 DEF Shutdown
<1> QED  BY <1>2, <1>3, <1>4, <1>5, <1>6 DEF Next

\* /status counts the pending requests right whenever connMu is free.
THEOREM CountCorrect == Spec => []PendingCountAccurate
<1>1. Init => PendingCountAccurate
  BY FS_EmptySet DEF Init, PendingCountAccurate
<1> QED  BY <1>1, TypeCorrect, CountStep, PTL DEF Spec

-----------------------------------------------------------------------------
(* The status store.  While no socket has been closed by the daemon there  *)
(* is at most one handler between its setActiveConn and its clearActiveConn*)
(* and its connection is the active one.                                   *)

OneHandler ==
    NothingClosed =>
        \A x \in Conns :
            hpc[x] \in {"reading", "hello", "welcome", "writing", "clear"} => conn = x

NewHandlers ==
    /\ \A x \in Conns : hpc[x] = "off" => link[x] = "unused"
    /\ \A x \in Conns : x \in greeted => hpc[x] \notin {"off", "upgraded"}
    /\ \A x \in Conns : conn = x => hpc[x] # "off"

StatusInv == StatusTrueUntilTakeover /\ OneHandler /\ NewHandlers

\* The variables StatusInv speaks of.
statusVars == <<conn, pluginConnected, advertiser, greeted, hpc, link>>

LEMMA StatusUnchanged ==
    ASSUME StatusInv, UNCHANGED statusVars
    PROVE  StatusInv'
  BY DEF statusVars, StatusInv, StatusTrueUntilTakeover, OneHandler, NewHandlers,
         NothingClosed

LEMMA StatusInit == Init => StatusInv
<1> SUFFICES ASSUME Init PROVE StatusInv
  OBVIOUS
<1>1. StatusTrueUntilTakeover
  BY DEF Init, StatusTrueUntilTakeover
<1>2. OneHandler /\ NewHandlers
  BY BrokerAssumption DEF Init, OneHandler, NewHandlers
<1> QED  BY <1>1, <1>2 DEF StatusInv

LEMMA StatusPeer ==
    ASSUME TypeOK, StatusInv, NEW x \in Conns, Peer(x)
    PROVE  StatusInv'
<1> USE DEF serverVars, storeVars, callVars, connVars, wireVars
<1>1. CASE PeerHello(x) \/ PeerRead(x)
  BY <1>1, StatusUnchanged DEF PeerHello, PeerRead, statusVars
<1>2. CASE PeerConnect(x) \/ PeerDrop(x)
  <2>1. NothingClosed' => NothingClosed
    BY <1>2 DEF PeerConnect, PeerDrop, NothingClosed, StatusInv, NewHandlers, TypeOK
  <2>2. UNCHANGED <<conn, pluginConnected, advertiser, greeted>>
    BY <1>2 DEF PeerConnect, PeerDrop
  <2>3. StatusTrueUntilTakeover'
    BY <2>1, <2>2 DEF StatusInv, StatusTrueUntilTakeover
  <2>4. OneHandler'
    BY <1>2, <2>1, <2>2 DEF PeerConnect, PeerDrop, StatusInv, OneHandler, TypeOK
  <2>5. NewHandlers'
    BY <1>2, <2>2 DEF PeerConnect, PeerDrop, StatusInv, NewHandlers, TypeOK
  <2> QED  BY <2>3, <2>4, <2>5 DEF StatusInv
<1> QED  BY <1>1, <1>2 DEF Peer

LEMMA StatusSetActive ==
    ASSUME TypeOK, StatusInv, NEW x \in Conns, SetActiveConn(x)
    PROVE  StatusInv'
<1> USE DEF storeVars
<1>1. /\ conn' = x /\ hpc[x] = "upgraded" /\ hpc' = [hpc EXCEPT ![x] = "reading"]
      /\ link' = IF conn = None THEN link ELSE Closed(conn)
      /\ UNCHANGED <<pluginConnected, advertiser, greeted>>
  BY DEF SetActiveConn
<1>2. NewHandlers'
  BY <1>1 DEF StatusInv, NewHandlers, TypeOK, Closed
<1>3. CASE conn # None
  <2>1. ~NothingClosed'
    BY <1>1, <1>3 DEF NothingClosed, TypeOK, Closed
  <2> QED  BY <1>2, <2>1 DEF StatusInv, StatusTrueUntilTakeover, OneHandler
<1>4. CASE conn = None
  <2>1. x \notin greeted /\ conn \notin greeted /\ conn \notin Conns
    BY <1>1, <1>4, BrokerAssumption DEF StatusInv, NewHandlers, TypeOK
  <2>2. NothingClosed' = NothingClosed
    BY <1>1, <1>4 DEF NothingClosed
  <2>3. StatusTrueUntilTakeover'
    BY <1>1, <2>1, <2>2 DEF StatusInv, StatusTrueUntilTakeover
  <2>4. OneHandler'
    BY <1>1, <2>1, <2>2 DEF StatusInv, OneHandler, TypeOK
  <2> QED  BY <1>2, <2>3, <2>4 DEF StatusInv
<1> QED  BY <1>3, <1>4

LEMMA StatusHandler ==
    ASSUME TypeOK, StatusInv, NEW x \in Conns, Handler(x)
    PROVE  StatusInv'
<1> USE DEF serverVars, storeVars, callVars, connVars, wireVars
<1>0. None \notin Conns
  BY BrokerAssumption
<1>1. CASE SetActiveConn(x)
  BY <1>1, StatusSetActive
<1>2. CASE SetConnected(x)
  <2>1. NothingClosed' = NothingClosed /\ (NothingClosed => conn = x)
    BY <1>2 DEF SetConnected, NothingClosed, StatusInv, OneHandler
  <2>2. StatusTrueUntilTakeover'
    BY <1>2, <2>1 DEF SetConnected, StatusTrueUntilTakeover
  <2>3. OneHandler' /\ NewHandlers'
    BY <1>2, <2>1 DEF SetConnected, StatusInv, OneHandler, NewHandlers, TypeOK
  <2> QED  BY <2>2, <2>3 DEF StatusInv
<1>3. CASE ClearActiveConn(x)
  <2>1. NothingClosed' = NothingClosed
    BY <1>3 DEF ClearActiveConn, NothingClosed
  <2>2. StatusTrueUntilTakeover'
    BY <1>0, <1>3 DEF ClearActiveConn, SetDisconnected, StatusTrueUntilTakeover, TypeOK
  <2>3. OneHandler'
    BY <1>3, <2>1 DEF ClearActiveConn, StatusInv, OneHandler, TypeOK
  <2>4. NewHandlers'
    BY <1>0, <1>3 DEF ClearActiveConn, StatusInv, NewHandlers, TypeOK
  <2> QED  BY <2>2, <2>3, <2>4 DEF StatusInv
<1>4. CASE ReadResult(x)
  BY <1>4, StatusUnchanged DEF ReadResult, statusVars
<1>5. ASSUME NEW from \in {"reading", "hello", "welcome", "writing", "clear", "clearing"},
             NEW to \in {"hello", "reading", "writing", "clear", "gone"},
             hpc[x] = from, hpc' = [hpc EXCEPT ![x] = to],
             from = "clearing" => to = "gone",
             UNCHANGED <<conn, pluginConnected, advertiser, greeted, link>>
      PROVE  StatusInv'
  <2>1. NothingClosed' = NothingClosed
    BY <1>5 DEF NothingClosed
  <2>2. StatusTrueUntilTakeover'
    BY <1>5, <2>1 DEF StatusInv, StatusTrueUntilTakeover
  <2>3. OneHandler'
    BY <1>5, <2>1 DEF StatusInv, OneHandler, TypeOK
  <2>4. NewHandlers'
    BY <1>5 DEF StatusInv, NewHandlers, TypeOK
  <2> QED  BY <2>2, <2>3, <2>4 DEF StatusInv
<1>6. CASE ReadHello(x) \/ ReadError(x)
  BY <1>5, <1>6 DEF ReadHello, ReadError
<1>7. CASE ClearStaleConn(x) \/ FailPending(x)
  BY <1>5, <1>7 DEF ClearStaleConn, FailPending
<1>8. CASE LockForWelcome(x) \/ WriteWelcome(x)
  BY <1>5, <1>8 DEF LockForWelcome, WriteWelcome
<1> QED  BY <1>1, <1>2, <1>3, <1>4, <1>6, <1>7, <1>8 DEF Handler

LEMMA StatusShutdown ==
    ASSUME TypeOK, StatusInv, Stop \/ Shutdown
    PROVE  StatusInv'
<1> USE DEF serverVars, storeVars, callVars, connVars, wireVars
<1>0. None \notin Conns
  BY BrokerAssumption
<1>1. CASE Stop \/ ShutdownHTTP \/ ShutdownFail
  BY <1>1, StatusUnchanged DEF Stop, ShutdownHTTP, ShutdownFail, statusVars
<1>2. CASE ShutdownWS
  <2>1. NewHandlers'
    BY <1>0, <1>2 DEF ShutdownWS, StatusInv, NewHandlers, Closed, TypeOK
  <2>2. StatusTrueUntilTakeover'
    BY <1>0, <1>2 DEF ShutdownWS, SetDisconnected, StatusTrueUntilTakeover, TypeOK
  <2>3. NothingClosed' => conn = None /\ NothingClosed
    BY <1>2 DEF ShutdownWS, NothingClosed, Closed, TypeOK
  <2>4. OneHandler'
    BY <1>0, <1>2, <2>3 DEF ShutdownWS, StatusInv, OneHandler
  <2> QED  BY <2>1, <2>2, <2>4 DEF StatusInv
<1>3. CASE Exit
  <2>1. NothingClosed' => NothingClosed
    BY <1>3 DEF Exit, NothingClosed, TypeOK
  <2>2. StatusTrueUntilTakeover'
    BY <1>3, <2>1 DEF Exit, StatusInv, StatusTrueUntilTakeover
  <2>3. OneHandler' /\ NewHandlers'
    BY <1>3 DEF Exit, OneHandler, NewHandlers, TypeOK
  <2> QED  BY <2>2, <2>3 DEF StatusInv
<1> QED  BY <1>1, <1>2, <1>3 DEF Shutdown

LEMMA StatusCalls ==
    ASSUME StatusInv, NEW c \in Calls, Accept(c) \/ Invoke(c) \/ Timeout(c) \/ Cancel(c)
    PROVE  StatusInv'
<1> USE DEF serverVars, storeVars, callVars, connVars, wireVars, statusVars
<1>1. CASE Reject(c) \/ SendFails(c) \/ Timeout(c) \/ Cancel(c)
  BY <1>1, StatusUnchanged DEF Reject, SendFails, Timeout, Cancel, GiveUp
<1>2. CASE Accept(c) \/ GetConn(c) \/ Register(c) \/ LockForInvoke(c) \/ SendInvoke(c)
  BY <1>2, StatusUnchanged DEF Accept, GetConn, Register, LockForInvoke, SendInvoke
<1>3. CASE ReceiveResult(c) \/ ReceiveError(c) \/ WrapPendingError(c) \/ WriteToolError(c)
  BY <1>3, StatusUnchanged DEF ReceiveResult, ReceiveError, WrapPendingError, WriteToolError
<1> QED  BY <1>1, <1>2, <1>3 DEF Invoke

\* Until a takeover or a shutdown closes a socket, /status and /tools/list tell
\* the truth about the plugin that calls go to.
THEOREM StatusCorrect == Spec => []StatusTrueUntilTakeover
<1>1. TypeOK /\ StatusInv /\ [Next]_vars => StatusInv'
  <2> SUFFICES ASSUME TypeOK, StatusInv, [Next]_vars PROVE StatusInv'
    OBVIOUS
  <2>1. CASE UNCHANGED vars
    BY <2>1, StatusUnchanged
       DEF vars, serverVars, storeVars, connVars, wireVars, statusVars
  <2>2. CASE Next
    BY <2>2, StatusPeer, StatusHandler, StatusCalls, StatusShutdown DEF Next
  <2> QED  BY <2>1, <2>2
<1>2. StatusInv => StatusTrueUntilTakeover
  BY DEF StatusInv
<1> QED  BY <1>1, <1>2, StatusInit, TypeCorrect, PTL DEF Spec

-----------------------------------------------------------------------------
(* Request ids.  A reply, once sent, and the id of a call that holds one   *)
(* never change, so the id a shared error was given stays that of a call   *)
(* the error was sent to.                                                  *)

ErrIdHeld ==
    \A b \in Conns \cup {Daemon} : errId[b] # 0 =>
        \E d \in Calls : reqId[d] = errId[b] /\ reply[d] = [kind |-> "error", batch |-> b]

ResultId == \A c \in Calls : reply[c].kind = "result" => reply[c].id = reqId[c]

AnsweredDone == \A c \in Calls : answer[c] # NoAnswer => pc[c] = "done"

OtherIdIsShared ==
    \A c \in Calls : answer[c] # NoAnswer /\ answer[c].id \notin {0, reqId[c]} =>
        /\ answer[c].code \in {"disconnected", "shutting_down"}
        /\ reply[c].kind = "error"
        /\ \E d \in Calls \ {c} : reqId[d] = answer[c].id /\ reply[d] = reply[c]

IdInv == ErrIdHeld /\ ResultId /\ AnsweredDone /\ OtherIdIsShared

LEMMA IdInit == Init => IdInv
  BY DEF Init, IdInv, ErrIdHeld, ResultId, AnsweredDone, OtherIdIsShared, NoReply, NoAnswer

\* The calls FailAllPending or completePending reply to have no reply yet.
LEMMA ReplyStable ==
    ASSUME IInv, [Next]_vars
    PROVE  \A d \in Calls : reply[d] # NoReply => reply'[d] = reply[d] /\ reqId'[d] = reqId[d]
<1> USE DEF serverVars, storeVars, callVars, connVars, wireVars
<1>0. Running => \A d \in pending : reply[d] = NoReply
  BY DEF IInv, CallInv, PendingIsUnanswered
<1>1. CASE UNCHANGED <<reply, reqId>>
  BY <1>1
<1>2. CASE UNCHANGED vars
  BY <1>1, <1>2 DEF vars
<1>3. ASSUME NEW x \in Conns, Peer(x) PROVE UNCHANGED <<reply, reqId>>
  BY <1>3 DEF Peer, PeerConnect, PeerHello, PeerRead, PeerDrop
<1>4. ASSUME NEW b, Running, FailAllPending(b), UNCHANGED reqId
      PROVE  \A d \in Calls : reply[d] # NoReply => reply'[d] = reply[d] /\ reqId'[d] = reqId[d]
  BY <1>0, <1>4 DEF FailAllPending
<1>5. ASSUME NEW x \in Conns, Handler(x)
      PROVE  \A d \in Calls : reply[d] # NoReply => reply'[d] = reply[d] /\ reqId'[d] = reqId[d]
  <2>1. CASE ReadResult(x)
    <3>1. Running /\ UNCHANGED reqId
      BY <2>1 DEF ReadResult
    <3>2. \A d \in Calls : d \notin pending => reply'[d] = reply[d]
      BY <2>1 DEF ReadResult, Registered
    <3> QED  BY <1>0, <3>1, <3>2
  <2>2. CASE FailPending(x)
    BY <1>4, <2>2 DEF FailPending
  <2>3. CASE \/ SetActiveConn(x) \/ ReadHello(x) \/ SetConnected(x) \/ ReadError(x)
    BY <1>1, <2>3 DEF SetActiveConn, ReadHello, SetConnected, ReadError
  <2>4. CASE \/ ClearActiveConn(x) \/ ClearStaleConn(x)
             \/ LockForWelcome(x) \/ WriteWelcome(x)
    BY <1>1, <2>4 DEF ClearActiveConn, ClearStaleConn, LockForWelcome, WriteWelcome
  <2> QED  BY <1>5, <2>1, <2>2, <2>3, <2>4 DEF Handler
<1>6. ASSUME NEW c \in Calls, Accept(c) \/ Invoke(c) \/ Timeout(c) \/ Cancel(c)
      PROVE  \A d \in Calls : reply[d] # NoReply => reply'[d] = reply[d] /\ reqId'[d] = reqId[d]
  <2>1. CASE Register(c)
    <3>1. reply[c] = NoReply /\ UNCHANGED reply /\ reqId' = [reqId EXCEPT ![c] = nextId']
      BY <2>1 DEF Register, IInv, CallInv, Fresh
    <3> QED  BY <3>1 DEF IInv, TypeOK
  <2>2. CASE Reject(c) \/ SendFails(c) \/ Timeout(c) \/ Cancel(c)
    BY <1>1, <2>2 DEF Reject, SendFails, Timeout, Cancel, GiveUp
  <2>3. CASE Accept(c) \/ GetConn(c) \/ LockForInvoke(c) \/ SendInvoke(c)
    BY <1>1, <2>3 DEF Accept, GetConn, LockForInvoke, SendInvoke
  <2>4. CASE \/ ReceiveResult(c) \/ ReceiveError(c)
             \/ WrapPendingError(c) \/ WriteToolError(c)
    BY <1>1, <2>4 DEF ReceiveResult, ReceiveError, WrapPendingError, WriteToolError
  <2> QED  BY <1>6, <2>1, <2>2, <2>3, <2>4 DEF Invoke
<1>7. CASE Stop \/ Shutdown
  <2>1. CASE ShutdownFail
    BY <1>4, <2>1 DEF ShutdownFail, Running
  <2>2. CASE Stop \/ ShutdownHTTP \/ ShutdownWS \/ Exit
    BY <1>1, <2>2 DEF Stop, ShutdownHTTP, ShutdownWS, Exit
  <2> QED  BY <1>7, <2>1, <2>2 DEF Shutdown
<1> QED  BY <1>1, <1>2, <1>3, <1>5, <1>6, <1>7 DEF Next

\* The answer a step gives, if it gives one: a call's own id, none, or that of
\* the error the call was sent.
GivesAnswer(c) ==
    /\ pc[c] # "done" /\ pc'[c] = "done"
    /\ \/ answer'[c].id \in {0, reqId'[c]}
       \/ /\ pc[c] = "failing"
          /\ answer'[c] = Fail(BatchCode(reply[c].batch), errId[reply[c].batch])

LEMMA AnswerStep ==
    ASSUME IInv, ResultId, [Next]_vars
    PROVE  \A c \in Calls :
               \/ answer'[c] = answer[c] /\ (pc[c] = "done" => pc'[c] = "done")
               \/ GivesAnswer(c)
<1> USE DEF serverVars, storeVars, callVars, connVars, wireVars
<1>0. TypeOK
  BY DEF IInv
<1>1. CASE UNCHANGED <<answer, pc>>
  BY <1>1
<1>2. CASE UNCHANGED vars
  BY <1>1, <1>2 DEF vars
<1>3. ASSUME NEW x \in Conns, Peer(x) PROVE UNCHANGED <<answer, pc>>
  BY <1>3 DEF Peer, PeerConnect, PeerHello, PeerRead, PeerDrop
<1>4. ASSUME NEW x \in Conns, Handler(x) PROVE UNCHANGED <<answer, pc>>
  <2>1. CASE SetActiveConn(x) \/ ReadHello(x) \/ SetConnected(x) \/ ReadResult(x) \/ ReadError(x)
    BY <2>1 DEF SetActiveConn, ReadHello, SetConnected, ReadResult, ReadError
  <2>2. CASE \/ ClearActiveConn(x) \/ ClearStaleConn(x) \/ FailPending(x)
             \/ LockForWelcome(x) \/ WriteWelcome(x)
    BY <2>2 DEF ClearActiveConn, ClearStaleConn, FailPending, LockForWelcome, WriteWelcome
  <2> QED  BY <1>4, <2>1, <2>2 DEF Handler
<1>5. ASSUME NEW c \in Calls, Accept(c) \/ Invoke(c) \/ Timeout(c) \/ Cancel(c)
      PROVE  /\ \A d \in Calls \ {c} : answer'[d] = answer[d] /\ pc'[d] = pc[d]
             /\ \/ answer'[c] = answer[c] /\ pc[c] # "done"
                \/ GivesAnswer(c)
  <2>0. CASE Accept(c)
    BY <1>0, <2>0 DEF Accept, TypeOK
  <2>1. CASE GetConn(c)
    BY <1>0, <2>1 DEF GetConn, TypeOK, GivesAnswer, Fail
  <2>2. CASE Reject(c) \/ SendFails(c) \/ Timeout(c) \/ Cancel(c)
    <3>1. pc[c] # "done" /\ \E code \in Codes : GiveUp(c, code)
      BY <2>2 DEF Reject, SendFails, Timeout, Cancel, Codes
    <3> QED  BY <1>0, <3>1 DEF GiveUp, Fail, TypeOK, GivesAnswer
  <2>3. CASE Register(c) \/ LockForInvoke(c) \/ SendInvoke(c)
    BY <1>0, <2>3 DEF Register, Checked, LockForInvoke, SendInvoke, TypeOK
  <2>4. CASE ReceiveError(c) \/ WrapPendingError(c)
    BY <1>0, <2>4 DEF ReceiveError, WrapPendingError, TypeOK
  <2>5. CASE ReceiveResult(c)
    BY <1>0, <2>5 DEF ReceiveResult, ResultId, TypeOK, GivesAnswer
  <2>6. CASE WriteToolError(c)
    BY <1>0, <2>6 DEF WriteToolError, TypeOK, GivesAnswer
  <2> QED  BY <1>5, <2>0, <2>1, <2>2, <2>3, <2>4, <2>5, <2>6 DEF Invoke
<1>6. CASE Stop \/ Shutdown
  <2>1. CASE Exit
    BY <1>0, <2>1 DEF Exit, Idle, Fail, TypeOK, GivesAnswer
  <2>2. CASE Stop \/ ShutdownHTTP \/ ShutdownWS \/ ShutdownFail
    BY <1>1, <2>2 DEF Stop, ShutdownHTTP, ShutdownWS, ShutdownFail
  <2> QED  BY <1>6, <2>1, <2>2 DEF Shutdown
<1> QED  BY <1>1, <1>2, <1>3, <1>4, <1>5, <1>6 DEF Next

\* A call is sent an error, or the result that carries its id.
LEMMA ReplyStep ==
    ASSUME IInv, ResultId, [Next]_vars
    PROVE  ResultId'
<1> USE DEF serverVars, storeVars, callVars, connVars, wireVars
<1>1. CASE UNCHANGED <<reply, reqId>>
  BY <1>1 DEF ResultId
<1>2. CASE \E c \in Calls : Register(c)
  <2> PICK c \in Calls : Register(c)
    BY <1>2
  <2>1. reply[c] = NoReply /\ UNCHANGED reply /\ reqId' = [reqId EXCEPT ![c] = nextId']
    BY DEF Register, IInv, CallInv, Fresh
  <2> QED  BY SMTT(30), <2>1 DEF ResultId, NoReply, IInv, TypeOK
<1>3. CASE \E x \in Conns : ReadResult(x)
  <2> PICK x \in Conns : ReadResult(x)
    BY <1>3
  <2>1. UNCHANGED reqId
    BY DEF ReadResult
  <2>2. \A c \in Calls : \/ reply'[c] = reply[c]
                         \/ reply'[c].id = reqId[c]
    BY DEF ReadResult, Registered
  <2> QED  BY <2>1, <2>2 DEF ResultId
<1>4. CASE \E b \in Conns \cup {Daemon} : FailAllPending(b) /\ UNCHANGED reqId
  BY <1>4 DEF FailAllPending, ResultId
<1>5. CASE UNCHANGED vars
  BY <1>1, <1>5 DEF vars
<1>6. ASSUME NEW x \in Conns, Peer(x) PROVE ResultId'
  BY <1>1, <1>6 DEF Peer, PeerConnect, PeerHello, PeerRead, PeerDrop
<1>7. ASSUME NEW x \in Conns, Handler(x) PROVE ResultId'
  <2>1. CASE FailPending(x)
    BY <1>4, <2>1 DEF FailPending
  <2>2. CASE \/ SetActiveConn(x) \/ ReadHello(x) \/ SetConnected(x) \/ ReadError(x)
    BY <1>1, <2>2 DEF SetActiveConn, ReadHello, SetConnected, ReadError
  <2>3. CASE \/ ClearActiveConn(x) \/ ClearStaleConn(x)
             \/ LockForWelcome(x) \/ WriteWelcome(x)
    BY <1>1, <2>3 DEF ClearActiveConn, ClearStaleConn, LockForWelcome, WriteWelcome
  <2> QED  BY <1>3, <1>7, <2>1, <2>2, <2>3 DEF Handler
<1>8. ASSUME NEW c \in Calls, Accept(c) \/ Invoke(c) \/ Timeout(c) \/ Cancel(c)
      PROVE  ResultId'
  <2>1. CASE Reject(c) \/ SendFails(c) \/ Timeout(c) \/ Cancel(c)
    BY <1>1, <2>1 DEF Reject, SendFails, Timeout, Cancel, GiveUp
  <2>2. CASE Accept(c) \/ GetConn(c) \/ LockForInvoke(c) \/ SendInvoke(c)
    BY <1>1, <2>2 DEF Accept, GetConn, LockForInvoke, SendInvoke
  <2>3. CASE \/ ReceiveResult(c) \/ ReceiveError(c)
             \/ WrapPendingError(c) \/ WriteToolError(c)
    BY <1>1, <2>3 DEF ReceiveResult, ReceiveError, WrapPendingError, WriteToolError
  <2> QED  BY <1>2, <1>8, <2>1, <2>2, <2>3 DEF Invoke
<1>9. CASE Stop \/ Shutdown
  <2>1. CASE ShutdownFail
    BY <1>4, <2>1 DEF ShutdownFail
  <2>2. CASE Stop \/ ShutdownHTTP \/ ShutdownWS \/ Exit
    BY <1>1, <2>2 DEF Stop, ShutdownHTTP, ShutdownWS, Exit
  <2> QED  BY <1>9, <2>1, <2>2 DEF Shutdown
<1> QED  BY <1>5, <1>6, <1>7, <1>8, <1>9 DEF Next

\* Only wrapPendingError writes the shared error, for a call that holds it.
LEMMA ErrIdStep ==
    ASSUME IInv, [Next]_vars
    PROVE  \/ UNCHANGED errId
           \/ \E c \in Calls : /\ reply[c].kind = "error"
                              /\ errId' = [errId EXCEPT ![reply[c].batch] = reqId[c]]
<1> USE DEF serverVars, storeVars, callVars, connVars, wireVars
<1>1. CASE UNCHANGED vars
  BY <1>1 DEF vars
<1>2. ASSUME NEW x \in Conns, Peer(x) PROVE UNCHANGED errId
  BY <1>2 DEF Peer, PeerConnect, PeerHello, PeerRead, PeerDrop
<1>3. ASSUME NEW x \in Conns, Handler(x) PROVE UNCHANGED errId
  <2>1. CASE SetActiveConn(x) \/ ReadHello(x) \/ SetConnected(x) \/ ReadResult(x) \/ ReadError(x)
    BY <2>1 DEF SetActiveConn, ReadHello, SetConnected, ReadResult, ReadError
  <2>2. CASE \/ ClearActiveConn(x) \/ ClearStaleConn(x) \/ FailPending(x)
             \/ LockForWelcome(x) \/ WriteWelcome(x)
    BY <2>2 DEF ClearActiveConn, ClearStaleConn, FailPending, LockForWelcome, WriteWelcome
  <2> QED  BY <1>3, <2>1, <2>2 DEF Handler
<1>4. ASSUME NEW c \in Calls, Accept(c) \/ Invoke(c) \/ Timeout(c) \/ Cancel(c)
      PROVE  \/ UNCHANGED errId
             \/ /\ reply[c].kind = "error"
                /\ errId' = [errId EXCEPT ![reply[c].batch] = reqId[c]]
  <2>1. CASE WrapPendingError(c)
    BY <2>1 DEF WrapPendingError, IInv, CallInv, ErrorHeld
  <2>2. CASE Reject(c) \/ SendFails(c) \/ Timeout(c) \/ Cancel(c)
    BY <2>2 DEF Reject, SendFails, Timeout, Cancel, GiveUp
  <2>3. CASE Accept(c) \/ GetConn(c) \/ Register(c) \/ LockForInvoke(c) \/ SendInvoke(c)
    BY <2>3 DEF Accept, GetConn, Register, LockForInvoke, SendInvoke
  <2>4. CASE ReceiveResult(c) \/ ReceiveError(c) \/ WriteToolError(c)
    BY <2>4 DEF ReceiveResult, ReceiveError, WriteToolError
  <2> QED  BY <1>4, <2>1, <2>2, <2>3, <2>4 DEF Invoke
<1>5. CASE Stop \/ Shutdown
  BY <1>5 DEF Stop, Shutdown, ShutdownHTTP, ShutdownWS, ShutdownFail, Exit
<1> QED  BY <1>1, <1>2, <1>3, <1>4, <1>5 DEF Next

\* A call's id does not change once it has been answered.
LEMMA IdsKept ==
    ASSUME IInv, [Next]_vars
    PROVE  \A c \in Calls : pc[c] = "done" => reqId'[c] = reqId[c]
<1> USE DEF serverVars, storeVars, callVars, connVars, wireVars
<1>1. CASE UNCHANGED vars
  BY <1>1 DEF vars
<1>2. ASSUME NEW x \in Conns, Peer(x) PROVE UNCHANGED reqId
  BY <1>2 DEF Peer, PeerConnect, PeerHello, PeerRead, PeerDrop
<1>3. ASSUME NEW x \in Conns, Handler(x) PROVE UNCHANGED reqId
  <2>1. CASE SetActiveConn(x) \/ ReadHello(x) \/ SetConnected(x) \/ ReadResult(x) \/ ReadError(x)
    BY <2>1 DEF SetActiveConn, ReadHello, SetConnected, ReadResult, ReadError
  <2>2. CASE \/ ClearActiveConn(x) \/ ClearStaleConn(x) \/ FailPending(x)
             \/ LockForWelcome(x) \/ WriteWelcome(x)
    BY <2>2 DEF ClearActiveConn, ClearStaleConn, FailPending, LockForWelcome, WriteWelcome
  <2> QED  BY <1>3, <2>1, <2>2 DEF Handler
<1>4. ASSUME NEW c \in Calls, Accept(c) \/ Invoke(c) \/ Timeout(c) \/ Cancel(c)
      PROVE  \A d \in Calls : pc[d] = "done" => reqId'[d] = reqId[d]
  <2>1. CASE Register(c)
    BY <2>1 DEF Register, IInv, TypeOK
  <2>2. CASE Reject(c) \/ SendFails(c) \/ Timeout(c) \/ Cancel(c)
    BY <2>2 DEF Reject, SendFails, Timeout, Cancel, GiveUp
  <2>3. CASE Accept(c) \/ GetConn(c) \/ LockForInvoke(c) \/ SendInvoke(c)
    BY <2>3 DEF Accept, GetConn, LockForInvoke, SendInvoke
  <2>4. CASE ReceiveResult(c) \/ ReceiveError(c) \/ WrapPendingError(c) \/ WriteToolError(c)
    BY <2>4 DEF ReceiveResult, ReceiveError, WrapPendingError, WriteToolError
  <2> QED  BY <1>4, <2>1, <2>2, <2>3, <2>4 DEF Invoke
<1>5. CASE Stop \/ Shutdown
  BY <1>5 DEF Stop, Shutdown, ShutdownHTTP, ShutdownWS, ShutdownFail, Exit
<1> QED  BY <1>1, <1>2, <1>3, <1>4, <1>5 DEF Next

LEMMA IdStep == IInv /\ IdInv /\ [Next]_vars => IdInv'
<1> SUFFICES ASSUME IInv, IdInv, [Next]_vars PROVE IdInv'
  OBVIOUS
<1>1. \A d \in Calls : reply[d] # NoReply => reply'[d] = reply[d] /\ reqId'[d] = reqId[d]
  BY ReplyStable
<1>2. \A c \in Calls : \/ answer'[c] = answer[c] /\ (pc[c] = "done" => pc'[c] = "done")
                       \/ GivesAnswer(c)
  BY AnswerStep DEF IdInv
<1>3. \A c \in Calls : reply[c].kind = "error" =>
          /\ reply[c] # NoReply /\ reply[c].batch \in Conns \cup {Daemon}
          /\ reply[c] = [kind |-> "error", batch |-> reply[c].batch]
  BY DEF IInv, TypeOK, Reply, NoReply
<1>4. ErrIdHeld'
  <2> SUFFICES ASSUME NEW b \in Conns \cup {Daemon}, errId'[b] # 0
               PROVE  \E d \in Calls : /\ reqId'[d] = errId'[b]
                                      /\ reply'[d] = [kind |-> "error", batch |-> b]
    BY DEF ErrIdHeld
  <2>1. \E d \in Calls : reqId[d] = errId'[b] /\ reply[d] = [kind |-> "error", batch |-> b]
    <3>1. CASE errId'[b] = errId[b]
      BY <3>1 DEF IdInv, ErrIdHeld
    <3>2. ASSUME NEW c \in Calls, reply[c].kind = "error", errId'[b] # errId[b],
                 errId' = [errId EXCEPT ![reply[c].batch] = reqId[c]]
          PROVE  \E d \in Calls : reqId[d] = errId'[b] /\ reply[d] = [kind |-> "error", batch |-> b]
      <4>1. reply[c].batch = b /\ errId'[b] = reqId[c]
        BY <3>2 DEF IInv, TypeOK
      <4> QED  BY <1>3, <3>2, <4>1
    <3> QED  BY <3>1, <3>2, ErrIdStep
  <2>2. [kind |-> "error", batch |-> b] # NoReply
    BY DEF NoReply
  <2> QED  BY <1>1, <2>1, <2>2
<1>5. ResultId'
  BY ReplyStep DEF IdInv
<1>6. AnsweredDone'
  BY <1>2 DEF IdInv, AnsweredDone, GivesAnswer
<1>7. OtherIdIsShared'
  <2> SUFFICES ASSUME NEW c \in Calls, answer'[c] # NoAnswer,
                      answer'[c].id \notin {0, reqId'[c]}
               PROVE  /\ answer'[c].code \in {"disconnected", "shutting_down"}
                      /\ reply'[c].kind = "error"
                      /\ \E d \in Calls \ {c} : reqId'[d] = answer'[c].id /\ reply'[d] = reply'[c]
    BY DEF OtherIdIsShared
  <2>1. CASE answer'[c] = answer[c]
    <3>1. pc[c] = "done"
      BY <2>1 DEF IdInv, AnsweredDone
    <3>2. reqId'[c] = reqId[c]
      BY <3>1, IdsKept
    <3>3. /\ answer[c].code \in {"disconnected", "shutting_down"}
          /\ reply[c].kind = "error"
          /\ \E d \in Calls \ {c} : reqId[d] = answer[c].id /\ reply[d] = reply[c]
      BY <2>1, <3>2 DEF IdInv, OtherIdIsShared
    <3> QED  BY <1>1, <1>3, <2>1, <3>3
  <2>2. CASE GivesAnswer(c)
    <3>1. /\ pc[c] = "failing"
          /\ answer'[c] = Fail(BatchCode(reply[c].batch), errId[reply[c].batch])
      BY <2>2 DEF GivesAnswer
    <3>2. reply[c].kind = "error"
      BY <3>1 DEF IInv, CallInv, ErrorHeld
    <3>3. /\ answer'[c].code \in {"disconnected", "shutting_down"}
          /\ answer'[c].id = errId[reply[c].batch] /\ errId[reply[c].batch] # 0
      BY <3>1 DEF Fail, BatchCode
    <3>4. \E d \in Calls : reqId[d] = answer'[c].id /\ reply[d] = reply[c]
      <4>1. reply[c].batch \in Conns \cup {Daemon} /\ errId[reply[c].batch] # 0
        BY <1>3, <3>2, <3>3
      <4>2. PICK d \in Calls : /\ reqId[d] = errId[reply[c].batch]
                              /\ reply[d] = [kind |-> "error", batch |-> reply[c].batch]
        BY <4>1 DEF IdInv, ErrIdHeld
      <4> QED  BY <1>3, <3>2, <3>3, <4>2
    <3> QED  BY <1>1, <1>3, <3>2, <3>3, <3>4
  <2> QED  BY <1>2, <2>1, <2>2
<1> QED  BY <1>4, <1>5, <1>6, <1>7 DEF IdInv

\* A response with another call's request id is one of the waiters that the same
\* disconnection, or the same shutdown, failed together.
THEOREM IdCorrect == Spec => []SharedErrorId
<1>1. IdInv => SharedErrorId
  BY DEF IdInv, OtherIdIsShared, SharedErrorId
<1> QED  BY <1>1, IdInit, IdStep, Invariance, PTL DEF Spec
-----------------------------------------------------------------------------
(* The broker implements ToolCall.  What a caller is told must agree with  *)
(* what the plugin ran, so the invariant follows a call over the wire: one *)
(* message asks for it, the plugin runs it when it takes that message, and *)
(* only then can a result of it be on its way back, with the call's own id.*)

RefusalCodes == {"not_connected", "validation", "send_failed"}

WasSent(c) ==
    \/ pc[c] \in {"waiting", "wrapping", "failing"}
    \/ pc[c] = "done" /\ answer[c].code \notin RefusalCodes

IsInvoke(m) == m.type = "tool_invoke"
IsResult(m) == m.type = "tool_result"

\* m is about a call that was sent, under its id, and that ran so often.
About(m, times) ==
    /\ m.call \in Calls /\ WasSent(m.call)
    /\ m.id = reqId[m.call] /\ executed[m.call] = times

InvokesWait ==
    \A x \in Conns : \A i \in 1 .. Len(toPeer[x]) :
        IsInvoke(toPeer[x][i]) => About(toPeer[x][i], 0)

InvokedOnce ==
    \A x, y \in Conns : \A i \in 1 .. Len(toPeer[x]), j \in 1 .. Len(toPeer[y]) :
        /\ IsInvoke(toPeer[x][i]) /\ IsInvoke(toPeer[y][j])
        /\ toPeer[x][i].call = toPeer[y][j].call
        => x = y /\ i = j

ResultsRan ==
    \A x \in Conns : \A i \in 1 .. Len(toDaemon[x]) :
        IsResult(toDaemon[x][i]) => About(toDaemon[x][i], 1)

RanOnce == \A c \in Calls : executed[c] = 0 \/ (executed[c] = 1 /\ WasSent(c))

RepliesRan ==
    \A c \in Calls : reply[c].kind = "result" => reply[c].of = c /\ executed[c] = 1

WireInv == InvokesWait /\ InvokedOnce /\ ResultsRan /\ RanOnce /\ RepliesRan

LEMMA WireInit == Init => WireInv
<1> SUFFICES ASSUME Init PROVE WireInv
  OBVIOUS
<1>1. /\ \A x \in Conns : toPeer[x] = <<>> /\ toDaemon[x] = <<>>
      /\ \A c \in Calls : executed[c] = 0 /\ reply[c] = NoReply
  BY DEF Init
<1>2. Len(<<>>) = 0 /\ 1 .. 0 = {}
  OBVIOUS
<1>3. NoReply.kind # "result"
  BY DEF NoReply
<1> QED  BY <1>1, <1>2, <1>3 DEF WireInv, InvokesWait, InvokedOnce, ResultsRan, RanOnce, RepliesRan

\* Where the messages of a family of channels are after one more was sent,
\* and after the first of a channel was taken.
LEMMA SentPlaces ==
    ASSUME NEW S, NEW D, NEW q \in [D -> Seq(S)], NEW d \in D, NEW e \in S,
           NEW r, r = [q EXCEPT ![d] = Append(@, e)], NEW x \in D, NEW i \in 1 .. Len(r[x])
    PROVE  \/ i \in 1 .. Len(q[x]) /\ r[x][i] = q[x][i]
           \/ x = d /\ i = Len(q[x]) + 1 /\ r[x][i] = e
<1>1. CASE x = d
  <2>1. q[d] \in Seq(S) /\ r[x] = Append(q[d], e)
    BY <1>1
  <2>2. Len(r[x]) = Len(q[d]) + 1 /\ Len(q[d]) \in Nat
    BY <2>1
  <2>3. CASE i <= Len(q[d])
    BY <1>1, <2>1, <2>2, <2>3, AppendProperties
  <2>4. CASE i = Len(q[d]) + 1
    BY <1>1, <2>1, <2>2, <2>4, AppendProperties
  <2> QED  BY <2>2, <2>3, <2>4
<1>2. CASE x # d
  BY <1>2
<1> QED  BY <1>1, <1>2

LEMMA TakenPlaces ==
    ASSUME NEW S, NEW D, NEW q \in [D -> Seq(S)], NEW d \in D, q[d] # <<>>,
           NEW r, r = [q EXCEPT ![d] = Tail(@)], NEW x \in D, NEW i \in 1 .. Len(r[x])
    PROVE  \E j \in 1 .. Len(q[x]) : /\ r[x][i] = q[x][j]
                                     /\ j = IF x = d THEN i + 1 ELSE i
<1>1. CASE x = d
  <2>1. q[d] \in Seq(S) /\ r[x] = Tail(q[d])
    BY <1>1
  <2>2. /\ Len(Tail(q[d])) = Len(q[d]) - 1
        /\ \A k \in 1 .. Len(Tail(q[d])) : Tail(q[d])[k] = q[d][k + 1]
    BY <2>1, HeadTailProperties
  <2> QED  BY <1>1, <2>1, <2>2
<1>2. CASE x # d
  BY <1>2
<1> QED  BY <1>1, <1>2

\* The head of a channel is its first message.
LEMMA FirstPlace ==
    ASSUME NEW S, NEW s \in Seq(S), s # <<>>
    PROVE  1 \in 1 .. Len(s) /\ Head(s) = s[1]
OBVIOUS

-----------------------------------------------------------------------------
(* What a step does to calls                                               *)

\* A call that was sent stays so, and keeps its id.
LEMMA SentStays ==
    ASSUME IInv, [Next]_vars, NEW c \in Calls, WasSent(c)
    PROVE  WasSent(c)' /\ reqId'[c] = reqId[c]
<1> USE DEF serverVars, storeVars, callVars, connVars, wireVars
<1>0. TypeOK
  BY DEF IInv
<1>1. CASE UNCHANGED <<pc, answer, reqId>>
  BY <1>1 DEF WasSent
<1>2. CASE UNCHANGED vars
  BY <1>1, <1>2 DEF vars
<1>3. ASSUME NEW x \in Conns, Peer(x) PROVE UNCHANGED <<pc, answer, reqId>>
  BY <1>3 DEF Peer, PeerConnect, PeerHello, PeerRead, PeerDrop
<1>4. ASSUME NEW x \in Conns, Handler(x) PROVE UNCHANGED <<pc, answer, reqId>>
  <2>1. CASE SetActiveConn(x) \/ ReadHello(x) \/ SetConnected(x) \/ ReadResult(x) \/ ReadError(x)
    BY <2>1 DEF SetActiveConn, ReadHello, SetConnected, ReadResult, ReadError
  <2>2. CASE \/ ClearActiveConn(x) \/ ClearStaleConn(x) \/ FailPending(x)
             \/ LockForWelcome(x) \/ WriteWelcome(x)
    BY <2>2 DEF ClearActiveConn, ClearStaleConn, FailPending, LockForWelcome, WriteWelcome
  <2> QED  BY <1>4, <2>1, <2>2 DEF Handler
<1>5. ASSUME NEW d \in Calls, Accept(d) \/ Invoke(d) \/ Timeout(d) \/ Cancel(d)
      PROVE  WasSent(c)' /\ reqId'[c] = reqId[c]
  <2>0. CASE Accept(d)
    BY <1>0, <2>0 DEF Accept, TypeOK, WasSent
  <2>1. CASE GetConn(d)
    BY <1>0, <2>1 DEF GetConn, TypeOK, WasSent
  <2>2. CASE Reject(d) \/ SendFails(d)
    <3>1. /\ pc[d] \in {"invalid", "registered", "sending"} /\ UNCHANGED reqId
          /\ \E code : /\ answer' = [answer EXCEPT ![d] = Fail(code, reqId[d])]
                       /\ pc' = [pc EXCEPT ![d] = "done"]
      BY <2>2 DEF Reject, SendFails, GiveUp
    <3> QED  BY <1>0, <3>1 DEF TypeOK, WasSent
  <2>3. CASE Timeout(d) \/ Cancel(d)
    <3>1. /\ UNCHANGED reqId
          /\ \E code \in {"timeout", "cancelled"} :
                 /\ answer' = [answer EXCEPT ![d] = Fail(code, reqId[d])]
                 /\ pc' = [pc EXCEPT ![d] = "done"]
      BY <2>3 DEF Timeout, Cancel, GiveUp
    <3> QED  BY <1>0, <3>1 DEF TypeOK, WasSent, Fail, RefusalCodes
  <2>4. CASE Register(d)
    BY <1>0, <2>4 DEF Register, Checked, TypeOK, WasSent
  <2>5. CASE LockForInvoke(d) \/ SendInvoke(d)
    BY <1>0, <2>5 DEF LockForInvoke, SendInvoke, TypeOK, WasSent
  <2>6. CASE ReceiveError(d) \/ WrapPendingError(d)
    BY <1>0, <2>6 DEF ReceiveError, WrapPendingError, TypeOK, WasSent
  <2>7. CASE ReceiveResult(d)
    BY <1>0, <2>7 DEF ReceiveResult, TypeOK, WasSent, RefusalCodes
  <2>8. CASE WriteToolError(d)
    BY <1>0, <2>8 DEF WriteToolError, TypeOK, WasSent, Fail, BatchCode, RefusalCodes
  <2> QED  BY <1>5, <2>0, <2>1, <2>2, <2>3, <2>4, <2>5, <2>6, <2>7, <2>8 DEF Invoke
<1>6. CASE Stop \/ Shutdown
  <2>1. CASE Exit
    BY <1>0, <2>1 DEF Exit, Idle, Fail, TypeOK, WasSent, RefusalCodes
  <2>2. CASE Stop \/ ShutdownHTTP \/ ShutdownWS \/ ShutdownFail
    BY <1>1, <2>2 DEF Stop, ShutdownHTTP, ShutdownWS, ShutdownFail
  <2> QED  BY <1>6, <2>1, <2>2 DEF Shutdown
<1> QED  BY <1>1, <1>2, <1>3, <1>4, <1>5, <1>6 DEF Next

\* What was said about a call stays true as long as it does not run.
LEMMA AboutStays ==
    ASSUME IInv, [Next]_vars, NEW m, NEW times, About(m, times),
           executed'[m.call] = executed[m.call]
    PROVE  About(m, times)'
BY SentStays DEF About

-----------------------------------------------------------------------------
(* Steps that leave the wire alone                                         *)

LEMMA WireRests ==
    ASSUME IInv, WireInv, [Next]_vars, UNCHANGED executed,
           \A x \in Conns : toPeer'[x] \in {toPeer[x], <<>>},
           \A x \in Conns : toDaemon'[x] \in {toDaemon[x], <<>>},
           \A c \in Calls : reply'[c] = reply[c] \/ reply'[c].kind # "result"
    PROVE  WireInv'
<1>1. Len(<<>>) = 0 /\ 1 .. 0 = {}
  OBVIOUS
<1>2. InvokesWait'
  BY <1>1, AboutStays DEF WireInv, InvokesWait
<1>3. InvokedOnce'
  BY <1>1 DEF WireInv, InvokedOnce
<1>4. ResultsRan'
  BY <1>1, AboutStays DEF WireInv, ResultsRan
<1>5. RanOnce'
  BY SentStays DEF WireInv, RanOnce
<1>6. RepliesRan'
  BY DEF WireInv, RepliesRan
<1> QED  BY <1>2, <1>3, <1>4, <1>5, <1>6 DEF WireInv

\* A message that asks for no tool joins those to a plugin.
LEMMA WireWelcome ==
    ASSUME IInv, WireInv, [Next]_vars, NEW x \in Conns, WriteWelcome(x)
    PROVE  WireInv'
<1> USE DEF storeVars, callVars, connVars
<1>1. /\ UNCHANGED <<executed, toDaemon, reply>>
      /\ \/ UNCHANGED toPeer
         \/ toPeer' = [toPeer EXCEPT ![x] = Append(@, Plain("welcome"))]
  BY DEF WriteWelcome, Sent
<1>2. CASE UNCHANGED toPeer
  BY <1>1, <1>2, WireRests
<1>3. CASE toPeer' = [toPeer EXCEPT ![x] = Append(@, Plain("welcome"))]
  <2>1. toPeer \in [Conns -> Seq(Message)] /\ Plain("welcome") \in Message
    BY MessageTypes DEF IInv, TypeOK
  <2>2. ~IsInvoke(Plain("welcome"))
    BY DEF IsInvoke, Plain
  <2>3. \A y \in Conns : \A i \in 1 .. Len(toPeer'[y]) : IsInvoke(toPeer'[y][i]) =>
            i \in 1 .. Len(toPeer[y]) /\ toPeer'[y][i] = toPeer[y][i]
    BY <1>3, <2>1, <2>2, SentPlaces
  <2>4. InvokesWait'
    BY <1>1, <2>3, AboutStays DEF WireInv, InvokesWait
  <2>5. InvokedOnce'
    BY <2>3 DEF WireInv, InvokedOnce
  <2>6. ResultsRan'
    BY <1>1, AboutStays DEF WireInv, ResultsRan
  <2>7. RanOnce'
    BY <1>1, SentStays DEF WireInv, RanOnce
  <2>8. RepliesRan'
    BY <1>1 DEF WireInv, RepliesRan
  <2> QED  BY <2>4, <2>5, <2>6, <2>7, <2>8 DEF WireInv
<1> QED  BY <1>1, <1>2, <1>3

\* The call's message joins those to its plugin; nobody has asked for the call
\* before.
LEMMA WireSendInvoke ==
    ASSUME IInv, WireInv, [Next]_vars, NEW c \in Calls, SendInvoke(c)
    PROVE  WireInv'
<1> USE DEF storeVars, connVars, serverVars
<1>0. PICK m : m = ToolInvoke(c)
  OBVIOUS
<1>1. /\ UNCHANGED <<executed, toDaemon, reply, reqId>>
      /\ pc[c] = "sending" /\ pc' = [pc EXCEPT ![c] = "waiting"]
      /\ \/ UNCHANGED toPeer
         \/ toPeer' = [toPeer EXCEPT ![cc[c]] = Append(@, m)]
  BY <1>0 DEF SendInvoke, Sent
<1>2. ~WasSent(c) /\ WasSent(c)'
  BY <1>1 DEF WasSent, IInv, TypeOK
<1>3. executed[c] = 0
  BY <1>2 DEF WireInv, RanOnce
<1>4. CASE UNCHANGED toPeer
  BY <1>1, <1>4, WireRests
<1>5. CASE toPeer' = [toPeer EXCEPT ![cc[c]] = Append(@, m)] /\ cc[c] \in Conns
  <2>1. toPeer \in [Conns -> Seq(Message)] /\ m \in Message
    BY <1>0, MessageTypes DEF IInv, TypeOK
  <2>2. IsInvoke(m) /\ m.call = c /\ m.id = reqId[c]
    BY <1>0 DEF IsInvoke, ToolInvoke
  <2>3. About(m, 0)'
    BY <1>1, <1>2, <1>3, <2>2 DEF About
  <2>4. \A y \in Conns : \A i \in 1 .. Len(toPeer'[y]) :
            \/ i \in 1 .. Len(toPeer[y]) /\ toPeer'[y][i] = toPeer[y][i]
            \/ y = cc[c] /\ i = Len(toPeer[y]) + 1 /\ toPeer'[y][i] = m
    BY <1>5, <2>1, SentPlaces
  <2>5. InvokesWait'
    BY <1>1, <2>3, <2>4, AboutStays DEF WireInv, InvokesWait
  <2>6. \A y \in Conns : \A i \in 1 .. Len(toPeer[y]) :
            IsInvoke(toPeer[y][i]) => toPeer[y][i].call # c
    BY <1>2 DEF WireInv, InvokesWait, About
  <2>7. InvokedOnce'
    <3> SUFFICES ASSUME NEW y \in Conns, NEW z \in Conns,
                        NEW i \in 1 .. Len(toPeer'[y]), NEW j \in 1 .. Len(toPeer'[z]),
                        IsInvoke(toPeer'[y][i]), IsInvoke(toPeer'[z][j]),
                        toPeer'[y][i].call = toPeer'[z][j].call
                 PROVE  y = z /\ i = j
      BY DEF InvokedOnce
    <3>1. CASE /\ i \in 1 .. Len(toPeer[y]) /\ toPeer'[y][i] = toPeer[y][i]
               /\ j \in 1 .. Len(toPeer[z]) /\ toPeer'[z][j] = toPeer[z][j]
      <4>1. /\ IsInvoke(toPeer[y][i]) /\ IsInvoke(toPeer[z][j])
            /\ toPeer[y][i].call = toPeer[z][j].call
        BY <3>1
      <4> QED  BY <3>1, <4>1 DEF WireInv, InvokedOnce
    <3>2. CASE \/ i \in 1 .. Len(toPeer[y]) /\ toPeer'[y][i] = toPeer[y][i] /\ toPeer'[z][j] = m
               \/ j \in 1 .. Len(toPeer[z]) /\ toPeer'[z][j] = toPeer[z][j] /\ toPeer'[y][i] = m
      BY <2>2, <2>6, <3>2
    <3> QED  BY <2>4, <3>1, <3>2
  <2>8. ResultsRan'
    BY <1>1, AboutStays DEF WireInv, ResultsRan
  <2>9. RanOnce'
    BY <1>1, SentStays DEF WireInv, RanOnce
  <2>10. RepliesRan'
    BY <1>1 DEF WireInv, RepliesRan
  <2> QED  BY <2>5, <2>7, <2>8, <2>9, <2>10 DEF WireInv
<1>6. CASE toPeer' = [toPeer EXCEPT ![cc[c]] = Append(@, m)] /\ cc[c] \notin Conns
  BY <1>1, <1>6, WireRests DEF IInv, TypeOK
<1> QED  BY <1>1, <1>4, <1>5, <1>6

\* A hello, which is no result, joins what a plugin has sent.
LEMMA WireHello ==
    ASSUME IInv, WireInv, [Next]_vars, NEW x \in Conns, PeerHello(x)
    PROVE  WireInv'
<1> USE DEF storeVars, callVars, connVars
<1>1. /\ UNCHANGED <<executed, toPeer, reply>>
      /\ toDaemon' = [toDaemon EXCEPT ![x] = Append(@, Plain("hello"))]
  BY DEF PeerHello
<1>2. toDaemon \in [Conns -> Seq(Message)] /\ Plain("hello") \in Message
  BY MessageTypes DEF IInv, TypeOK
<1>3. ~IsResult(Plain("hello"))
  BY DEF IsResult, Plain
<1>4. \A y \in Conns : \A i \in 1 .. Len(toDaemon'[y]) : IsResult(toDaemon'[y][i]) =>
          i \in 1 .. Len(toDaemon[y]) /\ toDaemon'[y][i] = toDaemon[y][i]
  BY <1>1, <1>2, <1>3, SentPlaces
<1>5. InvokesWait' /\ InvokedOnce'
  BY <1>1, AboutStays DEF WireInv, InvokesWait, InvokedOnce
<1>6. ResultsRan'
  BY <1>1, <1>4, AboutStays DEF WireInv, ResultsRan
<1>7. RanOnce' /\ RepliesRan'
  BY <1>1, SentStays DEF WireInv, RanOnce, RepliesRan
<1> QED  BY <1>5, <1>6, <1>7 DEF WireInv

\* The daemon takes a message that a plugin has sent.
LEMMA DaemonTakes ==
    ASSUME IInv, WireInv, [Next]_vars, NEW x \in Conns, toDaemon[x] # <<>>,
           toDaemon' = [toDaemon EXCEPT ![x] = Tail(@)], UNCHANGED <<executed, toPeer>>,
           RepliesRan'
    PROVE  WireInv'
<1>1. toDaemon \in [Conns -> Seq(Message)]
  BY DEF IInv, TypeOK
<1>2. \A y \in Conns : \A i \in 1 .. Len(toDaemon'[y]) :
          \E j \in 1 .. Len(toDaemon[y]) : toDaemon'[y][i] = toDaemon[y][j]
  BY <1>1, TakenPlaces
<1>3. ResultsRan'
  BY <1>2, AboutStays DEF WireInv, ResultsRan
<1>4. InvokesWait' /\ InvokedOnce'
  BY AboutStays DEF WireInv, InvokesWait, InvokedOnce
<1>5. RanOnce'
  BY SentStays DEF WireInv, RanOnce
<1> QED  BY <1>3, <1>4, <1>5 DEF WireInv

LEMMA WireReadHello ==
    ASSUME IInv, WireInv, [Next]_vars, NEW x \in Conns, ReadHello(x)
    PROVE  WireInv'
<1>1. /\ toDaemon[x] # <<>> /\ toDaemon' = [toDaemon EXCEPT ![x] = Tail(@)]
      /\ UNCHANGED <<executed, toPeer, reply>>
  BY DEF ReadHello, callVars
<1>2. RepliesRan'
  BY <1>1 DEF WireInv, RepliesRan
<1> QED  BY <1>1, <1>2, DaemonTakes

\* A result reaches the call that it is of, as no other has its id.
LEMMA WireReadResult ==
    ASSUME IInv, WireInv, [Next]_vars, NEW x \in Conns, ReadResult(x)
    PROVE  WireInv'
<1> DEFINE m == Head(toDaemon[x])
<1>1. /\ toDaemon[x] # <<>> /\ IsResult(m)
      /\ toDaemon' = [toDaemon EXCEPT ![x] = Tail(@)]
      /\ UNCHANGED <<executed, toPeer, reqId>> /\ Running
      /\ reply' = [c \in Calls |->
                     IF c \in Registered(m.id)
                     THEN [kind |-> "result", id |-> m.id, of |-> m.call]
                     ELSE reply[c]]
  BY DEF ReadResult, IsResult
<1>2. toDaemon[x] \in Seq(Message)
  BY DEF IInv, TypeOK
<1>3. About(m, 1)
  BY <1>1, <1>2, FirstPlace DEF WireInv, ResultsRan
<1> HIDE DEF m
<1>4. \A c \in Registered(m.id) : c = m.call
  <2> SUFFICES ASSUME NEW c \in Registered(m.id) PROVE c = m.call
    OBVIOUS
  <2>1. c \in pending /\ reqId[c] = m.id
    BY DEF Registered
  <2>2. c \in InFlight
    BY <1>1, <2>1 DEF IInv, CallInv, PendingIsUnanswered
  <2>3. reqId[c] # 0
    BY <2>2 DEF InFlight, IInv, CallInv, Issued
  <2> QED  BY <1>3, <2>1, <2>2, <2>3 DEF About, InFlight, IInv, CallInv, Ids
<1>5. RepliesRan'
  BY <1>1, <1>3, <1>4 DEF WireInv, RepliesRan, About
<1> QED  BY <1>1, <1>5, DaemonTakes

\* The plugin takes a message; what it asks for runs then, and what was asked
\* for elsewhere is another call.
LEMMA WirePeerRead ==
    ASSUME IInv, WireInv, [Next]_vars, NEW x \in Conns, PeerRead(x)
    PROVE  WireInv'
<1> USE DEF storeVars, callVars, connVars
<1>0. PICK m : m = Head(toPeer[x])
  OBVIOUS
<1>1. /\ toPeer[x] # <<>> /\ toPeer' = [toPeer EXCEPT ![x] = Tail(@)]
      /\ executed' = IF IsInvoke(m) THEN [executed EXCEPT ![m.call] = @ + 1] ELSE executed
      /\ \/ IsInvoke(m) /\ toDaemon' = [toDaemon EXCEPT ![x] = Append(@, ToolResult(m))]
         \/ UNCHANGED toDaemon
      /\ UNCHANGED <<reply, reqId, pc, answer>>
  BY <1>0 DEF PeerRead, IsInvoke
<1>2. toPeer \in [Conns -> Seq(Message)] /\ toDaemon \in [Conns -> Seq(Message)]
  BY DEF IInv, TypeOK
<1>3. m \in Message /\ 1 \in 1 .. Len(toPeer[x]) /\ m = toPeer[x][1]
  BY <1>0, <1>1, <1>2, FirstPlace
<1>4. IsInvoke(m) => About(m, 0)
  BY <1>3 DEF WireInv, InvokesWait
<1>5. ToolResult(m) \in Message /\ ToolResult(m).call = m.call /\ ToolResult(m).id = m.id
  BY <1>3, MessageTypes DEF ToolResult, IInv
<1>6. IsInvoke(m) => /\ m.call \in Calls /\ executed[m.call] = 0
                     /\ executed' = [executed EXCEPT ![m.call] = 1]
  <2> SUFFICES ASSUME IsInvoke(m) PROVE /\ m.call \in Calls /\ executed[m.call] = 0
                                        /\ executed' = [executed EXCEPT ![m.call] = 1]
    OBVIOUS
  <2>1. m.call \in Calls /\ executed[m.call] = 0
    BY <1>4 DEF About
  <2>2. executed' = [executed EXCEPT ![m.call] = executed[m.call] + 1]
    BY <1>1
  <2> QED  BY <2>1, <2>2
<1>7. \A y \in Conns : \A i \in 1 .. Len(toPeer'[y]) :
          \E j \in 1 .. Len(toPeer[y]) : /\ toPeer'[y][i] = toPeer[y][j]
                                         /\ j = IF y = x THEN i + 1 ELSE i
  BY <1>1, <1>2, TakenPlaces
<1>8. \A y \in Conns : Len(toPeer'[y]) \in Nat
  <2>1. toPeer' \in [Conns -> Seq(Message)]
    BY <1>1, <1>2, TailAt
  <2> QED  BY <2>1
<1>9. InvokesWait'
  <2> SUFFICES ASSUME NEW y \in Conns, NEW i \in 1 .. Len(toPeer'[y]),
                      IsInvoke(toPeer'[y][i])
               PROVE  About(toPeer[y][i], 0)'
    BY DEF InvokesWait
  <2>1. PICK j \in 1 .. Len(toPeer[y]) : /\ toPeer'[y][i] = toPeer[y][j]
                                         /\ j = IF y = x THEN i + 1 ELSE i
    BY <1>7
  <2> PICK e : e = toPeer[y][j]
    OBVIOUS
  <2>2. y # x \/ j # 1
    BY <1>8, <2>1
  <2>3. IsInvoke(m) => e.call # m.call
    BY <1>3, <2>1, <2>2 DEF WireInv, InvokedOnce
  <2>4. About(e, 0)
    BY <2>1 DEF WireInv, InvokesWait
  <2>5. executed'[e.call] = executed[e.call]
    BY <1>1, <1>6, <2>3, <2>4 DEF About, IInv, TypeOK
  <2>6. About(e, 0)'
    BY <1>1, <2>1, <2>4, <2>5 DEF About, WasSent
  <2> QED  BY <2>1, <2>6 DEF About
<1>10. InvokedOnce'
  <2> SUFFICES ASSUME NEW y \in Conns, NEW z \in Conns,
                      NEW i \in 1 .. Len(toPeer'[y]), NEW j \in 1 .. Len(toPeer'[z]),
                      IsInvoke(toPeer'[y][i]), IsInvoke(toPeer'[z][j]),
                      toPeer'[y][i].call = toPeer'[z][j].call
               PROVE  y = z /\ i = j
    BY DEF InvokedOnce
  <2>1. PICK k \in 1 .. Len(toPeer[y]) : /\ toPeer'[y][i] = toPeer[y][k]
                                         /\ k = IF y = x THEN i + 1 ELSE i
    BY <1>7
  <2>2. PICK l \in 1 .. Len(toPeer[z]) : /\ toPeer'[z][j] = toPeer[z][l]
                                         /\ l = IF z = x THEN j + 1 ELSE j
    BY <1>7
  <2>3. y = z /\ k = l
    <3>1. /\ IsInvoke(toPeer[y][k]) /\ IsInvoke(toPeer[z][l])
          /\ toPeer[y][k].call = toPeer[z][l].call
      BY <2>1, <2>2
    <3>2. InvokedOnce
      BY DEF WireInv
    <3> QED  BY ONLY y \in Conns, z \in Conns, k \in 1 .. Len(toPeer[y]),
                     l \in 1 .. Len(toPeer[z]), <3>1, <3>2 DEF InvokedOnce
  <2> QED  BY <1>8, <2>1, <2>2, <2>3
<1>11. \A c \in Calls : executed[c] = 1 => executed'[c] = 1
  BY <1>1, <1>6 DEF IInv, TypeOK
<1>12. ResultsRan'
  <2> SUFFICES ASSUME NEW y \in Conns, NEW i \in 1 .. Len(toDaemon'[y]),
                      IsResult(toDaemon'[y][i])
               PROVE  About(toDaemon[y][i], 1)'
    BY DEF ResultsRan
  <2>1. CASE i \in 1 .. Len(toDaemon[y]) /\ toDaemon'[y][i] = toDaemon[y][i]
    <3>1. About(toDaemon[y][i], 1)
      BY <2>1 DEF WireInv, ResultsRan
    <3>2. About(toDaemon[y][i], 1)'
      BY <1>1, <1>11, <2>1, <3>1 DEF About, WasSent
    <3> QED  BY <2>1, <3>2 DEF About
  <2>2. CASE IsInvoke(m) /\ toDaemon'[y][i] = ToolResult(m)
    <3>1. About(m, 0) /\ executed'[m.call] = 1
      BY <1>4, <1>6, <2>2 DEF IInv, TypeOK
    <3> QED  BY <1>1, <1>5, <2>2, <3>1 DEF About, WasSent
  <2>3. CASE UNCHANGED toDaemon
    BY <2>1, <2>3
  <2>4. CASE IsInvoke(m) /\ toDaemon' = [toDaemon EXCEPT ![x] = Append(@, ToolResult(m))]
    <3>1. ToolResult(m) \in Message
      BY <1>5
    <3> QED  BY <1>2, <2>1, <2>2, <2>4, <3>1, SentPlaces
  <2> QED  BY <1>1, <2>3, <2>4
<1>13. RanOnce'
  BY <1>1, <1>4, <1>6 DEF WireInv, RanOnce, About, WasSent, IInv, TypeOK
<1>14. RepliesRan'
  BY <1>1, <1>11 DEF WireInv, RepliesRan
<1> QED  BY <1>9, <1>10, <1>12, <1>13, <1>14 DEF WireInv

LEMMA WireStep == IInv /\ WireInv /\ [Next]_vars => WireInv'
<1> SUFFICES ASSUME IInv, WireInv, [Next]_vars PROVE WireInv'
  OBVIOUS
<1> USE DEF serverVars, storeVars, callVars, connVars, wireVars
<1> DEFINE Rests == UNCHANGED <<executed, toPeer, toDaemon, reply>>
<1>0. Rests => WireInv'
  BY WireRests
<1>1. CASE UNCHANGED vars
  BY <1>0, <1>1 DEF vars
<1>2. ASSUME NEW x \in Conns, Peer(x) PROVE WireInv'
  <2>1. CASE PeerConnect(x)
    BY <1>0, <2>1 DEF PeerConnect
  <2>2. CASE PeerDrop(x)
    <3>1. /\ UNCHANGED <<executed, toDaemon, reply>>
          /\ toPeer' = [toPeer EXCEPT ![x] = <<>>]
      BY <2>2 DEF PeerDrop
    <3>2. \A y \in Conns : toPeer'[y] \in {toPeer[y], <<>>}
      BY <3>1 DEF IInv, TypeOK
    <3> QED  BY <3>1, <3>2, WireRests
  <2> QED  BY <1>2, <2>1, <2>2, WireHello, WirePeerRead DEF Peer
<1>3. ASSUME NEW x \in Conns, Handler(x) PROVE WireInv'
  <2>1. CASE SetActiveConn(x) \/ SetConnected(x) \/ LockForWelcome(x)
    BY <1>0, <2>1 DEF SetActiveConn, SetConnected, LockForWelcome
  <2>2. CASE ClearActiveConn(x) \/ ClearStaleConn(x)
    BY <1>0, <2>2 DEF ClearActiveConn, ClearStaleConn
  <2>3. CASE FailPending(x)
    <3>1. /\ UNCHANGED <<executed, toPeer, toDaemon>>
          /\ \A c \in Calls : reply'[c] = reply[c] \/ reply'[c] = [kind |-> "error", batch |-> x]
      BY <2>3 DEF FailPending, FailAllPending
    <3> QED  BY <3>1, WireRests
  <2>4. CASE ReadError(x)
    <3>1. /\ UNCHANGED <<executed, toPeer, reply>>
          /\ toDaemon' = [toDaemon EXCEPT ![x] = <<>>]
      BY <2>4 DEF ReadError
    <3>2. \A y \in Conns : toDaemon'[y] \in {toDaemon[y], <<>>}
      BY <3>1 DEF IInv, TypeOK
    <3> QED  BY <3>1, <3>2, WireRests
  <2> QED  BY <1>3, <2>1, <2>2, <2>3, <2>4, WireReadHello, WireReadResult, WireWelcome DEF Handler
<1>4. ASSUME NEW c \in Calls, Accept(c) \/ Invoke(c) \/ Timeout(c) \/ Cancel(c)
      PROVE  WireInv'
  <2>1. CASE Accept(c) \/ GetConn(c) \/ Register(c) \/ LockForInvoke(c)
    BY <1>0, <2>1 DEF Accept, GetConn, Register, LockForInvoke
  <2>2. CASE Reject(c) \/ SendFails(c) \/ Timeout(c) \/ Cancel(c)
    BY <1>0, <2>2 DEF Reject, SendFails, Timeout, Cancel, GiveUp
  <2>3. CASE \/ ReceiveResult(c) \/ ReceiveError(c)
             \/ WrapPendingError(c) \/ WriteToolError(c)
    BY <1>0, <2>3 DEF ReceiveResult, ReceiveError, WrapPendingError, WriteToolError
  <2> QED  BY <1>4, <2>1, <2>2, <2>3, WireSendInvoke DEF Invoke
<1>5. CASE Stop \/ Shutdown
  <2>1. CASE ShutdownFail
    <3>1. /\ UNCHANGED <<executed, toPeer, toDaemon>>
          /\ \A c \in Calls : reply'[c] = reply[c] \/ reply'[c] = [kind |-> "error", batch |-> Daemon]
      BY <2>1 DEF ShutdownFail, FailAllPending
    <3> QED  BY <3>1, WireRests
  <2>2. CASE Stop \/ ShutdownHTTP \/ ShutdownWS \/ Exit
    BY <1>0, <2>2 DEF Stop, ShutdownHTTP, ShutdownWS, Exit
  <2> QED  BY <1>5, <2>1, <2>2 DEF Shutdown
<1> QED  BY <1>1, <1>2, <1>3, <1>4, <1>5 DEF Next

-----------------------------------------------------------------------------
(* The states of ToolCall                                                  *)

LEMMA StateOf ==
    \A c \in Calls :
        /\ pc[c] = "idle" => CallState(c) = "new"
        /\ pc[c] \notin {"idle", "done"} => CallState(c) = "open"
        /\ pc[c] = "done" =>
             /\ answer[c].code \in RefusalCodes => CallState(c) = "refused"
             /\ answer[c].code = "result" /\ answer[c].of = c => CallState(c) = "delivered"
             /\ answer[c].code = "result" => CallState(c) \in {"delivered", "misdelivered"}
             /\ answer[c].code \notin RefusalCodes \cup {"result"} => CallState(c) = "unknown"
BY DEF CallState, RefusalCodes

LEMMA NextStateOf ==
    \A c \in Calls :
        /\ pc'[c] = "idle" => CallState(c)' = "new"
        /\ pc'[c] \notin {"idle", "done"} => CallState(c)' = "open"
        /\ pc'[c] = "done" =>
             /\ answer'[c].code \in RefusalCodes => CallState(c)' = "refused"
             /\ answer'[c].code = "result" /\ answer'[c].of = c => CallState(c)' = "delivered"
             /\ answer'[c].code \notin RefusalCodes \cup {"result"} => CallState(c)' = "unknown"
BY DEF CallState, RefusalCodes

CallStates == [c \in Calls |-> CallState(c)]

\* A step in which one call moves maps to a step of that call's.
LEMMA OneMoves ==
    ASSUME NEW c \in Calls, \A d \in Calls \ {c} : pc'[d] = pc[d] /\ answer'[d] = answer[d]
    PROVE  CallStates' = [CallStates EXCEPT ![c] = CallState(c)']
<1>1. \A d \in Calls \ {c} : CallState(d)' = CallState(d)
  BY DEF CallState
<1> QED  BY <1>1 DEF CallStates

LEMMA NoneMoves ==
    ASSUME UNCHANGED <<pc, answer, executed>>
    PROVE  UNCHANGED <<CallStates, executed>>
BY DEF CallStates, CallState

\* A call that was answered with a result has its own, and has run.
Delivered ==
    \A c \in Calls : /\ CallStates[c] # "misdelivered"
                     /\ CallStates[c] = "delivered" => executed[c] = 1

LEMMA RefineInit == Init => ToolCallSpec!Init
<1> SUFFICES ASSUME Init PROVE ToolCallSpec!Init
  OBVIOUS
<1>1. \A c \in Calls : CallState(c) = "new"
  BY StateOf DEF Init
<1>2. executed = [c \in Calls |-> 0]
  BY DEF Init
<1> QED  BY <1>1, <1>2 DEF ToolCallSpec!Init

LEMMA RefineCall ==
    ASSUME IInv, WireInv, [Next]_vars, NEW c \in Calls,
           Accept(c) \/ Invoke(c) \/ Timeout(c) \/ Cancel(c)
    PROVE  [ToolCallSpec!Next]_<<CallStates, executed>>
<1> USE DEF serverVars, storeVars, callVars, connVars, wireVars
<1> DEFINE From(S, as) == CallState(c) \in S /\ CallState(c)' = as
           Alone == /\ \A d \in Calls \ {c} : pc'[d] = pc[d] /\ answer'[d] = answer[d]
                    /\ UNCHANGED executed
<1>0. TypeOK
  BY DEF IInv
<1>1. ASSUME Alone PROVE CallStates' = [CallStates EXCEPT ![c] = CallState(c)']
                         /\ CallStates[c] = CallState(c) /\ UNCHANGED executed
  BY <1>1, OneMoves DEF CallStates
<1>2. \A code : Alone /\ pc'[c] = "done" /\ answer'[c] = Fail(code, reqId[c])
                => answer'[c].code = code
  BY DEF Fail
<1>8. CASE Accept(c)
  <2>1. Alone /\ pc[c] = "idle" /\ pc'[c] = "accepted"
    BY <1>0, <1>8 DEF Accept, TypeOK
  <2>2. CallState(c) = "new" /\ CallState(c)' = "open"
    BY <2>1, StateOf, NextStateOf
  <2>3. ToolCallSpec!Open(c)
    BY <1>1, <2>1, <2>2 DEF ToolCallSpec!Open, ToolCallSpec!Answered, CallStates
  <2> QED  BY <2>3 DEF ToolCallSpec!Next
<1>3. CASE GetConn(c)
  <2>1. Alone /\ pc[c] = "accepted" /\ CallState(c) = "open"
    BY <1>0, <1>3, StateOf DEF GetConn, TypeOK
  <2>2. CASE conn = None
    <3>1. pc'[c] = "done" /\ answer'[c].code \in RefusalCodes
      BY <1>0, <1>3, <2>2 DEF GetConn, TypeOK, Fail, RefusalCodes
    <3>2. CallState(c)' = "refused"
      BY <3>1, NextStateOf
    <3>3. executed[c] = 0
      BY <2>1 DEF WireInv, RanOnce, WasSent
    <3>4. ToolCallSpec!Refuse(c)
      BY <1>1, <2>1, <3>2, <3>3 DEF ToolCallSpec!Refuse, ToolCallSpec!Answered, CallStates
    <3> QED  BY <3>4 DEF ToolCallSpec!Next
  <2>3. CASE conn # None
    <3>1. pc'[c] = "connected"
      BY <1>0, <1>3, <2>3 DEF GetConn, TypeOK
    <3>2. CallState(c)' = "open"
      BY <3>1, NextStateOf
    <3> QED  BY <1>1, <2>1, <3>2 DEF CallStates
  <2> QED  BY <2>2, <2>3
<1>4. CASE Reject(c) \/ SendFails(c)
  <2>1. /\ Alone /\ pc[c] \in {"invalid", "registered", "sending"} /\ pc'[c] = "done"
        /\ answer'[c].code \in RefusalCodes
    <3>1. /\ pc[c] \in {"invalid", "registered", "sending"} /\ UNCHANGED executed
          /\ GiveUp(c, "validation") \/ GiveUp(c, "send_failed")
      BY <1>4 DEF Reject, SendFails, GiveUp
    <3> QED  BY <1>0, <3>1 DEF GiveUp, TypeOK, Fail, RefusalCodes
  <2>2. CallState(c) = "open" /\ CallState(c)' = "refused"
    BY <2>1, StateOf, NextStateOf
  <2>3. executed[c] = 0
    BY <2>1 DEF WireInv, RanOnce, WasSent
  <2>4. ToolCallSpec!Refuse(c)
    BY <1>1, <2>1, <2>2, <2>3 DEF ToolCallSpec!Refuse, ToolCallSpec!Answered, CallStates
  <2> QED  BY <2>4 DEF ToolCallSpec!Next
<1>5. CASE Timeout(c) \/ Cancel(c) \/ WriteToolError(c)
  <2>1. /\ Alone /\ pc[c] \in {"waiting", "failing"} /\ pc'[c] = "done"
        /\ answer'[c].code \notin RefusalCodes \cup {"result"}
    <3>1. CASE Timeout(c) \/ Cancel(c)
      BY <1>0, <3>1 DEF Timeout, Cancel, GiveUp, TypeOK, Fail, RefusalCodes
    <3>2. CASE WriteToolError(c)
      BY <1>0, <3>2 DEF WriteToolError, BatchCode, TypeOK, Fail, RefusalCodes
    <3> QED  BY <1>5, <3>1, <3>2
  <2>2. CallState(c) = "open" /\ CallState(c)' = "unknown"
    BY <2>1, StateOf, NextStateOf
  <2>3. ToolCallSpec!GiveUp(c)
    BY <1>1, <2>1, <2>2 DEF ToolCallSpec!GiveUp, ToolCallSpec!Answered, CallStates
  <2> QED  BY <2>3 DEF ToolCallSpec!Next
<1>6. CASE ReceiveResult(c)
  <2>1. /\ Alone /\ pc[c] = "waiting" /\ pc'[c] = "done" /\ reply[c].kind = "result"
        /\ answer'[c] = [code |-> "result", id |-> reply[c].id, of |-> reply[c].of]
    BY <1>0, <1>6 DEF ReceiveResult, TypeOK
  <2>2. reply[c].of = c /\ executed[c] = 1
    BY <2>1 DEF WireInv, RepliesRan
  <2>3. CallState(c) = "open" /\ CallState(c)' = "delivered"
    BY <2>1, <2>2, StateOf, NextStateOf
  <2>4. ToolCallSpec!Deliver(c)
    BY <1>1, <2>1, <2>2, <2>3 DEF ToolCallSpec!Deliver, ToolCallSpec!Answered, CallStates
  <2> QED  BY <2>4 DEF ToolCallSpec!Next
<1>7. CASE \/ Register(c) \/ LockForInvoke(c) \/ SendInvoke(c)
           \/ ReceiveError(c) \/ WrapPendingError(c)
  <2>1. Alone /\ pc[c] \notin {"idle", "done"} /\ pc'[c] \notin {"idle", "done"}
    <3>1. CASE Register(c) \/ LockForInvoke(c) \/ SendInvoke(c)
      BY <1>0, <3>1 DEF Register, Checked, LockForInvoke, SendInvoke, TypeOK
    <3>2. CASE ReceiveError(c) \/ WrapPendingError(c)
      BY <1>0, <3>2 DEF ReceiveError, WrapPendingError, TypeOK
    <3> QED  BY <1>7, <3>1, <3>2
  <2>2. CallState(c) = "open" /\ CallState(c)' = "open"
    BY <2>1, StateOf, NextStateOf
  <2> QED  BY <1>1, <2>1, <2>2 DEF CallStates
<1> QED  BY <1>3, <1>4, <1>5, <1>6, <1>7, <1>8 DEF Invoke

LEMMA RefinePeer ==
    ASSUME IInv, WireInv, Delivered, [Next]_vars, NEW x \in Conns, Peer(x)
    PROVE  [ToolCallSpec!Next]_<<CallStates, executed>>
<1> USE DEF serverVars, storeVars, callVars, connVars, wireVars
<1>1. CASE PeerConnect(x) \/ PeerHello(x) \/ PeerDrop(x)
  BY <1>1, NoneMoves DEF PeerConnect, PeerHello, PeerDrop
<1>2. CASE PeerRead(x)
  <2> PICK m : m = Head(toPeer[x])
    OBVIOUS
  <2>1. /\ toPeer[x] # <<>> /\ toPeer[x] \in Seq(Message) /\ UNCHANGED <<pc, answer>>
        /\ executed' = IF IsInvoke(m) THEN [executed EXCEPT ![m.call] = @ + 1] ELSE executed
    BY <1>2 DEF PeerRead, IsInvoke, IInv, TypeOK
  <2>2. UNCHANGED CallStates
    BY <2>1 DEF CallStates, CallState
  <2>3. CASE ~IsInvoke(m)
    BY <2>1, <2>2, <2>3
  <2>4. CASE IsInvoke(m)
    <3>1. About(m, 0)
      BY <2>1, <2>4, FirstPlace DEF WireInv, InvokesWait
    <3>2. m.call \in Calls /\ executed[m.call] = 0 /\ WasSent(m.call)
      BY <3>1 DEF About
    <3>3. executed' = [executed EXCEPT ![m.call] = 1]
      BY <2>1, <2>4, <3>2
    <3>4. CallState(m.call) \in {"open", "unknown"}
      <4>1. CASE pc[m.call] # "done"
        BY <3>2, <4>1, StateOf DEF WasSent
      <4>2. CASE pc[m.call] = "done" /\ answer[m.call].code = "result"
        BY <3>2, <4>2, StateOf DEF Delivered, CallStates
      <4>3. CASE pc[m.call] = "done" /\ answer[m.call].code \notin RefusalCodes \cup {"result"}
        BY <3>2, <4>3, StateOf
      <4> QED  BY <3>2, <4>1, <4>2, <4>3 DEF WasSent
    <3>5. ToolCallSpec!Run(m.call)
      BY <2>2, <3>2, <3>3, <3>4 DEF ToolCallSpec!Run, CallStates
    <3> QED  BY <3>2, <3>5 DEF ToolCallSpec!Next
  <2> QED  BY <2>3, <2>4
<1> QED  BY <1>1, <1>2 DEF Peer

LEMMA RefineStep ==
    ASSUME IInv, WireInv, Delivered, [Next]_vars
    PROVE  [ToolCallSpec!Next]_<<CallStates, executed>>
<1> USE DEF serverVars, storeVars, callVars, connVars, wireVars
<1>1. CASE UNCHANGED vars
  BY <1>1, NoneMoves DEF vars
<1>2. ASSUME NEW x \in Conns, Handler(x) PROVE UNCHANGED <<CallStates, executed>>
  <2>1. CASE SetActiveConn(x) \/ ReadHello(x) \/ SetConnected(x) \/ ReadResult(x) \/ ReadError(x)
    BY <2>1, NoneMoves DEF SetActiveConn, ReadHello, SetConnected, ReadResult, ReadError
  <2>2. CASE \/ ClearActiveConn(x) \/ ClearStaleConn(x) \/ FailPending(x)
             \/ LockForWelcome(x) \/ WriteWelcome(x)
    BY <2>2, NoneMoves DEF ClearActiveConn, ClearStaleConn, FailPending, LockForWelcome, WriteWelcome
  <2> QED  BY <1>2, <2>1, <2>2 DEF Handler
<1>3. CASE Stop \/ ShutdownHTTP \/ ShutdownWS \/ ShutdownFail
  BY <1>3, NoneMoves DEF Stop, ShutdownHTTP, ShutdownWS, ShutdownFail
<1>4. CASE Exit
  <2>1. /\ UNCHANGED executed
        /\ \A c \in Calls :
             IF pc[c] \in {"idle", "done"} THEN pc'[c] = pc[c] /\ answer'[c] = answer[c]
             ELSE pc'[c] = "done" /\ answer'[c].code = "aborted"
    BY <1>4 DEF Exit, Idle, Fail
  <2>2. \A c \in Calls : pc[c] \in {"idle", "done"} =>
            CallState(c)' = CallState(c) /\ CallState(c) # "open"
    BY <2>1 DEF CallState
  <2>3. \A c \in Calls : pc[c] \notin {"idle", "done"} =>
            CallState(c)' = "unknown" /\ CallState(c) = "open"
    BY <2>1, StateOf, NextStateOf DEF RefusalCodes
  <2>4. ToolCallSpec!Abort
    BY <2>1, <2>2, <2>3 DEF ToolCallSpec!Abort
  <2> QED  BY <2>4 DEF ToolCallSpec!Next
<1> QED  BY <1>1, <1>2, <1>3, <1>4, RefineCall, RefinePeer DEF Next, Shutdown

LEMMA DeliveredStep ==
    ASSUME Delivered, [ToolCallSpec!Next]_<<CallStates, executed>>
    PROVE  Delivered'
<1>1. CASE UNCHANGED <<CallStates, executed>>
  BY <1>1 DEF Delivered
<1>2. ASSUME NEW c \in Calls, UNCHANGED executed,
             \E as \in {"open", "refused", "delivered", "unknown"} :
                 /\ CallStates' = [CallStates EXCEPT ![c] = as]
                 /\ as = "delivered" => executed[c] = 1
      PROVE  Delivered'
  BY <1>2 DEF Delivered, CallStates
<1>3. ASSUME NEW c \in Calls, ToolCallSpec!Run(c) PROVE Delivered'
  BY <1>3 DEF ToolCallSpec!Run, Delivered, CallStates
<1>4. CASE ToolCallSpec!Abort
  BY <1>4 DEF ToolCallSpec!Abort, Delivered, CallStates
<1> QED  BY <1>1, <1>2, <1>3, <1>4
      DEF ToolCallSpec!Next, ToolCallSpec!Open, ToolCallSpec!Refuse, ToolCallSpec!Deliver,
          ToolCallSpec!GiveUp, ToolCallSpec!Answered, CallStates

\* The broker implements what it promises its callers.
THEOREM Implementation == Spec => ImplementsToolCall
<1>1. Init => IInv /\ WireInv /\ Delivered /\ ToolCallSpec!Init
  <2>1. Init => Delivered
    BY RefineInit DEF ToolCallSpec!Init, Delivered, CallStates
  <2> QED  BY <2>1, TypeInit, CallInit, WireInit, RefineInit DEF IInv
<1>2. IInv /\ [Next]_vars => IInv'
  BY TypeStep, CallStep DEF IInv, CallInv
<1>3. IInv /\ WireInv /\ Delivered /\ [Next]_vars
      => WireInv' /\ Delivered' /\ [ToolCallSpec!Next]_<<CallStates, executed>>
  BY WireStep, RefineStep, DeliveredStep
<1> QED  BY <1>1, <1>2, <1>3, PTL
      DEF Spec, ImplementsToolCall, ToolCallSpec!Spec, CallStates, ToolCallSpec!vars
=============================================================================
