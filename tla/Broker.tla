------------------------------- MODULE Broker -------------------------------
(***************************************************************************)
(* The daemon's broker: cli/internal/daemon.  HTTP handlers (one goroutine *)
(* per tool call) and websocket handlers (one goroutine per plugin         *)
(* connection) share the active connection, the table of pending requests, *)
(* one write lock and the status store.                                    *)
(*                                                                         *)
(* The grain of atomicity is the lock: connMu, writeMu and pendingMu       *)
(* sections.  connMu and writeMu are variables, because code runs with     *)
(* them held (failAllPending under connMu, a socket write under writeMu);  *)
(* pendingMu and the store's mutex guard sections that never wait, and     *)
(* each such section is part of one action.                                *)
(***************************************************************************)
EXTENDS Integers, Sequences, FiniteSets

CONSTANTS
    Conns,     \* websocket connections, each of them made at most once
    Calls,     \* POST /tools/call requests
    WireCap,   \* messages the plugin's side of a socket can hold unread
    MayStop,   \* whether the daemon may be told to stop (a bound on runs)
    Daemon,    \* the daemon's shutdown, as a holder of connMu
    None

ASSUME BrokerAssumption ==
    /\ MayStop \in BOOLEAN
    /\ WireCap \in Nat \ {0}
    /\ Conns \cap Calls = {}
    /\ Daemon \notin Conns \cup Calls
    /\ None \notin Conns \cup Calls \cup {Daemon}

ASSUME FiniteCalls == IsFiniteSet(Calls)

VARIABLES
    conn,             \* Server.conn: the active connection
    connMu,           \* who holds connMu across steps
    writeMu,          \* who holds writeMu: a call, or a handler's connection
    pending,          \* Server.pending: the calls registered under their reqId
    nextId,           \* Server.requestID
    pluginConnected,  \* Store.pluginConnected
    advertiser,       \* the connection whose hello gave Store.project and tools
    pendingRequests,  \* Store.pendingRequests
    hpc,              \* per connection: where its handleWS is
    greeted,          \* connections whose hello reached SetConnected
    pc,               \* per call: where its InvokeTool is
    cc,               \* per call: its local variable conn, until its last use
    reqId,            \* per call: its requestID, 0 before it has one
    reply,            \* per call: what was sent on its pendingCh
    answer,           \* per call: the HTTP response
    errId,            \* RequestID of the *broker.Error a failAllPending shares
    link,             \* per connection: the state of its socket
    toPeer, toDaemon, \* per connection: messages in flight
    helloSent,        \* connections whose plugin has sent hello
    executed,         \* per call: how often the plugin ran its tool
    phase             \* Daemon.Start and its shutdown

serverVars == <<conn, connMu, pending, nextId>>
storeVars  == <<pluginConnected, advertiser, pendingRequests>>
callVars   == <<pc, cc, reqId, reply, answer, errId>>
connVars   == <<hpc, greeted>>
wireVars   == <<link, toPeer, toDaemon, helloSent, executed>>
vars == <<serverVars, writeMu, storeVars, callVars, connVars, wireVars, phase>>

-----------------------------------------------------------------------------
(* Messages, replies and answers.                                          *)

MsgTypes == {"hello", "welcome", "tool_invoke", "tool_result"}
Message  == [type : MsgTypes, id : Nat, call : Calls \cup {None}]

Plain(t)       == [type |-> t, id |-> 0, call |-> None]
ToolInvoke(c)  == [type |-> "tool_invoke", id |-> reqId[c], call |-> c]
ToolResult(m)  == [type |-> "tool_result", id |-> m.id, call |-> m.call]

NoReply == [kind |-> "none"]
\* pendingResult: a tool_result, or the error of the failAllPending by `batch`.
Reply == {NoReply}
         \cup [kind : {"result"}, id : Nat, of : Calls \cup {None}]
         \cup [kind : {"error"}, batch : Conns \cup {Daemon}]

Codes == {"not_connected", "validation", "send_failed", "result",
          "disconnected", "shutting_down", "timeout", "cancelled", "aborted"}
NoAnswer == [code |-> "none"]
Answer == {NoAnswer} \cup [code : Codes, id : Nat, of : Calls \cup {None}]

Fail(code, id) == [code |-> code, id |-> id, of |-> None]
BatchCode(b) == IF b = Daemon THEN "shutting_down" ELSE "disconnected"

Running == phase # "exited"

-----------------------------------------------------------------------------
Init ==
    /\ conn = None /\ connMu = None /\ writeMu = None
    /\ pending = {} /\ nextId = 0
    /\ pluginConnected = FALSE /\ advertiser = None /\ pendingRequests = 0
    /\ hpc = [x \in Conns |-> "off"] /\ greeted = {}
    /\ pc = [c \in Calls |-> "idle"]
    /\ cc = [c \in Calls |-> None]
    /\ reqId = [c \in Calls |-> 0]
    /\ reply = [c \in Calls |-> NoReply]
    /\ answer = [c \in Calls |-> NoAnswer]
    /\ errId = [b \in Conns \cup {Daemon} |-> 0]
    /\ link = [x \in Conns |-> "unused"]
    /\ toPeer = [x \in Conns |-> <<>>] /\ toDaemon = [x \in Conns |-> <<>>]
    /\ helloSent = {}
    /\ executed = [c \in Calls |-> 0]
    /\ phase = "up"

-----------------------------------------------------------------------------
(* The pending table.  SetPendingRequests is called inside pendingMu.      *)

Registered(id) == {d \in pending : reqId[d] = id}

\* Mutant: the count is not refreshed on registration.
AddPendingUncounted(c, id) ==
    /\ pending' = (pending \ Registered(id)) \cup {c}
    /\ UNCHANGED pendingRequests

AddPending(c, id) ==
    /\ pending' = (pending \ Registered(id)) \cup {c}
    /\ pendingRequests' = Cardinality(pending')

\* Mutant: a caller that leaves forgets its entry in the table.
RemovePendingLeaks(id) == UNCHANGED <<pending, pendingRequests>>

RemovePending(id) ==
    /\ pending' = pending \ Registered(id)
    /\ pendingRequests' = IF Registered(id) = {} THEN pendingRequests
                                                 ELSE Cardinality(pending')

\* Mutant: the waiters are told, but stay in the table.
FailAllPendingKeepsTable(batch) ==
    /\ reply' = [c \in Calls |-> IF c \in pending
                                 THEN [kind |-> "error", batch |-> batch]
                                 ELSE reply[c]]
    /\ pendingRequests' = 0
    /\ UNCHANGED pending

\* Mutant: the count is reduced by what was failed, not reset.
FailAllPendingCounting(batch) ==
    /\ pending' = {}
    /\ reply' = [c \in Calls |-> IF c \in pending
                                 THEN [kind |-> "error", batch |-> batch]
                                 ELSE reply[c]]
    /\ pendingRequests' = pendingRequests - Cardinality(pending)

\* Every waiter gets the same *broker.Error, created with a blank RequestID.
FailAllPending(batch) ==
    /\ pending' = {}
    /\ reply' = [c \in Calls |-> IF c \in pending
                                 THEN [kind |-> "error", batch |-> batch]
                                 ELSE reply[c]]
    /\ pendingRequests' = 0

-----------------------------------------------------------------------------
(* The plugin at the other end of a connection, and the network.           *)

PeerConnect(x) ==
    /\ phase \in {"up", "draining"}
    /\ hpc[x] = "off"
    /\ hpc' = [hpc EXCEPT ![x] = "upgraded"]
    /\ link' = [link EXCEPT ![x] = "open"]
    /\ UNCHANGED <<serverVars, writeMu, storeVars, callVars, greeted,
                   toPeer, toDaemon, helloSent, executed, phase>>

PeerHello(x) ==
    /\ link[x] = "open"
    /\ x \notin helloSent
    /\ helloSent' = helloSent \cup {x}
    /\ toDaemon' = [toDaemon EXCEPT ![x] = Append(@, Plain("hello"))]
    /\ UNCHANGED <<serverVars, writeMu, storeVars, callVars, connVars,
                   link, toPeer, executed, phase>>

\* One iteration of _read_messages.  A plugin whose socket the daemon has
\* closed may still hold unread messages: it runs them, and the result is lost.
\* send_text may fail on an open socket too, for the result and its fallback.
PeerRead(x) ==
    /\ link[x] \in {"open", "closed"}
    /\ toPeer[x] # <<>>
    /\ LET m == Head(toPeer[x]) IN
         /\ toPeer' = [toPeer EXCEPT ![x] = Tail(@)]
         /\ executed' = IF m.type = "tool_invoke"
                        THEN [executed EXCEPT ![m.call] = @ + 1] ELSE executed
         /\ \/ /\ m.type = "tool_invoke" /\ link[x] = "open"
               /\ toDaemon' = [toDaemon EXCEPT ![x] = Append(@, ToolResult(m))]
            \/ UNCHANGED toDaemon
    /\ UNCHANGED <<serverVars, writeMu, storeVars, callVars, connVars,
                   link, helloSent, phase>>

\* The plugin stops, reloads, crashes or reconnects: what it has not read is
\* gone, and what it has sent may still be read.
PeerDrop(x) ==
    /\ link[x] = "open"
    /\ link' = [link EXCEPT ![x] = "peerGone"]
    /\ toPeer' = [toPeer EXCEPT ![x] = <<>>]
    /\ UNCHANGED <<serverVars, writeMu, storeVars, callVars, connVars,
                   toDaemon, helloSent, executed, phase>>

-----------------------------------------------------------------------------
(* handleWS: one goroutine per connection.                                 *)

Closed(x) == [link EXCEPT ![x] = "closed"]

SetActiveConn(x) ==
    /\ Running /\ hpc[x] = "upgraded" /\ connMu = None
    /\ conn' = x
    /\ link' = IF conn = None THEN link ELSE Closed(conn)
    /\ hpc' = [hpc EXCEPT ![x] = "reading"]
    /\ UNCHANGED <<connMu, writeMu, pending, nextId, storeVars, callVars,
                   greeted, toPeer, toDaemon, helloSent, executed, phase>>

\* What the reader has buffered can be read after the socket is closed.
ReadHello(x) ==
    /\ Running /\ hpc[x] = "reading"
    /\ toDaemon[x] # <<>> /\ Head(toDaemon[x]).type = "hello"
    /\ toDaemon' = [toDaemon EXCEPT ![x] = Tail(@)]
    /\ hpc' = [hpc EXCEPT ![x] = "hello"]
    /\ UNCHANGED <<serverVars, writeMu, storeVars, callVars, greeted,
                   link, toPeer, helloSent, executed, phase>>

SetConnected(x) ==
    /\ Running /\ hpc[x] = "hello"
    /\ pluginConnected' = TRUE
    /\ advertiser' = x
    /\ greeted' = greeted \cup {x}
    /\ hpc' = [hpc EXCEPT ![x] = "welcome"]
    /\ UNCHANGED <<serverVars, writeMu, pendingRequests, callVars, wireVars, phase>>

\* tool_result: completePending.
ReadResult(x) ==
    /\ Running /\ hpc[x] = "reading"
    /\ toDaemon[x] # <<>> /\ Head(toDaemon[x]).type = "tool_result"
    /\ LET m == Head(toDaemon[x]) IN
         /\ reply' = [c \in Calls |->
                        IF c \in Registered(m.id)
                        THEN [kind |-> "result", id |-> m.id, of |-> m.call]
                        ELSE reply[c]]
         /\ RemovePending(m.id)
    /\ toDaemon' = [toDaemon EXCEPT ![x] = Tail(@)]
    /\ UNCHANGED <<conn, connMu, nextId, writeMu, pluginConnected, advertiser,
                   pc, cc, reqId, answer, errId, connVars,
                   link, toPeer, helloSent, executed, phase>>

\* Mutant: only a socket closed by the daemon ends the loop.
ReadErrorIfClosed(x) ==
    /\ Running /\ hpc[x] = "reading" /\ link[x] = "closed"
    /\ hpc' = [hpc EXCEPT ![x] = "clear"]
    /\ toDaemon' = [toDaemon EXCEPT ![x] = <<>>]
    /\ UNCHANGED <<serverVars, writeMu, storeVars, callVars, greeted,
                   link, toPeer, helloSent, executed, phase>>

\* The loop ends, and what it has not read is gone.
ReadError(x) ==
    /\ Running /\ hpc[x] = "reading" /\ link[x] # "open"
    /\ hpc' = [hpc EXCEPT ![x] = "clear"]
    /\ toDaemon' = [toDaemon EXCEPT ![x] = <<>>]
    /\ UNCHANGED <<serverVars, writeMu, storeVars, callVars, greeted,
                   link, toPeer, helloSent, executed, phase>>

\* Mutant: the flag survives the disconnection.
SetDisconnectedKeepsFlag ==
    /\ advertiser' = None
    /\ pendingRequests' = 0
    /\ UNCHANGED pluginConnected

SetDisconnected ==
    /\ pluginConnected' = FALSE
    /\ advertiser' = None
    /\ pendingRequests' = 0

\* clearActiveConn holds connMu from here to FailPending.
ClearActiveConn(x) ==
    /\ Running /\ hpc[x] = "clear" /\ connMu = None /\ conn = x
    /\ conn' = None /\ connMu' = x
    /\ SetDisconnected
    /\ hpc' = [hpc EXCEPT ![x] = "clearing"]
    /\ UNCHANGED <<pending, nextId, writeMu, callVars, greeted, wireVars, phase>>

ClearStaleConn(x) ==
    /\ Running /\ hpc[x] = "clear" /\ connMu = None /\ conn # x
    /\ hpc' = [hpc EXCEPT ![x] = "gone"]
    /\ UNCHANGED <<serverVars, writeMu, storeVars, callVars, greeted, wireVars, phase>>

FailPending(x) ==
    /\ Running /\ hpc[x] = "clearing"
    /\ FailAllPending(x)
    /\ connMu' = None
    /\ hpc' = [hpc EXCEPT ![x] = "gone"]
    /\ UNCHANGED <<conn, nextId, writeMu, pluginConnected, advertiser,
                   pc, cc, reqId, answer, errId, greeted, wireVars, phase>>

-----------------------------------------------------------------------------
(* writeJSON: one lock for every socket and no write deadline.  A write to *)
(* an open socket waits for room in it, with the lock held.                *)

HasRoom(x) == link[x] = "open" /\ Len(toPeer[x]) < WireCap
Sent(x, m) == [toPeer EXCEPT ![x] = Append(@, m)]

LockForWelcome(x) ==
    /\ Running /\ hpc[x] = "welcome" /\ writeMu = None
    /\ writeMu' = x
    /\ hpc' = [hpc EXCEPT ![x] = "writing"]
    /\ UNCHANGED <<serverVars, storeVars, callVars, greeted, wireVars, phase>>

\* The handler ignores the error of writing to a socket that is not open.
WriteWelcome(x) ==
    /\ Running /\ hpc[x] = "writing"
    /\ \/ HasRoom(x) /\ toPeer' = Sent(x, Plain("welcome"))
       \/ link[x] # "open" /\ UNCHANGED toPeer
    /\ writeMu' = None
    /\ hpc' = [hpc EXCEPT ![x] = "reading"]
    /\ UNCHANGED <<serverVars, storeVars, callVars, greeted,
                   link, toDaemon, helloSent, executed, phase>>

-----------------------------------------------------------------------------
(* handleToolCall and InvokeTool: one goroutine per call.                  *)

\* The HTTP server takes a request while it is up.
Accept(c) ==
    /\ phase = "up" /\ pc[c] = "idle"
    /\ pc' = [pc EXCEPT ![c] = "accepted"]
    /\ UNCHANGED <<serverVars, writeMu, storeVars, cc, reqId, reply, answer,
                   errId, connVars, wireVars, phase>>

GetConn(c) ==
    /\ Running /\ pc[c] = "accepted" /\ connMu = None
    /\ IF conn = None
       THEN /\ answer' = [answer EXCEPT ![c] = Fail("not_connected", 0)]
            /\ pc' = [pc EXCEPT ![c] = "done"]
            /\ UNCHANGED cc
       ELSE /\ cc' = [cc EXCEPT ![c] = conn]
            /\ pc' = [pc EXCEPT ![c] = "connected"]
            /\ UNCHANGED answer
    /\ UNCHANGED <<serverVars, writeMu, storeVars, reqId, reply, errId,
                   connVars, wireVars, phase>>

\* What validateToolInvokeMessage makes of the call: a tool name of white space
\* passes handleToolCall's test and is invalid here.  The call has its name from
\* the start; which it is matters only from here on.
Checked == {"registered", "invalid"}

\* Mutant: ids are taken from the size of the table, and reused.
RegisterBySize(c) ==
    /\ Running /\ pc[c] = "connected"
    /\ reqId' = [reqId EXCEPT ![c] = Cardinality(pending) + 1]
    /\ AddPending(c, Cardinality(pending) + 1)
    /\ \E checked \in Checked : pc' = [pc EXCEPT ![c] = checked]
    /\ UNCHANGED <<conn, connMu, nextId, writeMu, pluginConnected, advertiser,
                   cc, reply, answer, errId, connVars, wireVars, phase>>

Register(c) ==
    /\ Running /\ pc[c] = "connected"
    /\ nextId' = nextId + 1
    /\ reqId' = [reqId EXCEPT ![c] = nextId']
    /\ AddPending(c, nextId')
    /\ \E checked \in Checked : pc' = [pc EXCEPT ![c] = checked]
    /\ UNCHANGED <<conn, connMu, writeMu, pluginConnected, advertiser,
                   cc, reply, answer, errId, connVars, wireVars, phase>>

\* Leave InvokeTool early: removePending, and the error is the response.
GiveUp(c, code) ==
    /\ RemovePending(reqId[c])
    /\ answer' = [answer EXCEPT ![c] = Fail(code, reqId[c])]
    /\ pc' = [pc EXCEPT ![c] = "done"]
    /\ cc' = [cc EXCEPT ![c] = None]
    /\ UNCHANGED <<conn, connMu, nextId, pluginConnected, advertiser,
                   reqId, reply, errId, connVars, wireVars, phase>>

Reject(c) ==
    /\ Running /\ pc[c] = "invalid"
    /\ GiveUp(c, "validation")
    /\ UNCHANGED writeMu

LockForInvoke(c) ==
    /\ Running /\ pc[c] = "registered" /\ writeMu = None
    /\ writeMu' = c
    /\ pc' = [pc EXCEPT ![c] = "sending"]
    /\ UNCHANGED <<serverVars, storeVars, cc, reqId, reply, answer, errId,
                   connVars, wireVars, phase>>

\* A write to a socket whose plugin has just gone succeeds and is lost.
SendInvoke(c) ==
    /\ Running /\ pc[c] = "sending"
    /\ \/ HasRoom(cc[c]) /\ toPeer' = Sent(cc[c], ToolInvoke(c))
       \/ link[cc[c]] = "peerGone" /\ UNCHANGED toPeer
    /\ writeMu' = None
    /\ pc' = [pc EXCEPT ![c] = "waiting"]
    /\ cc' = [cc EXCEPT ![c] = None]
    /\ UNCHANGED <<serverVars, storeVars, reqId, reply, answer, errId,
                   connVars, link, toDaemon, helloSent, executed, phase>>

\* Mutant: the early return of a failed write forgets the lock.
SendFailsLocked(c) ==
    /\ Running /\ pc[c] = "sending" /\ link[cc[c]] # "open"
    /\ UNCHANGED writeMu
    /\ GiveUp(c, "send_failed")

SendFails(c) ==
    /\ Running /\ pc[c] = "sending" /\ link[cc[c]] # "open"
    /\ writeMu' = None
    /\ GiveUp(c, "send_failed")

\* The select: any of its ready cases may be taken.
Timeout(c)   == Running /\ pc[c] = "waiting" /\ GiveUp(c, "timeout") /\ UNCHANGED writeMu
Cancel(c)    == Running /\ pc[c] = "waiting" /\ GiveUp(c, "cancelled") /\ UNCHANGED writeMu

ReceiveResult(c) ==
    /\ Running /\ pc[c] = "waiting" /\ reply[c].kind = "result"
    /\ answer' = [answer EXCEPT ![c] =
                    [code |-> "result", id |-> reply[c].id, of |-> reply[c].of]]
    /\ pc' = [pc EXCEPT ![c] = "done"]
    /\ UNCHANGED <<serverVars, writeMu, storeVars, cc, reqId, reply, errId,
                   connVars, wireVars, phase>>

\* wrapPendingError reads and writes the shared error with no lock: the check,
\* the assignment and broker.Details' later read are three steps.
ReceiveError(c) ==
    /\ Running /\ pc[c] = "waiting" /\ reply[c].kind = "error"
    /\ pc' = [pc EXCEPT ![c] = IF errId[reply[c].batch] = 0 THEN "wrapping"
                                                            ELSE "failing"]
    /\ UNCHANGED <<serverVars, writeMu, storeVars, cc, reqId, reply, answer,
                   errId, connVars, wireVars, phase>>

\* Mutant: the error is given the last id handed out.
WrapWithLastId(c) ==
    /\ Running /\ pc[c] = "wrapping"
    /\ errId' = [errId EXCEPT ![reply[c].batch] = nextId]
    /\ pc' = [pc EXCEPT ![c] = "failing"]
    /\ UNCHANGED <<serverVars, writeMu, storeVars, cc, reqId, reply, answer,
                   connVars, wireVars, phase>>

WrapPendingError(c) ==
    /\ Running /\ pc[c] = "wrapping"
    /\ errId' = [errId EXCEPT ![reply[c].batch] = reqId[c]]
    /\ pc' = [pc EXCEPT ![c] = "failing"]
    /\ UNCHANGED <<serverVars, writeMu, storeVars, cc, reqId, reply, answer,
                   connVars, wireVars, phase>>

WriteToolError(c) ==
    /\ Running /\ pc[c] = "failing"
    /\ LET b == reply[c].batch IN
         answer' = [answer EXCEPT ![c] = Fail(BatchCode(b), errId[b])]
    /\ pc' = [pc EXCEPT ![c] = "done"]
    /\ UNCHANGED <<serverVars, writeMu, storeVars, cc, reqId, reply, errId,
                   connVars, wireVars, phase>>

-----------------------------------------------------------------------------
(* Daemon.Start and shutdown: POST /daemon/stop, a signal or a server's    *)
(* error; then the HTTP server drains for at most ShutdownTimeout; then    *)
(* the websocket server, which does not wait for upgraded connections.     *)

Idle(c) == pc[c] \in {"idle", "done"}

Stop ==
    /\ MayStop /\ phase = "up"
    /\ phase' = "draining"
    /\ UNCHANGED <<serverVars, writeMu, storeVars, callVars, connVars, wireVars>>

\* Mutant: the HTTP server drains without a time limit.
DrainUnbounded == FALSE

Drained      == phase = "draining" /\ \A c \in Calls : Idle(c)
DrainTimeout == phase = "draining" /\ \E c \in Calls : ~Idle(c)

ShutdownHTTP ==
    /\ Drained \/ DrainTimeout
    /\ phase' = "wsDown"
    /\ UNCHANGED <<serverVars, writeMu, storeVars, callVars, connVars, wireVars>>

ShutdownWS ==
    /\ phase = "wsDown" /\ connMu = None
    /\ connMu' = Daemon
    /\ conn' = None
    /\ link' = IF conn = None THEN link ELSE Closed(conn)
    /\ SetDisconnected
    /\ phase' = "failing"
    /\ UNCHANGED <<pending, nextId, writeMu, callVars, connVars,
                   toPeer, toDaemon, helloSent, executed>>

ShutdownFail ==
    /\ phase = "failing"
    /\ FailAllPending(Daemon)
    /\ connMu' = None
    /\ phase' = "stopped"
    /\ UNCHANGED <<conn, nextId, writeMu, pluginConnected, advertiser,
                   pc, cc, reqId, answer, errId, connVars, wireVars>>

\* The process ends under the goroutines that are left.
Exit ==
    /\ phase = "stopped"
    /\ phase' = "exited"
    /\ answer' = [c \in Calls |-> IF Idle(c) THEN answer[c] ELSE Fail("aborted", 0)]
    /\ pc' = [c \in Calls |-> IF Idle(c) THEN pc[c] ELSE "done"]
    /\ hpc' = [x \in Conns |-> "gone"]
    /\ link' = [x \in Conns |-> IF link[x] = "open" THEN "closed" ELSE link[x]]
    /\ UNCHANGED <<serverVars, writeMu, storeVars, cc, reqId, reply, errId,
                   greeted, toPeer, toDaemon, helloSent, executed>>

-----------------------------------------------------------------------------
Peer(x) == PeerConnect(x) \/ PeerHello(x) \/ PeerRead(x) \/ PeerDrop(x)

Handler(x) ==
    \/ SetActiveConn(x) \/ ReadHello(x) \/ SetConnected(x) \/ ReadResult(x)
    \/ ReadError(x) \/ ClearActiveConn(x) \/ ClearStaleConn(x) \/ FailPending(x)
    \/ LockForWelcome(x) \/ WriteWelcome(x)

\* What a call does once it is accepted, but for its timer.
Invoke(c) ==
    \/ GetConn(c) \/ Register(c) \/ Reject(c) \/ LockForInvoke(c) \/ SendInvoke(c)
    \/ SendFails(c) \/ ReceiveResult(c) \/ ReceiveError(c)
    \/ WrapPendingError(c) \/ WriteToolError(c)

Shutdown == ShutdownHTTP \/ ShutdownWS \/ ShutdownFail \/ Exit

Next ==
    \/ \E x \in Conns : Peer(x) \/ Handler(x)
    \/ \E c \in Calls : Accept(c) \/ Invoke(c) \/ Timeout(c) \/ Cancel(c)
    \/ Stop \/ Shutdown

Spec == Init /\ [][Next]_vars

\* The Go scheduler runs every goroutine that can run, and timers fire.  Nobody
\* has to connect, read, drop, call, cancel or stop: an editor stops reading its
\* socket while its main thread is busy.
FairSpec ==
    /\ Spec
    /\ \A x \in Conns : WF_vars(Handler(x))
    /\ \A c \in Calls : WF_vars(Invoke(c)) /\ WF_vars(Timeout(c))
    /\ WF_vars(Shutdown)

-----------------------------------------------------------------------------
(* Properties.                                                             *)

TypeOK ==
    /\ conn \in Conns \cup {None}
    /\ connMu \in Conns \cup {Daemon, None}
    /\ writeMu \in Conns \cup Calls \cup {None}
    /\ pending \subseteq Calls
    /\ nextId \in Nat
    /\ pluginConnected \in BOOLEAN
    /\ advertiser \in Conns \cup {None}
    /\ pendingRequests \in Nat
    /\ hpc \in [Conns -> {"off", "upgraded", "reading", "hello", "welcome",
                           "writing", "clear", "clearing", "gone"}]
    /\ greeted \subseteq Conns /\ helloSent \subseteq Conns
    /\ pc \in [Calls -> {"idle", "accepted", "connected", "invalid", "registered",
                          "sending", "waiting", "wrapping", "failing", "done"}]
    /\ cc \in [Calls -> Conns \cup {None}]
    /\ reqId \in [Calls -> Nat]
    /\ reply \in [Calls -> Reply]
    /\ answer \in [Calls -> Answer]
    /\ errId \in [Conns \cup {Daemon} -> Nat]
    /\ link \in [Conns -> {"unused", "open", "peerGone", "closed"}]
    /\ toPeer \in [Conns -> Seq(Message)] /\ toDaemon \in [Conns -> Seq(Message)]
    /\ executed \in [Calls -> Nat]
    /\ phase \in {"up", "draining", "wsDown", "failing", "stopped", "exited"}

\* The table of pending requests holds exactly the calls in flight that nobody
\* has replied to.  So a send on a pendingCh (of capacity one, made under
\* pendingMu by failAllPending) never waits, no call that has returned leaks an
\* entry, and no call loses its entry without being told why.
InFlight == {c \in Calls : pc[c] \in {"invalid", "registered", "sending", "waiting"}}
PendingIsUnanswered ==
    Running => pending = {c \in InFlight : reply[c] = NoReply}

\* The pending_requests that /status shows is the size of the table, except
\* between SetDisconnected and failAllPending (connMu is held there), where a
\* registration can make it count calls that are about to fail.
PendingCountAccurate ==
    connMu = None => pendingRequests = Cardinality(pending)

\* As long as no connection has been superseded or shut down, /status and
\* /tools/list describe the plugin that tool calls are sent to.
NothingClosed == \A x \in Conns : link[x] # "closed"
StatusTrueUntilTakeover ==
    NothingClosed => /\ pluginConnected <=> conn \in greeted
                     /\ pluginConnected => advertiser = conn

\* The waiters of one failAllPending share an error, and the first of them
\* writes its request id into it: a response may carry the id of another call,
\* but only of one that the same disconnection failed.
SharedErrorId ==
    \A c \in Calls : answer[c] # NoAnswer /\ answer[c].id \notin {0, reqId[c]} =>
        /\ answer[c].code \in {"disconnected", "shutting_down"}
        /\ \E d \in Calls \ {c} : reqId[d] = answer[c].id /\ reply[d] = reply[c]

\* What the caller of InvokeTool can rely on.
CallState(c) ==
    CASE pc[c] = "idle"  -> "new"
      [] pc[c] # "idle" /\ pc[c] # "done" -> "open"
      [] pc[c] = "done" /\ answer[c].code \in {"not_connected", "validation", "send_failed"}
                         -> "refused"
      [] pc[c] = "done" /\ answer[c].code = "result"
                         -> IF answer[c].of = c THEN "delivered" ELSE "misdelivered"
      [] OTHER           -> "unknown"

ToolCallSpec == INSTANCE ToolCall WITH state <- [c \in Calls |-> CallState(c)],
                                       ran <- executed

\* The broker implements ToolCall: one answer, the right result, never run when
\* refused, never run twice, through takeovers, disconnections and shutdown.
ImplementsToolCall == ToolCallSpec!Spec

\* Every request that was taken is answered, as long as plugins keep reading
\* their sockets, also behind other writers of writeMu.  Without that premise it
\* fails: the request's timer is made only after the write, and the write waits
\* with writeMu held, so one plugin that reads nothing keeps every call waiting.
PeersKeepReading == \A x \in Conns : []<>(toPeer[x] = <<>> \/ link[x] # "open")
EveryCallReturns ==
    PeersKeepReading => \A c \in Calls : pc[c] = "accepted" ~> pc[c] = "done"

\* A plugin that goes away stops being the active connection.
DisconnectNoticed ==
    \A x \in Conns : (link[x] = "peerGone" /\ conn = x) ~> (conn # x \/ ~Running)

\* A daemon told to stop ends, also when calls are stuck in a socket write.
StopCompletes == phase = "draining" ~> phase = "exited"

\* docs/DOCUMENTATION.md:32 says of `godotctl status`: "Shows daemon health and
\* plugin connection state."  When nothing is under way (every handler has
\* returned, or waits for its plugin with nothing to read), a plugin that is
\* reported as connected is connected.
Settled ==
    /\ phase = "up" /\ connMu = None
    /\ \A x \in Conns :
         \/ hpc[x] \in {"off", "gone"}
         \/ hpc[x] = "reading" /\ link[x] = "open" /\ toDaemon[x] = <<>>
StatusReflectsConnection == Settled /\ pluginConnected => conn # None
=============================================================================
