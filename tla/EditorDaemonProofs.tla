------------------------- MODULE EditorDaemonProofs -------------------------
(***************************************************************************)
(* Theorems about EditorDaemon, for any clients and any daemon processes.  *)
(***************************************************************************)
EXTENDS EditorDaemon, TLAPS

\* Only a client that has left has a stop command under way (stop, which ends
\* the client, is where the command is launched).
StopsFollowLeaving == \A c \in stops : sock[c] = "gone"

IInv == TypeOK /\ StopsFollowLeaving

\* A launched process changes the four daemon variables within their types.
LEMMA LaunchTyped ==
    ASSUME TypeOK, NEW d \in Processes, NEW t \in Clients \cup {ByHand}, Launch(d, t)
    PROVE  /\ proc' \in [Processes -> {"off", "up", "stopping", "draining"}]
           /\ token' \in [Processes -> Clients \cup {ByHand}]
           /\ UNCHANGED <<ws, http, active>>
BY DEF TypeOK, Launch

\* _maybe_start_daemon launches at most a process with the client's own token.
LEMMA MaybeStartDaemonTyped ==
    ASSUME TypeOK, NEW c \in Clients, MaybeStartDaemon(c)
    PROVE  /\ proc' \in [Processes -> {"off", "up", "stopping", "draining"}]
           /\ token' \in [Processes -> Clients \cup {ByHand}]
           /\ UNCHANGED <<ws, http, active>>
           /\ cooling' \subseteq Clients
<1>1. cooling' \subseteq Clients
  BY DEF TypeOK, MaybeStartDaemon
<1>2. CASE \E d \in Processes : Launch(d, c)
  BY <1>1, <1>2, LaunchTyped
<1>3. CASE UNCHANGED daemonVars
  BY <1>1, <1>3 DEF TypeOK, daemonVars
<1>. QED
  BY <1>2, <1>3 DEF MaybeStartDaemon

\* One step of a client keeps the invariant.
LEMMA ClientStep ==
    ASSUME IInv, NEW c \in Clients, Client(c)
    PROVE  IInv'
<1>. USE DEF IInv, TypeOK, StopsFollowLeaving
<1>1. CASE Connect(c)
  BY <1>1 DEF Connect, daemonVars
<1>2. ASSUME OnConnectFailed(c), sock[c] # "gone" PROVE IInv'
  <2>1. sock' \in [Clients -> {"closed", "connecting", "open", "greeted", "welcomed", "gone"}]
    BY <1>2 DEF OnConnectFailed
  <2>2. /\ proc' \in [Processes -> {"off", "up", "stopping", "draining"}]
        /\ token' \in [Processes -> Clients \cup {ByHand}]
        /\ UNCHANGED <<ws, http, active>>
        /\ cooling' \subseteq Clients
    <3>1. CASE c \in tried
      BY <1>2, <3>1 DEF OnConnectFailed, daemonVars
    <3>2. CASE c \notin tried
      BY <1>2, <3>2, MaybeStartDaemonTyped DEF OnConnectFailed
    <3>. QED  BY <3>1, <3>2
  <2>. QED  BY <1>2, <2>1, <2>2 DEF OnConnectFailed
<1>3. CASE ConnectionRefused(c)
  BY <1>2, <1>3 DEF ConnectionRefused
<1>4. CASE Watchdog(c)
  BY <1>4, MaybeStartDaemonTyped DEF Watchdog
<1>5. CASE \E d \in Processes : Open(c, d)
  BY <1>5 DEF Open
<1>6. CASE SendHello(c)
  BY <1>6 DEF SendHello, daemonVars
<1>7. CASE OnConnected(c)
  BY <1>7 DEF OnConnected, daemonVars
<1>8. CASE Lost(c)
  BY <1>2, <1>8 DEF Lost, daemonVars
<1>9. CASE CoolDown(c)
  BY <1>9 DEF CoolDown, clientVars, daemonVars
<1>10. CASE Stop(c) \/ Crash(c)
  BY <1>10 DEF Stop, Crash, Leave
<1>11. CASE StopRequest(c)
  BY <1>11 DEF StopRequest, HandleStop, Cancel, clientVars
<1>. QED
  BY <1>1, <1>3, <1>4, <1>5, <1>6, <1>7, <1>8, <1>9, <1>10, <1>11 DEF Client, Progress

\* One step of a daemon, or of somebody at the command line, keeps it.
LEMMA DaemonStep ==
    ASSUME IInv, NEW d \in Processes,
           Daemon(d) \/ StartByHand(d) \/ StopByHand(d)
    PROVE  IInv'
<1>. USE DEF IInv, TypeOK, StopsFollowLeaving
<1>1. CASE BindWS(d)
  BY <1>1 DEF BindWS, Bind, clientVars
<1>2. CASE BindHTTP(d)
  BY <1>2 DEF BindHTTP, Bind, clientVars
<1>3. CASE ServerFails(d)
  BY <1>3 DEF ServerFails, clientVars
<1>4. CASE ShutdownHTTP(d)
  BY <1>4 DEF ShutdownHTTP, clientVars
<1>5. CASE ShutdownWS(d)
  BY <1>5 DEF ShutdownWS, clientVars
<1>6. CASE StartByHand(d)
  BY <1>6, LaunchTyped DEF StartByHand, clientVars
<1>7. CASE StopByHand(d)
  BY <1>7 DEF StopByHand, Cancel, clientVars
<1>. QED
  BY <1>1, <1>2, <1>3, <1>4, <1>5, <1>6, <1>7 DEF Daemon

\* The inductive invariant: types, and no stop command of a living client.
THEOREM Invariance == Spec => []IInv
<1>1. Init => IInv
  BY DEF Init, IInv, TypeOK, StopsFollowLeaving
<1>2. IInv /\ [Next]_vars => IInv'
  <2>1. IInv /\ Next => IInv'
    BY ClientStep, DaemonStep DEF Next
  <2>2. IInv /\ UNCHANGED vars => IInv'
    BY DEF IInv, TypeOK, StopsFollowLeaving, vars, clientVars, daemonVars
  <2>. QED  BY <2>1, <2>2
<1>. QED
  BY <1>1, <1>2, PTL DEF Spec

\* The variables of daemon_client.gd and daemon.go keep their types.
THEOREM TypeCorrect == Spec => []TypeOK
<1>1. IInv => TypeOK
  BY DEF IInv
<1>. QED
  BY <1>1, Invariance, PTL

\* handleStop's comparison of tokens, with stop's order: a plugin ends no daemon
\* that another plugin has started, nor its own while it still runs.
THEOREM OnlyOwnersStop == Spec => StoppedByOwner
<1>. DEFINE
  Allowed == \A d \in Processes : proc[d] = "up" /\ proc'[d] = "stopping" =>
          \/ "failed" \in {ws[d], http[d]}
          \/ stops' = stops
          \/ token[d] \in Clients /\ sock[token[d]] = "gone"
<1>1. ASSUME IInv, Next PROVE Allowed
  <2>1. CASE stops' = stops
    BY <2>1
  <2>2. ASSUME NEW c \in Clients, Stop(c) PROVE Allowed
    BY <2>2 DEF Stop, Leave
  <2>3. ASSUME NEW c \in Clients, StopRequest(c) PROVE Allowed
    <3>1. sock[c] = "gone"
      BY <1>1, <2>3 DEF StopRequest, IInv, StopsFollowLeaving
    <3>2. CASE UNCHANGED proc
      BY <3>2
    <3>3. ASSUME NEW e \in Processes, token[e] = c, Cancel(e) PROVE Allowed
      BY <1>1, <3>1, <3>3 DEF Cancel, IInv, TypeOK
    <3>. QED  BY <2>3, <3>2, <3>3 DEF StopRequest, HandleStop
  <2>4. \/ stops' = stops
        \/ \E c \in Clients : Stop(c) \/ StopRequest(c)
    BY <1>1 DEF Next, Client, Progress, Daemon, Connect, ConnectionRefused, Watchdog,
                OnConnectFailed, Open, SendHello, OnConnected, Lost, CoolDown, Crash,
                BindWS, BindHTTP, ServerFails, ShutdownHTTP, ShutdownWS,
                StartByHand, StopByHand
  <2>. QED  BY <2>1, <2>2, <2>3, <2>4
<1>2. IInv /\ [Next]_vars => [Allowed]_vars
  BY <1>1
<1>. QED
  BY <1>2, Invariance, PTL DEF Spec, StoppedByOwner
=============================================================================
