---------------------------- MODULE EditorDaemon ----------------------------
(***************************************************************************)
(* Plugins and the daemons they start: daemon_client.gd on one side,       *)
(* daemon.go on the other.  Every plugin tries the same two ports, starts  *)
(* a daemon when nobody answers, and stops, as it ends, the daemon that it *)
(* has started.  Daemons that meet at a port exit; plugins that meet at a  *)
(* daemon supersede each other.                                            *)
(*                                                                         *)
(* A client is one life of a plugin: it makes one owner token.  What       *)
(* passes over a connection once it is made is the subject of Broker.      *)
(***************************************************************************)
EXTENDS Naturals, FiniteSets

CONSTANTS
    Clients,    \* plugins; also their owner tokens
    Processes,  \* bound: daemon processes at one time
    ByHand,     \* the token of a daemon that is started without one
    MayUseHand, \* bound: whether daemons are also started and stopped by hand
    None

ASSUME EditorAssumption ==
    /\ MayUseHand \in BOOLEAN
    /\ ByHand \notin Clients
    /\ None \notin Clients \cup {ByHand}

VARIABLES
    sock,     \* per client: _socket, and how far it is in _connecting, _hello_sent
    owns,     \* clients with _owns_daemon
    tried,    \* clients with _auto_start_attempted_this_connect, while it is read
    cooling,  \* clients before their _next_auto_start_at_msec
    stops,    \* clients whose `daemon stop --owner-token` is under way
    proc,     \* per process: where Daemon.Start is
    token,    \* per process: Store.ownerToken
    ws, http, \* per process: its two servers
    active    \* per process: the client of its active connection

clientVars == <<sock, owns, tried>>
daemonVars == <<proc, token, ws, http, active>>
vars == <<clientVars, cooling, stops, daemonVars>>

Init ==
    /\ sock = [c \in Clients |-> "closed"]
    /\ owns = {} /\ tried = {} /\ cooling = {} /\ stops = {}
    /\ proc = [d \in Processes |-> "off"]
    /\ token = [d \in Processes |-> ByHand]
    /\ ws = [d \in Processes |-> "closed"]
    /\ http = [d \in Processes |-> "closed"]
    /\ active = [d \in Processes |-> None]

Running(c) == sock[c] # "gone"

\* The daemon that a client's socket is connected to, and has not closed.
Linked(c) == \E d \in Processes : active[d] = c
Peer(c)   == CHOOSE d \in Processes : active[d] = c

-----------------------------------------------------------------------------
(* Daemon processes.                                                       *)

\* Mutant: the owner token is passed on before it is generated.
LaunchTokenless(d, t) ==
    /\ proc[d] = "off"
    /\ proc' = [proc EXCEPT ![d] = "up"]
    /\ token' = [token EXCEPT ![d] = None]
    /\ UNCHANGED <<ws, http, active>>

Launch(d, t) ==
    /\ proc[d] = "off"
    /\ proc' = [proc EXCEPT ![d] = "up"]
    /\ token' = [token EXCEPT ![d] = t]
    /\ UNCHANGED <<ws, http, active>>

\* A process that the client has started and that has not got both ports.  It
\* gets or misses them at once, and one that missed a port exits in at most two
\* ShutdownTimeouts: AUTO_START_COOLDOWN_MSEC outlasts that.
Starting(c) ==
    \E d \in Processes : /\ proc[d] # "off" /\ token[d] = c
                         /\ {ws[d], http[d]} \cap {"closed", "failed"} # {}

\* Mutant: no cooldown.
StartDaemonAtOnce(c) ==
    /\ \/ \E d \in Processes : Launch(d, c)
       \/ (\A d \in Processes : proc[d] # "off") /\ UNCHANGED daemonVars
    /\ UNCHANGED cooling

\* _maybe_start_daemon.
MaybeStartDaemon(c) ==
    \/ /\ c \notin cooling
       /\ cooling' = cooling \cup {c}
       /\ \/ \E d \in Processes : Launch(d, c)
          \/ (\A d \in Processes : proc[d] # "off") /\ UNCHANGED daemonVars
    \/ c \in cooling /\ UNCHANGED <<cooling, daemonVars>>

CoolDown(c) ==
    /\ c \in cooling /\ ~Starting(c)
    /\ cooling' = cooling \ {c}
    /\ UNCHANGED <<clientVars, stops, daemonVars>>

-----------------------------------------------------------------------------
(* The plugin's daemon client.                                             *)

\* _connect.
Connect(c) ==
    /\ sock[c] = "closed"
    /\ sock' = [sock EXCEPT ![c] = "connecting"]
    /\ tried' = tried \ {c}
    /\ UNCHANGED <<owns, cooling, stops, daemonVars>>

\* _on_connect_failed.  Nobody reads tried again before _connect resets it.
OnConnectFailed(c) ==
    /\ sock' = [sock EXCEPT ![c] = "closed"]
    /\ tried' = tried \ {c}
    /\ IF c \in tried THEN UNCHANGED <<cooling, daemonVars>> ELSE MaybeStartDaemon(c)
    /\ UNCHANGED <<owns, stops>>

\* Nobody listens.
ConnectionRefused(c) ==
    /\ sock[c] = "connecting"
    /\ \A d \in Processes : ws[d] # "listening"
    /\ OnConnectFailed(c)

\* _maybe_watchdog_start_daemon: the connection has taken CONNECT_WATCHDOG_MSEC.
Watchdog(c) ==
    /\ sock[c] = "connecting" /\ c \notin tried
    /\ tried' = tried \cup {c}
    /\ MaybeStartDaemon(c)
    /\ UNCHANGED <<sock, owns, stops>>

\* The socket opens; the daemon closes the one that was active (setActiveConn).
Open(c, d) ==
    /\ sock[c] = "connecting" /\ ws[d] = "listening"
    /\ sock' = [sock EXCEPT ![c] = "open"]
    /\ active' = [active EXCEPT ![d] = c]
    /\ UNCHANGED <<owns, tried, cooling, stops, proc, token, ws, http>>

\* _send_hello.
SendHello(c) ==
    /\ sock[c] = "open" /\ Linked(c)
    /\ sock' = [sock EXCEPT ![c] = "greeted"]
    /\ tried' = tried \ {c}
    /\ UNCHANGED <<owns, cooling, stops, daemonVars>>

\* _on_connected.
OnConnected(c) ==
    /\ sock[c] = "greeted" /\ Linked(c)
    /\ sock' = [sock EXCEPT ![c] = "welcomed"]
    /\ owns' = IF token[Peer(c)] = c THEN owns \cup {c} ELSE owns \ {c}
    /\ UNCHANGED <<tried, cooling, stops, daemonVars>>

\* The socket closes: after hello the client just tries again.
Lost(c) ==
    /\ ~Linked(c)
    /\ \/ sock[c] = "open" /\ OnConnectFailed(c)
       \/ /\ sock[c] \in {"greeted", "welcomed"}
          /\ sock' = [sock EXCEPT ![c] = "closed"]
          /\ UNCHANGED <<owns, tried, cooling, stops, daemonVars>>

\* A client ends, and with it its socket: a crash leaves what it started behind.
Leave(c) ==
    /\ Running(c)
    /\ sock' = [sock EXCEPT ![c] = "gone"]
    /\ active' = [d \in Processes |-> IF active[d] = c THEN None ELSE active[d]]
    /\ owns' = owns \ {c} /\ tried' = tried \ {c} /\ cooling' = cooling \ {c}
    /\ UNCHANGED <<proc, token, ws, http>>

\* stop, with _maybe_stop_owned_daemon.
Stop(c) ==
    /\ Leave(c)
    /\ stops' = stops \cup ({c} \cap owns)

\* Also a stop whose command finds nothing to run it.
Crash(c) == Leave(c) /\ UNCHANGED stops

-----------------------------------------------------------------------------
(* The daemon: Start, shutdown.                                            *)

Bound(server) == \E d \in Processes : server[d] = "listening"

Bind(server, d) ==
    [server EXCEPT ![d] = IF Bound(server) THEN "failed" ELSE "listening"]

BindWS(d) ==
    /\ proc[d] # "off" /\ ws[d] = "closed"
    /\ ws' = Bind(ws, d)
    /\ UNCHANGED <<clientVars, cooling, stops, proc, token, http, active>>

BindHTTP(d) ==
    /\ proc[d] # "off" /\ http[d] = "closed"
    /\ http' = Bind(http, d)
    /\ UNCHANGED <<clientVars, cooling, stops, proc, token, ws, active>>

\* Mutant: only the websocket server's error is waited for.
ServerFailsWS(d) ==
    /\ proc[d] = "up" /\ ws[d] = "failed"
    /\ proc' = [proc EXCEPT ![d] = "stopping"]
    /\ UNCHANGED <<clientVars, cooling, stops, token, ws, http, active>>

\* Either server's error ends Start.
ServerFails(d) ==
    /\ proc[d] = "up" /\ "failed" \in {ws[d], http[d]}
    /\ proc' = [proc EXCEPT ![d] = "stopping"]
    /\ UNCHANGED <<clientVars, cooling, stops, token, ws, http, active>>

Cancel(d) == proc' = [proc EXCEPT ![d] = IF @ = "up" THEN "stopping" ELSE @]

\* Mutant: the owner token is not compared.
HandleStopOfAny(c, d) == Cancel(d)

\* handleStop, of an owner.
HandleStop(c, d) == IF token[d] = c THEN Cancel(d) ELSE UNCHANGED proc

\* The stop command of a client that has left reaches a daemon, or none.
StopRequest(c) ==
    /\ c \in stops
    /\ stops' = stops \ {c}
    /\ \/ \E d \in Processes : http[d] = "listening" /\ HandleStop(c, d)
       \/ ~Bound(http) /\ UNCHANGED proc
    /\ UNCHANGED <<clientVars, cooling, token, ws, http, active>>

ShutdownHTTP(d) ==
    /\ proc[d] = "stopping"
    /\ proc' = [proc EXCEPT ![d] = "draining"]
    /\ http' = [http EXCEPT ![d] = IF @ = "failed" THEN @ ELSE "shut"]
    /\ UNCHANGED <<clientVars, cooling, stops, token, ws, active>>

\* The websocket server shuts down, and the process exits.
ShutdownWS(d) ==
    /\ proc[d] = "draining"
    /\ proc' = [proc EXCEPT ![d] = "off"]
    /\ token' = [token EXCEPT ![d] = ByHand]
    /\ ws' = [ws EXCEPT ![d] = "closed"]
    /\ http' = [http EXCEPT ![d] = "closed"]
    /\ active' = [active EXCEPT ![d] = None]
    /\ UNCHANGED <<clientVars, cooling, stops>>

\* `godotctl daemon start`, by hand and without a token.
StartByHand(d) ==
    /\ MayUseHand
    /\ Launch(d, ByHand)
    /\ UNCHANGED <<clientVars, cooling, stops>>

\* A signal to the process; also `daemon stop` without a token.
StopByHand(d) ==
    /\ MayUseHand
    /\ proc[d] = "up"
    /\ Cancel(d)
    /\ UNCHANGED <<clientVars, cooling, stops, token, ws, http, active>>

-----------------------------------------------------------------------------
\* What a client does of itself, once it runs.
Progress(c) ==
    \/ Connect(c)
    \/ ConnectionRefused(c) \/ SendHello(c) \/ OnConnected(c) \/ Lost(c)
    \/ \E d \in Processes : Open(c, d)

Client(c) ==
    \/ Progress(c) \/ Watchdog(c) \/ CoolDown(c)
    \/ Stop(c) \/ Crash(c) \/ StopRequest(c)

Daemon(d) ==
    BindWS(d) \/ BindHTTP(d) \/ ServerFails(d) \/ ShutdownHTTP(d) \/ ShutdownWS(d)

Next ==
    \/ \E c \in Clients : Client(c)
    \/ \E d \in Processes : Daemon(d) \/ StartByHand(d) \/ StopByHand(d)

Spec == Init /\ [][Next]_vars

\* The editor calls _process, time passes, and the scheduler runs the daemon's
\* goroutines and the stop command.  Nobody has to start, stop or crash.
FairSpec ==
    /\ Spec
    /\ \A c \in Clients : WF_vars(Progress(c)) /\ WF_vars(CoolDown(c) \/ StopRequest(c))
    /\ \A d \in Processes : WF_vars(Daemon(d))

-----------------------------------------------------------------------------
TypeOK ==
    /\ sock \in [Clients -> {"closed", "connecting", "open", "greeted",
                             "welcomed", "gone"}]
    /\ owns \subseteq Clients /\ tried \subseteq Clients
    /\ cooling \subseteq Clients /\ stops \subseteq Clients
    /\ proc \in [Processes -> {"off", "up", "stopping", "draining"}]
    /\ token \in [Processes -> Clients \cup {ByHand}]
    /\ ws \in [Processes -> {"closed", "listening", "failed"}]
    /\ http \in [Processes -> {"closed", "listening", "failed", "shut"}]
    /\ active \in [Processes -> Clients \cup {None}]

\* A daemon that a plugin still uses or may use is not stopped by another
\* plugin: only by hand, for want of a port, or for the plugin that started it,
\* once that one is gone.
StoppedByOwner ==
    [][\A d \in Processes : proc[d] = "up" /\ proc'[d] = "stopping" =>
          \/ "failed" \in {ws[d], http[d]}
          \/ stops' = stops
          \/ token[d] \in Clients /\ sock[token[d]] = "gone"]_vars

Whole(d) == ws[d] = "listening" /\ http[d] = "listening"

\* Daemons that share the two ports between them do not stay, and a daemon does
\* not outlive the client that owned it, if that one had time to say so.
DoomedDaemonEnds ==
    \A d \in Processes :
        \/ "failed" \in {ws[d], http[d]}
        \/ proc[d] = "up" /\ token[d] \in stops /\ Whole(d)
        ~> proc[d] = "off"

\* A plugin that is alone at last, and let alone, comes to be served by a daemon
\* with both ports, and stays so: whatever daemons were left behind, by whom.
Served(c) ==
    sock[c] = "welcomed" /\ Linked(c) /\ proc[Peer(c)] = "up" /\ Whole(Peer(c))
LoneClientServed ==
    \A c \in Clients :
        <>[](Running(c) /\ \A x \in Clients \ {c} : ~Running(x)) => <>[]Served(c)
=============================================================================
