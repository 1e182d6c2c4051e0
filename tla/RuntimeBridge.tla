---------------------------- MODULE RuntimeBridge ----------------------------
(***************************************************************************)
(* The editor's side of a running game: runtime_bridge_service.gd and      *)
(* runtime_debugger_capture.gd, with what runtime_bridge.gd sends from the *)
(* game.  Games come and go on the editor's debug sessions; the service    *)
(* follows them by the messages and the stop signals it gets on the        *)
(* editor's main thread, and answers the run.* tools from what it knows.   *)
(*                                                                         *)
(* The editor is external.  A debug session is a slot that games use one   *)
(* after the other: it is created (and _setup_session called) when no slot *)
(* is free, and it emits stopped each time its game ends.  The log rows    *)
(* that the handlers append are the subject of RunLog.                     *)
(***************************************************************************)
EXTENDS Naturals, Sequences, FiniteSets

CONSTANTS
    Games,      \* game processes, each of them run at most once
    Sessions,   \* debug sessions
    Instances,  \* bound: how many games one run of the project starts
    InboxCap,   \* bound: messages of a session that wait to be polled
    None

ASSUME RuntimeAssumption ==
    /\ Instances \in Nat \ {0}
    /\ InboxCap \in Nat
    /\ None \notin Games \cup Sessions

VARIABLES
    playing,     \* EditorInterface.is_playing_scene
    gpc,         \* per game: where it is in its life
    slot,        \* per session: the game it is connected to
    created,     \* sessions the editor has created
    inbox,       \* per session: messages of its game, not polled yet
    registered,  \* keys of _debug_sessions
    attached,    \* _bridge_attached
    session,     \* _bridge_session_id
    info,        \* the game that _bridge_info describes
    snapshot     \* the game that _snapshot describes

editorVars  == <<playing, created>>
gameVars    == <<gpc, slot, inbox>>
bridgeVars  == <<attached, session, info>>
serviceVars == <<registered, bridgeVars, snapshot>>
vars == <<editorVars, gameVars, serviceVars>>

Events == {"bridge_attached", "snapshot", "bridge_detached"}

\* The first session exists when the plugin is loaded.
Init ==
    /\ playing = FALSE
    /\ gpc = [g \in Games |-> "unused"]
    /\ slot = [s \in Sessions |-> None]
    /\ inbox = [s \in Sessions |-> <<>>]
    /\ \E s \in Sessions : created = {s}
    /\ registered = created
    /\ attached = FALSE /\ session = None /\ info = None
    /\ snapshot = None

Alive(g) == gpc[g] \in {"loading", "connected", "ready"}

-----------------------------------------------------------------------------
(* Starting a run.                                                         *)

Play ==
    /\ ~playing
    /\ playing' = TRUE
    /\ \E G \in SUBSET {g \in Games : gpc[g] = "unused"} :
         /\ Cardinality(G) \in 1..Instances
         /\ gpc' = [g \in Games |-> IF g \in G THEN "loading" ELSE gpc[g]]
    /\ UNCHANGED <<created, slot, inbox, registered>>

\* The user starts the project from the editor: the service is not told.
UserPlay ==
    /\ Play
    /\ UNCHANGED <<bridgeVars, snapshot>>

\* execute_start; with a run active it only notes the scene asked for.
Start ==
    /\ Play
    /\ attached' = FALSE /\ session' = None /\ info' = None
    /\ snapshot' = None

-----------------------------------------------------------------------------
(* The debug sessions and what the service is told of them.                *)

\* Mutant: the session goes, and the bridge on it is not forgotten.
UnregisterKeepsBridge(S) ==
    /\ registered' = registered \ S
    /\ UNCHANGED <<attached, session>>

\* unregister_debug_session for each session of S.
Unregister(S) ==
    /\ registered' = registered \ S
    /\ attached' = (attached /\ session \notin S)
    /\ session' = IF session \in S THEN None ELSE session

Free(s) == s \in created /\ slot[s] = None

\* A game connects to a free session, or to a new one, which is set up.
Connect(g, s) ==
    /\ gpc[g] = "loading"
    /\ \/ Free(s) /\ UNCHANGED <<created, registered>>
       \/ /\ \A t \in Sessions : ~Free(t)
          /\ s \notin created
          /\ created' = created \cup {s}
          /\ registered' = registered \cup {s}
    /\ gpc' = [gpc EXCEPT ![g] = "connected"]
    /\ slot' = [slot EXCEPT ![s] = g]
    /\ UNCHANGED <<playing, inbox, bridgeVars, snapshot>>

\* What is left of the run is killed.
EndRun ==
    /\ playing' = FALSE
    /\ gpc' = [g \in Games |-> IF gpc[g] = "unused" THEN "unused" ELSE "over"]

\* Mutant: the messages of the game that has gone stay to be polled.
DisconnectKeepsInbox(S) ==
    /\ slot' = [s \in Sessions |-> IF s \in S THEN None ELSE slot[s]]
    /\ UNCHANGED inbox

Disconnect(S) ==
    /\ slot' = [s \in Sessions |-> IF s \in S THEN None ELSE slot[s]]
    /\ inbox' = [s \in Sessions |-> IF s \in S THEN <<>> ELSE inbox[s]]

\* The editor finds the game of a session gone: what was not polled is lost,
\* and with the last session the run ends.
SessionStopped(s) ==
    /\ slot[s] # None /\ gpc[slot[s]] = "exited"
    /\ Disconnect({s})
    /\ Unregister({s})
    /\ IF \A t \in Sessions \ {s} : slot[t] = None
       THEN EndRun
       ELSE UNCHANGED <<playing, gpc>>
    /\ UNCHANGED <<created, info, snapshot>>

Connected == {s \in Sessions : slot[s] # None}

StopPlaying ==
    /\ playing
    /\ EndRun
    /\ Disconnect(Sessions)
    /\ registered' = registered \ Connected

\* The user stops the run.
UserStop ==
    /\ StopPlaying
    /\ Unregister(Connected)
    /\ UNCHANGED <<created, info, snapshot>>

\* execute_stop with a run active.
Stop ==
    /\ StopPlaying
    /\ attached' = FALSE /\ session' = None
    /\ UNCHANGED <<created, info, snapshot>>

-----------------------------------------------------------------------------
(* The game: runtime_bridge.gd.                                            *)

Send(s, events) == inbox' = [inbox EXCEPT ![s] = @ \o events]

\* Mutant: the first snapshot is left to the timer.
ReadyWithoutSnapshot(s) ==
    /\ slot[s] # None /\ gpc[slot[s]] = "connected"
    /\ gpc' = [gpc EXCEPT ![slot[s]] = "ready"]
    /\ Send(s, <<"bridge_attached">>)
    /\ UNCHANGED <<editorVars, slot, serviceVars>>

\* _ready.
Ready(s) ==
    /\ slot[s] # None /\ gpc[slot[s]] = "connected"
    /\ gpc' = [gpc EXCEPT ![slot[s]] = "ready"]
    /\ Send(s, <<"bridge_attached", "snapshot">>)
    /\ UNCHANGED <<editorVars, slot, serviceVars>>

\* _process, when SNAPSHOT_INTERVAL_MSEC has passed.
SendSnapshot(s) ==
    /\ slot[s] # None /\ gpc[slot[s]] = "ready"
    /\ Len(inbox[s]) < InboxCap
    /\ Send(s, <<"snapshot">>)
    /\ UNCHANGED <<editorVars, gpc, slot, serviceVars>>

\* _exit_tree.
Quit(s) ==
    /\ slot[s] # None /\ gpc[slot[s]] = "ready"
    /\ gpc' = [gpc EXCEPT ![slot[s]] = "exited"]
    /\ Send(s, <<"bridge_detached">>)
    /\ UNCHANGED <<editorVars, slot, serviceVars>>

Crash(g) ==
    /\ Alive(g)
    /\ gpc' = [gpc EXCEPT ![g] = "exited"]
    /\ UNCHANGED <<editorVars, slot, inbox, serviceVars>>

-----------------------------------------------------------------------------
(* The editor polls a session: capture_message, _handle_runtime_event.     *)

\* Mutant: events of sessions that are not registered are ignored.
AttachIfRegistered(s) ==
    IF s \in registered
    THEN attached' = TRUE /\ session' = s /\ info' = slot[s]
    ELSE UNCHANGED bridgeVars

Attach(s) == attached' = TRUE /\ session' = s /\ info' = slot[s]

\* The flag falls whichever session says so.
Detach(s) ==
    /\ attached' = FALSE
    /\ session' = IF session = s THEN None ELSE session
    /\ UNCHANGED info

Capture(s) ==
    /\ inbox[s] # <<>>
    /\ inbox' = [inbox EXCEPT ![s] = Tail(@)]
    /\ LET event == Head(inbox[s]) IN
         \/ event = "bridge_attached" /\ Attach(s) /\ UNCHANGED snapshot
         \/ event = "bridge_detached" /\ Detach(s) /\ UNCHANGED snapshot
         \/ event = "snapshot" /\ snapshot' = slot[s] /\ UNCHANGED bridgeVars
    /\ UNCHANGED <<editorVars, gpc, slot, registered>>

-----------------------------------------------------------------------------
Next ==
    \/ UserPlay \/ Start \/ UserStop \/ Stop
    \/ \E g \in Games, s \in Sessions : Connect(g, s)
    \/ \E g \in Games : Crash(g)
    \/ \E s \in Sessions : SessionStopped(s) \/ Ready(s) \/ SendSnapshot(s)
                             \/ Quit(s) \/ Capture(s)

Spec == Init /\ [][Next]_vars

-----------------------------------------------------------------------------
TypeOK ==
    /\ playing \in BOOLEAN
    /\ gpc \in [Games -> {"unused", "loading", "connected", "ready", "exited", "over"}]
    /\ slot \in [Sessions -> Games \cup {None}]
    /\ created \subseteq Sessions
    /\ inbox \in [Sessions -> Seq(Events)]
    /\ \A s \in Sessions : inbox[s] # <<>> => slot[s] # None
    /\ registered \subseteq Sessions
    /\ attached \in BOOLEAN
    /\ session \in Sessions \cup {None}
    /\ info \in Games \cup {None}
    /\ snapshot \in Games \cup {None}

\* An attached bridge is the one of the game that is connected to the bridge's
\* session now, and not of an earlier game of that session: what run.status
\* says of it is true, and a command can reach no other game.
AttachedIsLive ==
    attached => session # None /\ slot[session] # None /\ info = slot[session]

\* The run has one game, whatever has become of it.
InRun(g) == gpc[g] \notin {"unused", "over"}
Alone == \A g, h \in Games : InRun(g) /\ InRun(h) => g = h

\* A game whose bridge is up, with nothing left to poll.
Settled(s) == slot[s] # None /\ gpc[slot[s]] = "ready" /\ inbox[s] = <<>>

\* In a run of one game: run.tree and run.prop.* answer from the attached game,
\* or that game's first snapshot is the next message to be polled.  Only then
\* can they answer from a game of an earlier run.
TreeIsAttachedGames ==
    Alone /\ attached /\ snapshot # info =>
        inbox[session] # <<>> /\ Head(inbox[session]) = "snapshot"

\* In a run of one game: the bridge of a game that is up is attached on that
\* game's session, whatever runs there were before and however they ended.
LoneBridgeAttached ==
    \A s \in Sessions : Alone /\ Settled(s) => attached /\ session = s

\* docs/DOCUMENTATION.md:124 says of `run tree`: "Returns `EDITOR_STATE` when
\* the runtime bridge is not attached."  While there is a bridge, one is.
SomeBridgeAttached == \A s \in Sessions : Settled(s) => attached
=============================================================================
