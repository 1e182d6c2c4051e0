# godotctl in TLA+

`godotctl` drives a Godot editor from the command line. A daemon (Go,
`src/cli/internal/daemon`) sits between the command line and the editor: the
editor's plugin (GDScript, `src/addons/godot_bridge`) keeps one websocket to
it, and each command is an HTTP request that the daemon turns into a message to
the plugin and an answer from it. This directory holds TLA+ models of the parts
that have state and order to get wrong, TLC runs of them, and TLAPS proofs.

## The system

| Component | State | Operations | Talks to |
|---|---|---|---|
| Broker (`daemon/ws`) | active connection, pending table, request counter, three locks | connect, hello, result, disconnect, invoke, timeout, cancel, shutdown | plugins over websockets, HTTP handlers through `InvokeTool` |
| Status store (`daemon/state`) | connected flag, project, tools, pending count | set and read, each under its mutex | written by the broker, read by `/status` and `/tools/list` |
| HTTP server and lifecycle (`daemon.go`, `daemon/httpserver`) | the process's phase, the owner token | tool call, status, tools list, stop; drain and exit | the command line, the broker |
| Plugin's daemon client (`daemon_client.gd`) | socket, backoff, the daemon it started, its owner token | probe, start a daemon, connect, hello, execute, reconnect, stop | the daemon |
| Tool executor (`tool_executor.gd`) and tool schemas (`misc/describe_tool.gd`) | a table of tools | dispatch a call, refuse it, normalise its answer | the tools |
| Scene tools (`tools/scene`, `scene_store.gd`) | a scene file | create, add, copy, instance, remove, rename, reparent, properties, groups, signals | the engine and the file system |
| Runtime bridge, editor side (`runtime_bridge_service.gd`, `runtime_debugger_capture.gd`) | debug sessions, attached session, snapshot, log ring | `run.*` tools, debugger messages, session start and stop | the editor's debugger, games |
| Runtime bridge, game side (`runtime_bridge.gd`) | the time of the last snapshot, steps under way | ready, snapshot, exit, input, step | the editor's debugger |
| Settings stores (`project_settings_store.gd`, `autoload_store.gd`, `input_map_store.gd`) | the engine's settings, `project.godot`, the InputMap | set, add, remove | the engine |
| Documents (`json_document_store.gd`, `cfg_document_store.gd`, `import_settings_store.gd`) | files | get, set and remove at a JSON pointer or a section and key | the file system |
| Script and resource tools (`tools/script`, `tools/resource`) | files | create, edit, attach, set a property | the engine and the file system |
| Dependency graph (`project_dependency_graph.gd`) | none | build and traverse | the file system |
| Addon packager and installer (`cmd/packageaddon`, `addonbundle/install.go`) | the embedded archive, the project's addon directory | package; install, force | the file system |
| Command line (`cli/internal/cli`) | none | flags to one request, errors to exit codes | the daemon |

Where it is hard:

* **Concurrency.** Each tool call and each websocket is a goroutine. They meet
  at `connMu`, `writeMu` and `pendingMu`, but no lock covers a whole handler: a
  call reads the connection before it registers, a hello is read before it is
  applied, the store is cleared before the pending table is.
* **Failure.** Plugins stop reading, drop, come back, and take each other over.
  Calls time out and are cancelled while their result is under way. Saves fail.
* **Order.** A game's messages arrive on the editor's main thread after it has
  gone, and another game takes its debug session. A tool that waits on that
  thread keeps what it waits for from arriving.
* **Half-done work.** Files are written in place: an installation, a package or
  a save may stop in the middle, and the next run meets what it left. A tool
  that fails after its save has changed what it says it has not.
* **Words for outcomes.** A tool's error code becomes a daemon's code, a kind
  and an exit status; a script that retries on one of them relies on what it
  says of the project.
* **Time.** Tool calls have a timer, and the plugin waits between attempts to
  connect and to start a daemon; socket reads and writes have no deadline.

What each component has to keep right is stated with its module below; the
hazards, each at its line, are the list `hazards` of `PROJECT.json`.

## Modules

### ToolCall

What `POST /tools/call` promises, without any broker: a call is answered once;
a result is the call's own; a call that was refused is never run; none runs
twice; and a call may be given up, which promises nothing.

### Broker

The daemon, implementing `ToolCall`. One action is one lock section or one step
between two of them. `connMu` and `writeMu` are variables, because code runs
under them (failing all waiters under the first, a socket write under the
second); sections of `pendingMu` and of the store's mutex never wait and are
part of the action around them.

| In the model | In the code |
|---|---|
| `hpc[x]`: a connection's handler | `handleWS`: `setActiveConn`, the hello, `SetConnected`, welcome, results, and the deferred `clearActiveConn` in its three steps |
| `pc[c]`: a call | `handleToolCall` (`Accept`) and `InvokeTool`: `GetConn`, `Register`, then `Reject` of a call that has no proper name (`Checked`), or `LockForInvoke`, `SendInvoke`, and `ReceiveResult`, `ReceiveError`, `Timeout` or `Cancel` |
| `reply[c]` | the call's `pendingCh`, of capacity one |
| `errId[b]` | `RequestID` of the one error value that a `failAllPending` hands to all waiters; `WrapPendingError` reads and writes it without a lock |
| `pluginConnected`, `advertiser`, `pendingRequests` | the status store; `advertiser` stands for the project and tools of a hello |
| `link`, `toPeer`, `toDaemon` | a socket; `WireCap` messages fit on the plugin's side, then a write waits |
| `phase` | `Start`: up, draining, websocket server down, waiters failed, stopped, exited |
| `PeerConnect`, `PeerHello`, `PeerRead`, `PeerDrop` | `daemon_client.gd`, as far as the broker can see it |

Properties: `PendingIsUnanswered` (the table is exactly the calls in flight
without a reply, so no send under `pendingMu` can wait and no entry leaks),
`PendingCountAccurate`, `StatusTrueUntilTakeover`, `SharedErrorId`,
`ImplementsToolCall`; `EveryCallReturns`, `DisconnectNoticed`, `StopCompletes`.

Left out: `connectedSince` (display), pings (no side sends one), tool arguments
and results, and the wording of errors. The owner token of `/daemon/stop` is in
`EditorDaemon`.

### RuntimeBridge

The editor's side of running games: which sessions are registered, which game
the bridge is attached to, which game the snapshot is of. Games are used once
each; a game starts (`Play`), connects to a free debug session or a new one,
becomes ready (attached and a first snapshot), sends snapshots, and quits,
crashes or is stopped. What a game sent waits in `inbox` until the editor polls
the session (`Capture`); what was not polled when the session stops is lost.

The editor itself is external and modelled as the engine documents it: a debug
session is set up once (`_setup_session`), is used by one game after another,
and emits `stopped` each time. `AttachedIsLive` rests on this.

Left out: `running_hint` (used only when there is no editor interface, and the
service lives inside one), the requested scene path, the contents of snapshots
(a snapshot is the game it describes), and log rows, which are `RunLog`'s.

### RunLog

The log ring and `run.logs`. `Capture` appends on the editor's main thread;
a request lists at once, or follows: it looks, finds nothing, and sleeps on
that thread (`follower`) until its window has passed. Rows are their cursor and
level; a reader's filter is the set of levels it wants. Properties: `RingIsNewest`,
`ReadOnce`, and `MessagesAreLogged`, that a message is logged in the end although
requests hold the thread that would log it.

### ProjectSettings

The tools that change settings. Each changes the engine's settings in memory
and saves; a save can fail, and so can the refresh after it (`Save`). The input
tools then load the InputMap (`Reload`). `unsaved`, `unloaded` and `last` are
history: what was reported, and what a caller was last told. `EditorSave` and
`Restart` are the editor's own.

### EditorDaemon

Plugins, the daemons they start, and the two ports all of them use. The module
looks at connections from far off: one that is made, greeted, welcomed or lost;
what passes over it is `Broker`'s.

| Model | Code |
|---|---|
| `sock[c]` | `_socket` with `_connecting` and `_hello_sent`; "gone" once the plugin has stopped or its editor has crashed |
| `tried`, `cooling`, `owns` | `_auto_start_attempted_this_connect`, `_next_auto_start_at_msec`, `_owns_daemon` |
| `proc[d]`, `ws[d]`, `http[d]` | `Daemon.Start`: the two listeners, each of which gets its port or fails, then the shutdown in its two halves |
| `token[d]`, `active[d]` | the owner token it was started with; its active connection |
| `stops` | `daemon stop --owner-token` commands that a plugin launched as it left |

A client is one life of a plugin and is its own owner token. The stop command
reaches whichever daemon has the HTTP port by then. Properties: `StoppedByOwner`
(action), `DoomedDaemonEnds`, `LoneClientServed`. The latter says that one
plugin left alone comes to be served, whatever daemons others left behind. Two
plugins at one daemon supersede each other for as long as both run: each closes
the other's socket and the other reconnects, and a welcome resets the backoff
(`daemon_client.gd:355`).

Left out: the length of the backoff; the search for an executable.

### CommandLine

One run of the `godotctl` binary. cobra parses, a command checks its flags,
`CallTool` sends one request, the answer is put into a kind (`Classify`) and the
kind becomes the exit status (`ExitCode`). The daemon on the other side is
`ToolCall` (`INSTANCE`), which `Broker` implements, so whatever is shown here of
a command holds of a command that talks to `Broker`. That nobody listens, that
another program answers on the port, that the daemon dies under the request and
that the client's own timeout ends while an answer is under way are alternatives
of `DoFails` and `DecodeFails`.

| Model | Code |
|---|---|
| `phase`, `exit`, `printed` | the way of `main` through `root.Execute` and the presenter |
| `request`, `response` | the two messages of `client/tool_call.go` |
| `call`, `ran`, `toolSaid` | what became of the call in the daemon and the plugin, whoever still waits for it |

### AddonInstall

`packageaddon`, which may fail or be killed at each step and be run again, the
build that embeds what it left, and `install-bridge`: the directory as an
earlier version, an earlier failure or nobody left it (`Targets`), removed and
then extracted, file by file and in place.

### ToolContract and Commands

`ToolContract` is the table of `describe_tool.gd` (what each tool needs and may
be given) and the refusals that the first lines of each tool make of a request
by itself. `Commands` has one action per command of the binary: its checks and
the request it sends, from flags that are set to anything or left alone.
Properties: `RequestFitsTool` (no command sends what its tool refuses unseen:
the two lists are in two languages and nothing but this compares them),
`ExitZeroDone`, `ExitOneUntouched`, `InstalledWhole`.

### Documents, SceneTree and ProjectFiles

`ProjectFiles` is a file of the project (`kind` says of which sort) under the
tools that change it. A call runs from its beginning to its end on the editor's
main thread, without an await, so a call is one action; what is between calls is
the file and nothing else. A save may fail before it begins, may fail with the
file half written (`Torn`), may pass and be followed by a refresh of the editor
that fails, and, for text files, may fail without anyone looking (`SaveText`).
The next call meets what is there.

`Documents` has what the tools compute: a JSON document is a function from the
places in it (sequences of keys) to a scalar or `Object`; an array is a scalar,
as no pointer enters one; a pointer is its tokens before the empty ones are
dropped. A config file is a function from pairs of section and key. `SceneTree`
has the engine's trees: a node is the engine's object, with its children in
order, its name, one group, one property, and connections of one signal to one
method, each standing for all of its sort. `Pack` drops the nodes that the root
does not own, which is how a tool that forgets an owner loses nodes without an
error.

Three things happen on the way that a caller may not expect. A JSON object whose
`type` names an engine type is decoded to a value of it, of which the JSON file
gets the text (`Decoded`). A tool that sets a property may set `owner` and `name`
too: to take the owner away is to remove the node at the next save, and a name
that is taken is numbered by the engine (`Assigned`). And an instanced scene may
have a node inside (`inside`), which the engine supplies as the instance's first
child each time it opens the scene; the scene in the model is the opened one.
`assign_owner_recursive` makes the root own that node too, so that it is saved as
a node of the scene as well, and comes back beside the supplied one, which has
its name: the engine numbers it (`SaveOwned`, `WithInner`, `LoadsAs`).

Properties: `SceneIsTree`, `NothingVanishes` and `ReparentIsExact` of scenes;
`JsonWriteIsRead` and `ConfigWriteIsRead` (after a set a get finds the value,
typed objects as their texts, and nothing else has moved); and
`RefusedUntouched`, that an error which blames the call has left the file alone. The last is what exit status 1 says of a tool
that ran (`ExitOneUntouched` in `Commands`), tool by tool.

### MC modules and proof modules

`MCBroker`, `MCRuntimeBridge`, `MCRunLog`, `MCProjectSettings`,
`MCEditorDaemon`, `MCCommands` and `MCProjectFiles` give the constants their
values. `BrokerProofs`, `RuntimeBridgeProofs`, `RunLogProofs`,
`ProjectSettingsProofs`, `EditorDaemonProofs`, `CommandProofs`,
`SceneTreeProofs` and `ProjectFilesProofs` hold theorems. An operator whose
comment begins with "Mutant" is a plausible bug in the operator after it; with
it in place, the property that names it in `PROJECT.json` is violated.

## Runs

| Run | Question | Bounds | States |
|---|---|---|---|
| `broker_safety` | Do the table, the store and the promise of `ToolCall` survive takeovers, drops, timeouts and cancels? | 2 connections, 2 calls, no shutdown | 548,857 |
| `broker_stop` | Are calls answered, also from behind `writeMu`, and lost plugins noticed, does a shutdown at any moment end, and does it keep the promises? | 1 connection, 2 calls | 220,863 |
| `status_after_takeover` | Is `/status` true once things have settled? **No.** | 2 connections | violated |
| `runtime_bridge` | Is the attached game the one that is there? | 3 games, 2 sessions, 2 games to a run, 2 messages waiting | 25,078 |
| `runtime_two_games` | Is some bridge attached while one is up? **No**, with two games in a run. | 2 games | violated |
| `run_log` | Do readers get each row once, and is every message logged although a follower holds the main thread? | ring of 3, 5 rows, 2 readers, pages of 0, 1 and 2 | 5,872 |
| `project_settings` | What do failed saves leave behind? | one setting of each kind | 219,516 |
| `settings_retry` | Does success mean that the setting is saved? **No**, on a retry. | one setting of each kind | violated |
| `editor_safety` | Who stops whose daemon? | 2 plugins, 2 daemon processes at a time, the command line | 518,489 |
| `editor_liveness` | Do useless daemons end, and is the last plugin served? | 2 plugins, 2 daemon processes, nobody at the command line | 164,290 |
| `commands` | Does each command ask what its tool takes, and do the exit status and an installation mean what they say? | flags of 3 texts and 4 numbers; an addon of 2 files, 1 stale file | 78,875 |
| `project_files` | What do the tools leave in a file, over any sequence of calls and failed saves? | 2 keys, 9 pointers, 7 values; 2 sections; 4 nodes | 17,876 |

Why the bounds are enough for what they ask. Takeover needs two connections;
an error shared between waiters, a lock that one call holds against another,
and a result that meets the wrong entry each need two calls. `WireCap = 1` is
the smallest socket that can be full, which is when a write waits with
`writeMu` held. Shutdown against a takeover (two connections *and* `MayStop`)
is left to the proofs, which bound nothing. Three games make a run of two after
a run of one, on sessions that were used before. Five rows in a ring of three
drop rows behind one reader while another has read them. One setting of each
kind is enough as a tool names one key, and the others are then "other keys".
Two plugins and two processes are what it takes for a split of the ports and
for a plugin to meet the daemon that another has left; where every process is in
use, a launch fails, as it may. `editor_liveness` has nobody at the command line (`MayUseHand`), since a
daemon that is stopped again and again serves nobody for good; a daemon started
by hand is to a plugin like one whose owner has crashed, which the run has.
`editor_safety` uses symmetry, of plugins and of processes, as it checks no
liveness.

In `commands`, three texts are an empty one, one of white space and another,
and numbers go from -2 to 1, one to each side of every bound that a flag has.
Two files make an installation that stops between two, and the stale one is what
a removal must take. In `project_files` the pointers are `""`, one without a
slash, `/`, `/a`, `/b`, `//a`, `/a/`, `/a/b` and `/b/a`: empty tokens at each
end, a scalar in the way of the longer ones, and a second branch that a set must
leave; the values have a typed object, one inside an object, and one that lacks a
field. Four nodes are a tree with a subtree beside another, to be moved, copied
and removed; all want the same name, the one inside an instance among them, and
`MaxNameLength` lets a tool's name grow by one suffix. `MaxSize` bounds the scene
that a tool adds to: its nodes, and the memberships, connections, values,
instances and numbered names that they have. One case needs a fifth node and is
left to the proofs: an instance that has two saved inner nodes is moved, and the
number of one of them changes. The run has `VIEW KindAndFile`, as no action reads the last
answer (TLC still checks the action properties on every step), and symmetry of
the nodes other than the root, as it checks no liveness.

`CHECK_DEADLOCK FALSE` is set where the modelled actors are used up: every
connection and call is made at most once and the daemon may exit, every
game runs at most once, plugins may all have left, and a command ends.

### Fairness

`FairSpec` of `Broker` says what the Go runtime gives: a goroutine that can run
does (weak fairness of each handler, each call that was accepted, and the
shutdown), and timers fire (`Timeout`). It assumes nothing of the other side: a
plugin need not connect, read or drop, and a caller need not cancel. Nor does it
let a call out of its wait for a lock: whether a call is invalid is settled when
it is registered, and one that is not can only wait until `writeMu` is free, which
comes about as each holder lets go. `EveryCallReturns` needs a
premise, that plugins keep reading: without it the model shows a call stuck in
`writeJSON`, which has no deadline and holds the write lock, with every later
call behind it and no timer yet made. `StopCompletes` needs no such premise:
the drain has a time limit and closing the socket frees the write.

`FairSpec` of `RunLog` says that a window passes (`EndFollow`) and that the
editor polls the debugger again and again (strong fairness of `Capture`): every
iteration of its main loop does, and an iteration serves the requests that its
socket has already received, which are finitely many. The next iteration may
begin with another request that follows, so weak fairness would not do.

`FairSpec` of `EditorDaemon` says that `_process` is called while the editor
runs (`Progress`), that time passes (`CoolDown`), that launched stop commands
run, and that daemons do. Nobody has to start, stop or crash, and the watchdog
need not fire. One relation between times is in a guard: a cooldown (15 s)
outlasts the life of a process that has missed a port (`Starting`), which binds
at once and then shuts down two servers, with 5 s for each. With less,
`LoneClientServed` fails: a plugin can start a daemon while the last one still
holds a port, and the two split the ports again, for ever.

## What the runs found

Each violated property is what the documentation says, word for word in the
module's comment and in `findings` of `PROJECT.json`.

* A hello read on a connection that has been superseded is still applied
  (`handler.go:59`). `/status` can report a connected plugin when there is none,
  for good.
* `bridge_detached` clears the attached flag whichever session sent it
  (`runtime_bridge_service.gd:505`): of two games, the one that quits detaches
  the other.
* A setting that could not be saved stays changed in memory, and the retry
  answers success without saving (`settings_set_tool.gd:46`).

More was seen that no line of the repository denies, and is in the model without
a run that expects it to fail:

* By the same late hello `/tools/list` can show the tools of a plugin that is no
  longer connected (`advertiser` in `Broker`).
* A debug session that has stopped is forgotten and not registered again when
  the next game uses it (`runtime_debugger_capture.gd:38`), so commands to the
  second run find no session. This rests on how the engine uses its sessions
  again, which is external.
* The documentation says that `--follow` is a "polling window [...] for
  incremental log streaming" (`docs/DOCUMENTATION.md:115`). A request whose first
  look finds nothing sleeps on the thread that would log new rows
  (`runtime_bridge_service.gd:165`), so its window always ends as empty as it
  began, and what arrives meanwhile is for the next request: in `RunLog` that is
  plain to see, `Capture` and the sleep exclude each other as they do in the
  code, so no run searches for it. What is checked is that nobody waits for good
  (`MessagesAreLogged`).
* The retry of an input tool that could not save finds the binding in memory,
  answers success and loads nothing (`input_map_store.gd:88`), so the InputMap
  stays behind until an input tool changes something and saves it, or the editor
  restarts (`unloaded`, `InputMapFollows`).
* An autoload that the engine refuses is reported as added (`AutoloadAdd`).
* JSON pointers drop their empty tokens: `//a` and `/a/` are `/a`. The pointer
  `/` is the whole document for a get, and stops the script for a set and a
  removal (`json_document_store.gd`: the last of no tokens), which is answered as
  `INTERNAL`; for a removal only when the document is an object.
* A set of `{}` at the root of a file that is missing, with `create`, answers
  that nothing changed and makes no file. A blank file is `{}`.
* `file.cfg_set` with `null` erases the key. `file.cfg_remove` with a blank key
  removes the section.
* A text file that was not written whole is reported as written: nobody looks at
  what `store_string` returns.
* `script.edit` writes the file again when nothing in it matches.
* A connection that is there with other flags counts as the one asked for
  (`SignalConnect`), and keeps its flags; with `CONNECT_REFERENCE_COUNTED` among
  them the scene is saved and the answer is that something changed.
* "Sets one JSON value by JSON Pointer" (`docs/DOCUMENTATION.md:784`): of an
  object whose `type` is `Vector2`, `Vector3`, `Color` or `NodePath` the file gets
  a text such as `(1, 2)`, and a get finds that (`value_decoder.gd:55`,
  `json_document_store.gd:100`; `Decoded`).
* An instanced scene with nodes inside is saved with those nodes a second time,
  as nodes of the scene, and opened with both; moving or copying the subtree adds
  them once more (`instance_scene_tool.gd:73`, `reparent_node_tool.gd:93`,
  `duplicate_node_tool.gd:62`, `node_path_service.gd:90`; `SaveOwned`). What is
  saved is still a tree with siblings that differ in name, because the engine
  numbers them (`SceneIsTree`).
* `scene set-prop` and `scene node configure` with `owner` and `null` remove the
  node and all below it from the saved scene, and with `name` they rename it, also
  to what the caller did not ask for when a sibling has the name
  (`property_assignment_validator.gd:52`; `Assigned`).
* `daemon start` announces that it listens before it does (`Announce`), and may
  print an error after that success.

## Proofs

Everything below holds for every value of the constants (any number of calls,
connections, games, sessions, readers, rows, settings), from the assumptions
named in each module and no others. Every invariant and action property of a
passing run is stated by a theorem, and so is the refinement.

* **Broker** (`BrokerProofs`). `PendingIsUnanswered` is not inductive: a
  registration must meet an id nobody uses, or it would push another call out of
  the table; and a call that gives up removes its own id. So the invariant adds
  `Ids` (ids are unique and at most `nextId`), `Issued` (who is past
  registration has an id), `Fresh` (who is not has neither id nor reply) and
  `ErrorHeld` (who wraps an error has one). From it: `TypeCorrect`,
  `TableCorrect`, and with lemmas on how a registration, a removal and a
  failAll change the table's size `CountCorrect`. `StatusCorrect` and
  `IdCorrect` have invariants of their own.
* **Broker implements ToolCall** (`Implementation`). The mapping reads a call's
  abstract state off `pc`, `answer` and `executed`, so the proof has to follow a
  call over the wire. `WireInv`: a message that asks for a call is about one that
  was sent and whose tool has not run (`InvokesWait`), there is one such message
  in all channels (`InvokedOnce`), no tool has run twice (`RanOnce`), and a
  result, in a channel (`ResultsRan`) or as a reply (`RepliesRan`), is of a tool
  that has run. A step that takes, sends or loses a message is then a step or a
  stutter of `ToolCall`. `Delivered` (no call gets another call's result, and
  one that was delivered ran once) is what a plugin needs that runs a tool: the
  call is not one that has been delivered.
* **RuntimeBridge**. `BridgeIsLive` (`AttachedIsLive`): messages wait only on a
  session that has a game, so an attached bridge is that game; and every way a
  session loses its game tells the service, unless the service has been told.
  `TreeIsCurrent` and `LoneIsAttached` are about runs of one game (`Alone`) and
  need `RunInv`: a session's game has connected to it and to no other
  (`SlotsInRun`); between runs there is none (`IdleIsEmpty`); of a game's
  messages "attached" is the first, with a snapshot next to it, and "detached"
  the last (`QueueShape`); and a lone game is attached from the moment its first
  message is polled, with its snapshot in place or next (`LoneGame`). `Alone`
  says that any two games in the run are one, which needs no counting.
  Of several games neither need be true: the run of `MCRuntimeTwoGames.cfg` has
  a game that quits and detaches another.
* **RunLog**. `LogKeepsNewest`, `LogReadOnce`. `ReadOnce` rests
  on rows having consecutive cursors: what is not beyond the cursor was in some
  page, or was dropped.
* **ProjectSettings**. Every tool is shown to be an `Effect` on the one key it
  names (an answer, or one value and a save); `SettingsReported`,
  `SettingsLoaded` and the action property `SettingsKept` follow from it.

* **EditorDaemon**. `OnlyOwnersStop` (`StoppedByOwner`) rests on one fact more
  than types, `StopsFollowLeaving`: only a plugin that has left has a stop
  command under way. A request that comes late then either meets another token,
  or the daemon of a plugin that is gone.

* **Commands** (`CommandProofs`). The invariant has two halves. `CallInv` says
  what a response means from the moment it is written until the process has
  ended: an answer without an error was a tool that ran and was done, and a
  refusal as invalid was either the daemon's, before any tool ran, or the
  tool's own. That a tool which has not run by the end of a validation error
  never runs is the part that needs `ToolCall`: a refused call stays refused.
  `ExtractInv` says that in an extraction the files in place and those still to
  do are together the archive, and each in place is new. From it:
  `ZeroIsDone`, `OneIsUntouched`, `InstallIsWhole`, for any flags, any set of
  texts and any addon. Commands differ only in what they `Submit`, so one lemma
  (`SubmittedKeeps`) serves all of them.
  `RequestsFit` compares the two tables, the command line's and the tools', for
  any texts in the flags: a command `Sends` its arguments to a tool whose row
  they `Fit`, one leaf for each command. Eight tools take arguments that exclude
  or call for one another (`Picky`), and there the command's own checks of its
  flags are what keeps the request from being refused: a lemma for each. The
  model joins argument records by an operator of its own, as the provers know
  nothing of the library's `@@`.
* **ProjectFiles** (`ProjectFilesProofs`). Facts about places first: what is
  put at a place is read from it (`PutIsRead`), what is not inside it is kept
  (`PutKeeps`), and both a put and a cut leave a document (`PutIsDocument`,
  `CutIsDocument`), for any keys and depth. Then a lemma for each tool that says
  how its calls end. `JsonWritesAreRead`, `ConfigWritesAreRead` and
  `RefusalsChangeNothing` are action properties under the inductive `TypeOK`;
  the refusals hold of scenes too.
* **Scenes** (`SceneTreeProofs`, and the theorems in `ProjectFilesProofs`).
  `ScenesAreTrees` has the inductive invariant `SceneIsWhole`: a scene file that
  can be read is `Whole`: it has the shape of a scene (`Shaped`) and is a tree
  (`IsScene`). `ScenesLoseNothing` and `ReparentsAreExact` follow from how each
  tool changes a whole scene, for any nodes, names and depth. A subtree is the
  least set of nodes closed under children (`SubtreeLeast`), which replaces an
  induction along paths: to show that a node reaches no more than some set, show
  that the set is closed; to show that the root reaches every node, show that
  each closed set with the root in it has them all. The lemmas go from sequences
  of children (`WithoutElements`, `InsertElements`, `AppendElements`), through
  what a change leaves of reachability (`OutsideStays`, `NotAbove`: a node that
  is not below the moved one is reached as before), to the tools: `LeafAdded`,
  `SubtreeRemoved`, `Replanted`, `MovedWithin` and `MovedAway`, `Copied`.
  `PackAll` is where ownership counts: packing drops nothing of a tree whose
  nodes the root owns, and the lemma of each tool has to show that it has made
  the root their owner. `NameResolved` says that the search for a free name,
  which in the code counts up without a bound, finds one: fewer siblings than
  suffixes. `InnerAdded` is about the inner nodes of instances: with them added a
  scene is still whole, and has kept everything else (`Exposed`). What is asked
  there of the engine's numbered names is that they are none of the siblings'.

Some assumptions are there for the provers' sake. `FileAssumption` says of each
pointer that its tokens are a sequence of keys (the provers cannot reason about
the `SelectSeq` that drops the empty ones), and it and `InnerAssumption` of each
name that it is a sequence; of the text of a typed object it says that JSON can
hold it. TLC evaluates them for the values of the run.

Only model-checked: the six liveness properties (`EveryCallReturns`,
`DisconnectNoticed`, `StopCompletes`, `MessagesAreLogged`, `LoneClientServed`,
`DoomedDaemonEnds`),
as fairness and `ENABLED` are beyond the prover. The three statements that the
code violates are TLC's counterexamples.

## Plan

1. `GameStep`: overlapping frame steps of a paused game, with the game side's
   `_process`.
2. The dependency graph, as a recursive function over a bounded project.

## Not modelled, and why

* **Tools that only read** (classes, files, scene trees, settings, lists). One
  pass over the engine's data into a response; they keep and change nothing.
  Those whose answer depends on history (`run.logs`, `run.tree`) or on what a
  write left (`file.json_get`, `file.cfg_get`) are modelled.
* **Dependency graph** (`project_dependency_graph.gd`). No state and no order;
  what decides it is how the engine parses files.
* **Frame steps of the game** (`runtime_bridge.gd:181`). Two that overlap
  disturb each other; no document says what they should do. `RuntimeBridge` has
  the game as what sends messages.
* **`project import reimport`**: it changes what the engine has imported, and no
  file of the tools.
* **Registration of tools** at the plugin's start: a fixed table.
* **Shell scripts and workflows** of the release: build tooling.
* **The engine** is external everywhere, modelled from how the code uses it:
  how it makes a node's name valid, converts a JSON value to a property's type,
  makes a name free, supplies the inside of an instanced scene (first among the
  instance's children; nothing or one node here), or caches a scene.
  `scene_store.gd:28` loads scenes through that cache, so with the scene open in
  the editor a tool may start from something older than the file; the model
  reads the file.
* **The file system** is a local one: a file is there or not, whole or torn, and
  no other program writes to it in the middle of a call. An error of `Close`
  after a whole copy is ignored by `install.go:115`, and by the model.
* **Numbers and wording.** The overflow of `--timeout-ms`, the text that is
  printed, decoding of input events, and the layout of responses are data that
  no property here is about. Timeouts are in the models as something that may
  happen at any moment; that `run logs --follow` may wait as long as the
  daemon's own timeout is real time, and is a hazard without a property.
* **Inside an instance**: node paths that lead to the nodes of an instanced
  scene (what a tool changes there is not saved), connections to them, instances
  inside instances, and more than one node.
* **Other properties of a node** that mean something to the engine
  (`scene_file_path`, say), and null for a property that is not `owner`, of which
  the engine decides what it becomes. One property of `node_configure` stands for
  several.
* **Typed objects in arrays**, as an array is a scalar.
* **Error codes that no daemon sends**: for those the client looks for two
  phrases in the text before it falls back to the tool's code (`Classify`).
* **Import settings** are taken with a key of one part; keys whose parts are
  blank are left out.
