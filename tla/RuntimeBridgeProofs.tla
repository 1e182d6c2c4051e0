------------------------ MODULE RuntimeBridgeProofs ------------------------
(***************************************************************************)
(* Proofs about RuntimeBridge, for any number of games and sessions.       *)
(***************************************************************************)
EXTENDS RuntimeBridge, SequenceTheorems, TLAPS

\* AttachedIsLive is not inductive alone: a new session must not have a game
\* yet, or the bridge's session could change hands.
ConnectedIsCreated == Connected \subseteq created

IInv == TypeOK /\ ConnectedIsCreated /\ AttachedIsLive

\* Sending keeps a family of queues typed.
LEMMA SendAt ==
    ASSUME NEW S, NEW D, NEW q \in [D -> Seq(S)], NEW d, NEW e \in Seq(S)
    PROVE  [q EXCEPT ![d] = @ \o e] \in [D -> Seq(S)]
<1>1. \A i \in D : q[i] \o e \in Seq(S)
  OBVIOUS
<1> QED  BY <1>1

LEMMA InvInit == Init => IInv
<1> SUFFICES ASSUME Init PROVE IInv
  OBVIOUS
<1>1. None \notin Games \cup Sessions /\ <<>> \in Seq(Events)
  BY RuntimeAssumption
<1>2. TypeOK
  BY <1>1 DEF Init, TypeOK
<1>3. ConnectedIsCreated /\ AttachedIsLive
  BY DEF Init, ConnectedIsCreated, Connected, AttachedIsLive
<1> QED  BY <1>2, <1>3 DEF IInv

\* Starting a run touches no session.
LEMMA PlayStep ==
    ASSUME IInv, UserPlay \/ Start
    PROVE  IInv'
<1> USE DEF editorVars, gameVars, bridgeVars, serviceVars
<1>1. Play /\ UNCHANGED <<created, slot, inbox, registered>> /\ playing' = TRUE
  BY DEF UserPlay, Start, Play
<1>2. \/ UNCHANGED <<bridgeVars, snapshot>>
      \/ attached' = FALSE /\ session' = None /\ info' = None /\ snapshot' = None
  BY DEF UserPlay, Start
<1>3. gpc' \in [Games -> {"unused", "loading", "connected", "ready", "exited", "over"}]
  BY <1>1 DEF Play, IInv, TypeOK
<1>4. TypeOK'
  BY <1>1, <1>2, <1>3 DEF IInv, TypeOK
<1>5. ConnectedIsCreated' /\ AttachedIsLive'
  BY <1>1, <1>2 DEF IInv, ConnectedIsCreated, Connected, AttachedIsLive
<1> QED  BY <1>4, <1>5 DEF IInv

\* A session is given to a game only when it has none.
LEMMA ConnectStep ==
    ASSUME IInv, NEW g \in Games, NEW s \in Sessions, Connect(g, s)
    PROVE  IInv'
<1> USE DEF editorVars, gameVars, bridgeVars, serviceVars
<1>1. slot[s] = None
  BY RuntimeAssumption DEF Connect, Free, IInv, ConnectedIsCreated, Connected, TypeOK
<1>2. /\ slot' = [slot EXCEPT ![s] = g] /\ s \in created'
      /\ created \subseteq created' /\ created' \subseteq Sessions
      /\ registered' \subseteq Sessions
      /\ UNCHANGED <<playing, inbox, bridgeVars, snapshot>>
  BY DEF Connect, Free, IInv, TypeOK
<1>3. gpc' \in [Games -> {"unused", "loading", "connected", "ready", "exited", "over"}]
  BY DEF Connect, IInv, TypeOK
<1>4. slot' \in [Sessions -> Games \cup {None}] /\ g # None
  BY <1>2, RuntimeAssumption DEF IInv, TypeOK
<1>5. TypeOK'
  BY <1>2, <1>3, <1>4 DEF IInv, TypeOK
<1>6. ConnectedIsCreated'
  BY <1>2 DEF IInv, ConnectedIsCreated, Connected, TypeOK
<1>7. AttachedIsLive'
  BY <1>1, <1>2 DEF IInv, AttachedIsLive, TypeOK
<1> QED  BY <1>5, <1>6, <1>7 DEF IInv

\* Whatever sessions stop, the service forgets the bridge of each of them.
LEMMA StopStep ==
    ASSUME IInv, NEW S \in SUBSET Sessions, Disconnect(S),
           registered' \subseteq registered,
           gpc' \in [Games -> {"unused", "loading", "connected", "ready", "exited", "over"}],
           playing' \in BOOLEAN,
           UNCHANGED <<created, info, snapshot>>,
           \/ attached' = FALSE /\ session' = None
           \/ /\ attached' = (attached /\ session \notin S)
              /\ session' = IF session \in S THEN None ELSE session
    PROVE  IInv'
<1>1. /\ slot' = [s \in Sessions |-> IF s \in S THEN None ELSE slot[s]]
      /\ inbox' = [s \in Sessions |-> IF s \in S THEN <<>> ELSE inbox[s]]
  BY DEF Disconnect
<1>2. slot' \in [Sessions -> Games \cup {None}]
  BY <1>1 DEF IInv, TypeOK
<1>3. inbox' \in [Sessions -> Seq(Events)] /\ \A s \in Sessions : inbox'[s] # <<>> => slot'[s] # None
  <2>1. <<>> \in Seq(Events)
    OBVIOUS
  <2> QED  BY <1>1, <2>1 DEF IInv, TypeOK
<1>4. attached' \in BOOLEAN /\ session' \in Sessions \cup {None}
  BY DEF IInv, TypeOK
<1>5. TypeOK'
  BY <1>2, <1>3, <1>4 DEF IInv, TypeOK
<1>6. ConnectedIsCreated'
  BY <1>1 DEF IInv, ConnectedIsCreated, Connected
<1>7. AttachedIsLive'
  <2> SUFFICES ASSUME attached'
               PROVE  session' # None /\ slot'[session'] # None /\ info' = slot'[session']
    BY DEF AttachedIsLive
  <2>1. attached /\ session \notin S /\ session' = session
    OBVIOUS
  <2>2. session \in Sessions /\ slot[session] # None /\ info = slot[session]
    BY <2>1 DEF IInv, AttachedIsLive, TypeOK
  <2>3. slot'[session] = slot[session]
    BY <1>1, <2>1, <2>2
  <2> QED  BY <2>1, <2>2, <2>3 DEF IInv, AttachedIsLive
<1> QED  BY <1>5, <1>6, <1>7 DEF IInv

LEMMA SessionStoppedStep ==
    ASSUME IInv, NEW s \in Sessions, SessionStopped(s)
    PROVE  IInv'
<1>1. /\ gpc' \in [Games -> {"unused", "loading", "connected", "ready", "exited", "over"}]
      /\ playing' \in BOOLEAN
  BY DEF SessionStopped, EndRun, IInv, TypeOK
<1>2. Disconnect({s}) /\ Unregister({s}) /\ UNCHANGED <<created, info, snapshot>>
  BY DEF SessionStopped
<1> QED  BY <1>1, <1>2, StopStep DEF Unregister

LEMMA RunStoppedStep ==
    ASSUME IInv, UserStop \/ Stop
    PROVE  IInv'
<1>1. /\ gpc' \in [Games -> {"unused", "loading", "connected", "ready", "exited", "over"}]
      /\ playing' \in BOOLEAN
  BY DEF UserStop, Stop, StopPlaying, EndRun, IInv, TypeOK
<1>2. /\ Disconnect(Sessions) /\ registered' \subseteq registered
      /\ UNCHANGED <<created, info, snapshot>>
  BY DEF UserStop, Stop, StopPlaying
<1>3. session \in Sessions => session \in Connected \/ ~attached
  BY DEF IInv, AttachedIsLive, Connected
<1>4. attached' = FALSE
  BY <1>3 DEF UserStop, Stop, Unregister, Connected, IInv, AttachedIsLive, TypeOK
<1>5. CASE Stop
  <2>1. attached' = FALSE /\ session' = None
    BY <1>5 DEF Stop
  <2> QED  BY <1>1, <1>2, <2>1, StopStep
<1>6. CASE UserStop
  <2>1. session' \in Sessions \cup {None}
    BY <1>6 DEF UserStop, Unregister, IInv, TypeOK
  <2>2. /\ slot' = [s \in Sessions |-> None]
        /\ inbox' = [s \in Sessions |-> <<>>]
    BY <1>2 DEF Disconnect
  <2>3. <<>> \in Seq(Events)
    OBVIOUS
  <2>4. TypeOK'
    BY <1>1, <1>2, <1>4, <2>1, <2>2, <2>3 DEF IInv, TypeOK
  <2>5. ConnectedIsCreated' /\ AttachedIsLive'
    BY <1>4, <2>2 DEF ConnectedIsCreated, Connected, AttachedIsLive
  <2> QED  BY <2>4, <2>5 DEF IInv
<1> QED  BY <1>5, <1>6

\* A game and its messages change nothing the service knows until it is polled.
LEMMA GameStep ==
    ASSUME IInv,
           \/ \E g \in Games : Crash(g)
           \/ \E s \in Sessions : Ready(s) \/ SendSnapshot(s) \/ Quit(s)
    PROVE  IInv'
<1> USE DEF editorVars, gameVars, bridgeVars, serviceVars
<1>1. CASE \E g \in Games : Crash(g)
  BY <1>1 DEF Crash, IInv, TypeOK, ConnectedIsCreated, Connected, AttachedIsLive
<1>2. CASE \E s \in Sessions : Ready(s) \/ SendSnapshot(s) \/ Quit(s)
  <2>1. PICK s \in Sessions : Ready(s) \/ SendSnapshot(s) \/ Quit(s)
    BY <1>2
  <2>2. PICK e \in Seq(Events) : inbox' = [inbox EXCEPT ![s] = @ \o e]
    <3>1. /\ <<"bridge_attached", "snapshot">> \in Seq(Events)
          /\ <<"snapshot">> \in Seq(Events) /\ <<"bridge_detached">> \in Seq(Events)
      BY DEF Events
    <3> QED  BY <2>1, <3>1 DEF Ready, SendSnapshot, Quit, Send
  <2>3. slot[s] # None /\ UNCHANGED <<editorVars, slot, serviceVars>>
    BY <2>1 DEF Ready, SendSnapshot, Quit
  <2>4. inbox' \in [Sessions -> Seq(Events)]
    BY <2>2, SendAt DEF IInv, TypeOK
  <2>5. gpc' \in [Games -> {"unused", "loading", "connected", "ready", "exited", "over"}]
    <3>1. /\ gpc \in [Games -> {"unused", "loading", "connected", "ready", "exited", "over"}]
          /\ slot[s] \in Games
      BY <2>3 DEF IInv, TypeOK
    <3>2. CASE Ready(s)
      BY <3>1, <3>2 DEF Ready
    <3>3. CASE SendSnapshot(s)
      BY <3>1, <3>3 DEF SendSnapshot
    <3>4. CASE Quit(s)
      BY <3>1, <3>4 DEF Quit
    <3> QED  BY <2>1, <3>2, <3>3, <3>4
  <2>6. \A t \in Sessions : inbox'[t] # <<>> => slot[t] # None
    BY <2>2, <2>3 DEF IInv, TypeOK
  <2>7. TypeOK'
    BY <2>3, <2>4, <2>5, <2>6 DEF IInv, TypeOK
  <2> QED  BY <2>3, <2>7 DEF IInv, ConnectedIsCreated, Connected, AttachedIsLive
<1> QED  BY <1>1, <1>2

\* What is polled was sent by the game that the session is connected to.
LEMMA CaptureStep ==
    ASSUME IInv, NEW s \in Sessions, Capture(s)
    PROVE  IInv'
<1> USE DEF editorVars, gameVars, bridgeVars, serviceVars
<1>1. /\ inbox[s] # <<>> /\ inbox' = [inbox EXCEPT ![s] = Tail(@)]
      /\ UNCHANGED <<editorVars, gpc, slot, registered>>
  BY DEF Capture
<1>2. inbox[s] \in Seq(Events) /\ slot[s] \in Games
  BY <1>1 DEF IInv, TypeOK
<1>3. inbox' \in [Sessions -> Seq(Events)]
  <2>1. Tail(inbox[s]) \in Seq(Events)
    BY <1>1, <1>2
  <2> QED  BY <1>1, <2>1 DEF IInv, TypeOK
<1>4. \A t \in Sessions : inbox'[t] # <<>> => slot[t] # None
  BY <1>1, <1>2, RuntimeAssumption DEF IInv, TypeOK
<1>5. CASE Attach(s) /\ UNCHANGED snapshot
  <2>1. attached' = TRUE /\ session' = s /\ info' = slot[s]
    BY <1>5 DEF Attach
  <2>2. TypeOK'
    BY <1>1, <1>2, <1>3, <1>4, <1>5, <2>1 DEF IInv, TypeOK
  <2>3. AttachedIsLive' /\ ConnectedIsCreated'
    BY <1>1, <1>2, <2>1, RuntimeAssumption
    DEF IInv, AttachedIsLive, ConnectedIsCreated, Connected
  <2> QED  BY <2>2, <2>3 DEF IInv
<1>6. CASE Detach(s) /\ UNCHANGED snapshot
  <2>1. attached' = FALSE /\ session' \in Sessions \cup {None} /\ UNCHANGED info
    BY <1>6 DEF Detach, IInv, TypeOK
  <2>2. TypeOK'
    BY <1>1, <1>3, <1>4, <1>6, <2>1 DEF IInv, TypeOK
  <2>3. AttachedIsLive' /\ ConnectedIsCreated'
    BY <1>1, <2>1 DEF IInv, AttachedIsLive, ConnectedIsCreated, Connected
  <2> QED  BY <2>2, <2>3 DEF IInv
<1>7. CASE snapshot' = slot[s] /\ UNCHANGED bridgeVars
  <2>1. TypeOK'
    BY <1>1, <1>2, <1>3, <1>4, <1>7 DEF IInv, TypeOK
  <2>2. AttachedIsLive' /\ ConnectedIsCreated'
    BY <1>1, <1>7 DEF IInv, AttachedIsLive, ConnectedIsCreated, Connected
  <2> QED  BY <2>1, <2>2 DEF IInv
<1> QED  BY <1>5, <1>6, <1>7 DEF Capture

\* Every behaviour of the service keeps the invariant.
THEOREM BridgeInvariance == Spec => []IInv
<1>1. IInv /\ [Next]_vars => IInv'
  <2> SUFFICES ASSUME IInv, [Next]_vars PROVE IInv'
    OBVIOUS
  <2>1. CASE Next
    BY <2>1, PlayStep, ConnectStep, SessionStoppedStep, RunStoppedStep, GameStep, CaptureStep
    DEF Next
  <2>2. CASE UNCHANGED vars
    BY <2>2 DEF vars, editorVars, gameVars, bridgeVars, serviceVars,
                IInv, TypeOK, ConnectedIsCreated, Connected, AttachedIsLive
  <2> QED  BY <2>1, <2>2
<1> QED  BY InvInit, <1>1, PTL DEF Spec

\* The handlers of the service keep the types of its state, and no message is
\* polled from a session without a game.
THEOREM BridgeTypes == Spec => []TypeOK
<1>1. IInv => TypeOK
  BY DEF IInv
<1> QED  BY BridgeInvariance, <1>1, PTL

\* However many games and sessions there are, an attached bridge is that of the
\* game its session is connected to now: commands reach no other game.
THEOREM BridgeIsLive == Spec => []AttachedIsLive
<1>1. IInv => AttachedIsLive
  BY DEF IInv
<1> QED  BY BridgeInvariance, <1>1, PTL

-----------------------------------------------------------------------------
(* What one game's messages do                                             *)

\* A session's game has connected to it, and to no other session.
SlotsInRun ==
    /\ \A s \in Sessions : slot[s] # None => gpc[slot[s]] \in {"connected", "ready", "exited"}
    /\ \A s, t \in Sessions : slot[s] # None /\ slot[s] = slot[t] => s = t

IdleIsEmpty == playing \/ \A g \in Games : ~InRun(g)

\* A game's first messages are that its bridge is up, and a snapshot; its last
\* is that the bridge goes.
QueueShape ==
    \A s \in Sessions : slot[s] # None =>
        /\ gpc[slot[s]] = "connected" => inbox[s] = <<>>
        /\ \A i \in 1 .. Len(inbox[s]) :
               /\ inbox[s][i] = "bridge_attached" =>
                      i = 1 /\ Len(inbox[s]) >= 2 /\ inbox[s][2] = "snapshot"
               /\ inbox[s][i] = "bridge_detached" =>
                      i = Len(inbox[s]) /\ gpc[slot[s]] = "exited"

First(s, event) == inbox[s] # <<>> /\ inbox[s][1] = event

\* A lone game's bridge is attached from when the message of it is polled
\* until it goes, and its snapshot is there or comes next.
LoneGame ==
    Alone =>
        /\ \A s \in Sessions : slot[s] # None =>
               /\ gpc[slot[s]] = "connected" \/ First(s, "bridge_attached") => ~attached
               /\ gpc[slot[s]] = "ready" /\ ~First(s, "bridge_attached") =>
                      attached /\ session = s
        /\ attached /\ snapshot # info => First(session, "snapshot")

RunInv == SlotsInRun /\ IdleIsEmpty /\ QueueShape /\ LoneGame

LEMMA RunInit == Init => RunInv
BY RuntimeAssumption
DEF Init, RunInv, SlotsInRun, IdleIsEmpty, InRun, QueueShape, LoneGame, First

\* Without connected games there is little to say.
LEMMA NoGames ==
    ASSUME AttachedIsLive', TypeOK', IdleIsEmpty', \A s \in Sessions : slot'[s] = None
    PROVE  RunInv'
<1>1. attached' = FALSE
  BY DEF AttachedIsLive, TypeOK
<1> QED  BY <1>1 DEF RunInv, SlotsInRun, QueueShape, LoneGame

\* In a run of one game at most one session has a game.
LEMMA OnlySession ==
    ASSUME IInv, RunInv, Alone, NEW s \in Sessions, slot[s] # None, NEW t \in Sessions, slot[t] # None
    PROVE  s = t
<1>1. slot[s] \in Games /\ slot[t] \in Games
  BY DEF IInv, TypeOK
<1>2. InRun(slot[s]) /\ InRun(slot[t])
  BY DEF RunInv, SlotsInRun, InRun
<1> QED  BY <1>1, <1>2 DEF Alone, RunInv, SlotsInRun

LEMMA PlayRun ==
    ASSUME IInv, IInv', RunInv, UserPlay \/ Start
    PROVE  RunInv'
<1> USE DEF bridgeVars
<1>1. ~playing /\ playing' = TRUE /\ UNCHANGED slot
  BY DEF UserPlay, Start, Play
<1>2. \A s \in Sessions : slot[s] = None
  <2> SUFFICES ASSUME NEW s \in Sessions, slot[s] # None PROVE FALSE
    OBVIOUS
  <2>1. slot[s] \in Games /\ InRun(slot[s])
    BY DEF IInv, TypeOK, RunInv, SlotsInRun, InRun
  <2> QED  BY <1>1, <2>1 DEF RunInv, IdleIsEmpty
<1> QED  BY <1>1, <1>2, NoGames DEF IInv, IdleIsEmpty

LEMMA ConnectRun ==
    ASSUME IInv, IInv', RunInv, NEW g \in Games, NEW s \in Sessions, Connect(g, s)
    PROVE  RunInv'
<1> USE DEF bridgeVars
<1>1. slot[s] = None /\ g # None
  BY RuntimeAssumption DEF Connect, Free, IInv, ConnectedIsCreated, Connected, TypeOK
<1>2. /\ gpc[g] = "loading" /\ gpc' = [gpc EXCEPT ![g] = "connected"]
      /\ slot' = [slot EXCEPT ![s] = g]
      /\ UNCHANGED <<playing, inbox, attached, session, info, snapshot>>
  BY DEF Connect
<1>3. inbox[s] = <<>> /\ slot'[s] = g /\ gpc'[g] = "connected"
      /\ \A t \in Sessions \ {s} : slot'[t] = slot[t]
      /\ \A h \in Games \ {g} : gpc'[h] = gpc[h]
  BY <1>1, <1>2 DEF IInv, TypeOK
<1>4. \A t \in Sessions : slot[t] # g
  BY <1>1, <1>2 DEF RunInv, SlotsInRun
<1>5. \A h \in Games : InRun(h)' <=> InRun(h)
  BY <1>2, <1>3 DEF InRun
<1>6. SlotsInRun'
  <2>1. \A t \in Sessions : slot'[t] # None => gpc'[slot'[t]] \in {"connected", "ready", "exited"}
    <3> SUFFICES ASSUME NEW t \in Sessions \ {s}, slot[t] # None
                 PROVE  gpc'[slot[t]] \in {"connected", "ready", "exited"}
      BY <1>3
    <3>1. slot[t] \in Games \ {g}
      BY <1>4 DEF IInv, TypeOK
    <3> QED  BY <1>3, <3>1 DEF RunInv, SlotsInRun
  <2>2. \A t, u \in Sessions : slot'[t] # None /\ slot'[t] = slot'[u] => t = u
    BY <1>3, <1>4 DEF RunInv, SlotsInRun
  <2> QED  BY <2>1, <2>2 DEF SlotsInRun
<1>7. IdleIsEmpty'
  BY <1>2, <1>5 DEF RunInv, IdleIsEmpty
<1>8. QueueShape'
  <2> SUFFICES ASSUME NEW t \in Sessions, slot'[t] # None
               PROVE  /\ gpc'[slot'[t]] = "connected" => inbox[t] = <<>>
                      /\ \A i \in 1 .. Len(inbox[t]) :
                             /\ inbox[t][i] = "bridge_attached" =>
                                    i = 1 /\ Len(inbox[t]) >= 2 /\ inbox[t][2] = "snapshot"
                             /\ inbox[t][i] = "bridge_detached" =>
                                    i = Len(inbox[t]) /\ gpc'[slot'[t]] = "exited"
    BY <1>2 DEF QueueShape
  <2>1. CASE t = s
    BY <1>3, <2>1
  <2>2. CASE t # s
    <3>1. slot'[t] = slot[t] /\ slot[t] \in Games \ {g}
      BY <1>3, <1>4, <2>2 DEF IInv, TypeOK
    <3>2. gpc'[slot'[t]] = gpc[slot[t]]
      BY <1>3, <3>1
    <3> QED  BY <3>1, <3>2 DEF RunInv, QueueShape
  <2> QED  BY <2>1, <2>2
<1>9. LoneGame'
  <2> SUFFICES ASSUME Alone'  PROVE LoneGame'
    BY DEF LoneGame
  <2>1. Alone /\ InRun(g)
    BY <1>2, <1>5 DEF Alone, InRun
  <2>2. \A t \in Sessions : slot[t] = None
    <3> SUFFICES ASSUME NEW t \in Sessions, slot[t] # None PROVE FALSE
      OBVIOUS
    <3>1. slot[t] \in Games /\ InRun(slot[t])
      BY DEF IInv, TypeOK, RunInv, SlotsInRun, InRun
    <3> QED  BY <1>4, <2>1, <3>1 DEF Alone
  <2>3. attached' = FALSE
    BY <1>2, <2>2 DEF IInv, AttachedIsLive, TypeOK
  <2>4. \A t \in Sessions : slot'[t] # None => gpc'[slot'[t]] = "connected"
    BY <1>3, <2>2
  <2> QED  BY <2>3, <2>4 DEF LoneGame
<1> QED  BY <1>6, <1>7, <1>8, <1>9 DEF RunInv

\* Nothing is left of the run.
LEMMA RunEnds ==
    ASSUME IInv', EndRun, \A s \in Sessions : slot'[s] = None
    PROVE  RunInv'
<1>1. \A g \in Games : gpc'[g] \in {"unused", "over"}
  BY DEF EndRun
<1> QED  BY <1>1, NoGames DEF IInv, IdleIsEmpty, InRun

LEMMA SessionStoppedRun ==
    ASSUME IInv, IInv', RunInv, NEW s \in Sessions, SessionStopped(s)
    PROVE  RunInv'
<1>1. /\ slot[s] # None
      /\ slot' = [t \in Sessions |-> IF t \in {s} THEN None ELSE slot[t]]
      /\ inbox' = [t \in Sessions |-> IF t \in {s} THEN <<>> ELSE inbox[t]]
      /\ attached' = (attached /\ session \notin {s})
      /\ UNCHANGED <<info, snapshot>>
  BY DEF SessionStopped, Disconnect, Unregister
<1>2. slot'[s] = None
      /\ \A t \in Sessions \ {s} : slot'[t] = slot[t] /\ inbox'[t] = inbox[t]
  BY <1>1
<1>3. CASE \A t \in Sessions \ {s} : slot[t] = None
  <2>1. EndRun
    BY <1>3 DEF SessionStopped
  <2> QED  BY <1>2, <1>3, <2>1, RunEnds
<1>4. CASE ~\A t \in Sessions \ {s} : slot[t] = None
  <2>1. UNCHANGED <<playing, gpc>>
    BY <1>4 DEF SessionStopped
  <2>2. SlotsInRun'
    BY <1>2, <2>1 DEF RunInv, SlotsInRun
  <2>3. IdleIsEmpty'
    BY <2>1 DEF RunInv, IdleIsEmpty, InRun
  <2>4. QueueShape'
    BY <1>2, <2>1 DEF RunInv, QueueShape
  <2>5. ~Alone'
    <3>1. PICK t \in Sessions \ {s} : slot[t] # None
      BY <1>4
    <3>2. ~Alone
      BY <1>1, <3>1, OnlySession
    <3> QED  BY <2>1, <3>2 DEF Alone, InRun
  <2> QED  BY <2>2, <2>3, <2>4, <2>5 DEF RunInv, LoneGame
<1> QED  BY <1>3, <1>4

LEMMA RunStoppedRun ==
    ASSUME IInv', UserStop \/ Stop
    PROVE  RunInv'
<1>1. EndRun /\ Disconnect(Sessions)
  BY DEF UserStop, Stop, StopPlaying
<1>2. \A s \in Sessions : slot'[s] = None
  BY <1>1 DEF Disconnect
<1> QED  BY <1>1, <1>2, RunEnds

\* A game goes on in its run.
LEMMA GameGoesOn ==
    ASSUME IInv, RunInv, NEW g \in Games, InRun(g),
           NEW phase \in {"ready", "exited"}, gpc' = [gpc EXCEPT ![g] = phase],
           UNCHANGED <<slot, playing>>
    PROVE  /\ SlotsInRun' /\ IdleIsEmpty' /\ (Alone' <=> Alone)
           /\ gpc'[g] = phase /\ \A h \in Games \ {g} : gpc'[h] = gpc[h]
<1>1. gpc'[g] = phase /\ \A h \in Games \ {g} : gpc'[h] = gpc[h]
  BY DEF IInv, TypeOK
<1>2. \A h \in Games : InRun(h)' <=> InRun(h)
  BY <1>1 DEF InRun
<1>3. Alone' <=> Alone
  BY <1>2 DEF Alone
<1>4. IdleIsEmpty'
  BY <1>2 DEF RunInv, IdleIsEmpty
<1>5. \A s \in Sessions : slot[s] # None => slot[s] \in Games
  BY DEF IInv, TypeOK
<1>6. SlotsInRun'
  BY <1>1, <1>5 DEF RunInv, SlotsInRun
<1> QED  BY <1>1, <1>3, <1>4, <1>6

LEMMA CrashRun ==
    ASSUME IInv, RunInv, NEW g \in Games, Crash(g)
    PROVE  RunInv'
<1> USE DEF editorVars, gameVars, bridgeVars, serviceVars
<1>1. /\ gpc' = [gpc EXCEPT ![g] = "exited"] /\ InRun(g)
      /\ UNCHANGED <<playing, slot, inbox, attached, session, info, snapshot>>
  BY DEF Crash, Alive, InRun
<1>2. /\ SlotsInRun' /\ IdleIsEmpty' /\ (Alone' <=> Alone)
      /\ gpc'[g] = "exited" /\ \A h \in Games \ {g} : gpc'[h] = gpc[h]
  BY <1>1, GameGoesOn
<1>3. \A s \in Sessions : slot[s] # None =>
          slot[s] \in Games /\ gpc'[slot[s]] \in {gpc[slot[s]], "exited"}
  BY <1>2 DEF IInv, TypeOK
<1>4. QueueShape'
  BY <1>1, <1>3 DEF RunInv, QueueShape
<1>5. LoneGame'
  BY <1>1, <1>2, <1>3 DEF RunInv, LoneGame, First
<1> QED  BY <1>2, <1>4, <1>5 DEF RunInv

\* The game of a session that goes on without a word for the others.
LEMMA OthersKept ==
    ASSUME IInv, RunInv, NEW s \in Sessions, slot[s] # None,
           \A h \in Games \ {slot[s]} : gpc'[h] = gpc[h],
           UNCHANGED slot, NEW t \in Sessions \ {s}, slot[t] # None
    PROVE  gpc'[slot[t]] = gpc[slot[t]] /\ ~Alone
<1>1. slot[t] \in Games /\ slot[t] # slot[s]
  BY DEF IInv, TypeOK, RunInv, SlotsInRun
<1> QED  BY <1>1, OnlySession

LEMMA ReadyRun ==
    ASSUME IInv, IInv', RunInv, NEW s \in Sessions, Ready(s)
    PROVE  RunInv'
<1> USE DEF editorVars, bridgeVars, serviceVars
<1>1. PICK g \in Games : g = slot[s] /\ g # None
  BY DEF Ready, IInv, TypeOK
<1>2. /\ gpc[g] = "connected" /\ gpc' = [gpc EXCEPT ![g] = "ready"]
      /\ inbox' = [inbox EXCEPT ![s] = @ \o <<"bridge_attached", "snapshot">>]
      /\ UNCHANGED <<playing, slot, attached, session, info, snapshot>>
  BY <1>1 DEF Ready, Send
<1>3. InRun(g)
  BY <1>2 DEF InRun
<1>4. /\ SlotsInRun' /\ IdleIsEmpty' /\ (Alone' <=> Alone)
      /\ gpc'[g] = "ready" /\ \A h \in Games \ {g} : gpc'[h] = gpc[h]
  BY <1>2, <1>3, GameGoesOn
<1>5. inbox[s] = <<>>
  BY <1>1, <1>2 DEF RunInv, QueueShape
<1>6. /\ inbox'[s] = <<"bridge_attached", "snapshot">>
      /\ \A t \in Sessions \ {s} : inbox'[t] = inbox[t]
  BY <1>2, <1>5 DEF IInv, TypeOK
<1>7. \A t \in Sessions \ {s} : slot[t] # None => gpc'[slot[t]] = gpc[slot[t]] /\ ~Alone
  BY <1>1, <1>2, <1>4, OthersKept
<1>8. QueueShape'
  <2> SUFFICES ASSUME NEW t \in Sessions, slot[t] # None
               PROVE  /\ gpc'[slot[t]] = "connected" => inbox'[t] = <<>>
                      /\ \A i \in 1 .. Len(inbox'[t]) :
                             /\ inbox'[t][i] = "bridge_attached" =>
                                    i = 1 /\ Len(inbox'[t]) >= 2 /\ inbox'[t][2] = "snapshot"
                             /\ inbox'[t][i] = "bridge_detached" =>
                                    i = Len(inbox'[t]) /\ gpc'[slot[t]] = "exited"
    BY <1>2 DEF QueueShape
  <2>1. CASE t = s
    BY <1>1, <1>4, <1>6, <2>1
  <2>2. CASE t # s
    BY <1>6, <1>7, <2>2 DEF RunInv, QueueShape
  <2> QED  BY <2>1, <2>2
<1>9. LoneGame'
  <2> SUFFICES ASSUME Alone  PROVE LoneGame'
    BY <1>4 DEF LoneGame
  <2>1. ~attached
    BY <1>1, <1>2 DEF RunInv, LoneGame
  <2>2. First(s, "bridge_attached")'
    BY <1>6 DEF First
  <2> QED  BY <1>2, <1>7, <2>1, <2>2 DEF LoneGame
<1> QED  BY <1>4, <1>8, <1>9 DEF RunInv

\* A message goes to the end of its session's queue.
LEMMA Sent ==
    ASSUME NEW q \in Seq(Events), NEW event \in Events, NEW r, r = q \o <<event>>
    PROVE  /\ r \in Seq(Events) /\ r # <<>> /\ Len(r) = Len(q) + 1 /\ Len(q) \in Nat
           /\ \A i \in 1 .. Len(q) : r[i] = q[i]
           /\ r[Len(q) + 1] = event
           /\ q = <<>> => Len(q) = 0
           /\ q # <<>> => Len(q) >= 1
OBVIOUS

LEMMA SendRun ==
    ASSUME IInv, IInv', RunInv, NEW s \in Sessions, SendSnapshot(s) \/ Quit(s)
    PROVE  RunInv'
<1> USE DEF editorVars, bridgeVars, serviceVars
<1>1. PICK g \in Games : g = slot[s] /\ g # None
  BY DEF SendSnapshot, Quit, IInv, TypeOK
<1>2. PICK event \in {"snapshot", "bridge_detached"}, phase \in {"ready", "exited"} :
         /\ event = "bridge_detached" => phase = "exited"
         /\ event = "snapshot" => phase = "ready"
         /\ gpc[g] = "ready" /\ gpc' = [gpc EXCEPT ![g] = phase]
         /\ inbox' = [inbox EXCEPT ![s] = @ \o <<event>>]
         /\ UNCHANGED <<playing, slot, attached, session, info, snapshot>>
  <2>1. CASE Quit(s)
    BY <1>1, <2>1 DEF Quit, Send
  <2>2. CASE SendSnapshot(s)
    <3>1. gpc' = [gpc EXCEPT ![g] = "ready"]
      BY <1>1, <2>2 DEF SendSnapshot, IInv, TypeOK
    <3> QED  BY <1>1, <2>2, <3>1 DEF SendSnapshot, Send
  <2> QED  BY <2>1, <2>2
<1>3. InRun(g)
  BY <1>2 DEF InRun
<1>4. /\ SlotsInRun' /\ IdleIsEmpty' /\ (Alone' <=> Alone)
      /\ gpc'[g] = phase /\ \A h \in Games \ {g} : gpc'[h] = gpc[h]
  BY <1>2, <1>3, GameGoesOn
<1>5. PICK q, r : q = inbox[s] /\ r = q \o <<event>>
  OBVIOUS
<1>6. /\ inbox'[s] = r /\ q \in Seq(Events) /\ event \in Events
      /\ \A t \in Sessions \ {s} : inbox'[t] = inbox[t]
  BY <1>2, <1>5 DEF IInv, TypeOK, Events
<1>7. /\ r # <<>> /\ Len(r) = Len(q) + 1 /\ Len(q) \in Nat
      /\ \A i \in 1 .. Len(q) : r[i] = q[i]
      /\ r[Len(q) + 1] = event
      /\ q = <<>> => Len(q) = 0
      /\ q # <<>> => Len(q) >= 1
  BY <1>5, <1>6, Sent
<1>8. \A t \in Sessions \ {s} : slot[t] # None => gpc'[slot[t]] = gpc[slot[t]] /\ ~Alone
  BY <1>1, <1>2, <1>4, OthersKept
<1>9. \A i \in 1 .. Len(q) :
          /\ q[i] = "bridge_attached" => i = 1 /\ Len(q) >= 2 /\ q[2] = "snapshot"
          /\ q[i] # "bridge_detached"
  BY <1>1, <1>2, <1>5 DEF RunInv, QueueShape
<1>10. QueueShape'
  <2> SUFFICES ASSUME NEW t \in Sessions, slot[t] # None
               PROVE  /\ gpc'[slot[t]] = "connected" => inbox'[t] = <<>>
                      /\ \A i \in 1 .. Len(inbox'[t]) :
                             /\ inbox'[t][i] = "bridge_attached" =>
                                    i = 1 /\ Len(inbox'[t]) >= 2 /\ inbox'[t][2] = "snapshot"
                             /\ inbox'[t][i] = "bridge_detached" =>
                                    i = Len(inbox'[t]) /\ gpc'[slot[t]] = "exited"
    BY <1>2 DEF QueueShape
  <2>1. CASE t = s
    <3>1. gpc'[slot[t]] # "connected"
      BY <1>1, <1>4, <2>1
    <3>2. ASSUME NEW i \in 1 .. Len(r)
          PROVE  /\ r[i] = "bridge_attached" => i = 1 /\ Len(r) >= 2 /\ r[2] = "snapshot"
                 /\ r[i] = "bridge_detached" => i = Len(r) /\ phase = "exited"
      BY <1>2, <1>7, <1>9
    <3> QED  BY <1>1, <1>4, <1>6, <2>1, <3>1, <3>2
  <2>2. CASE t # s
    BY <1>6, <1>8, <2>2 DEF RunInv, QueueShape
  <2> QED  BY <2>1, <2>2
<1>11. LoneGame'
  <2> SUFFICES ASSUME Alone  PROVE LoneGame'
    BY <1>4 DEF LoneGame
  <2>1. /\ First(s, "bridge_attached") => ~attached
        /\ ~First(s, "bridge_attached") => attached /\ session = s
        /\ attached /\ snapshot # info => First(session, "snapshot")
    BY <1>1, <1>2 DEF RunInv, LoneGame
  <2>2. First(s, "bridge_attached")' <=> First(s, "bridge_attached")
    BY <1>2, <1>5, <1>6, <1>7 DEF First
  <2>3. First(s, "snapshot") => First(s, "snapshot")'
    BY <1>5, <1>6, <1>7 DEF First
  <2>4. gpc'[slot'[s]] # "connected" /\ slot' = slot
    BY <1>1, <1>2, <1>4
  <2>5. \A t \in Sessions : slot'[t] # None => t = s
    BY <1>8, <2>4
  <2>6. /\ attached' = attached /\ session' = session /\ snapshot' = snapshot /\ info' = info
    BY <1>2
  <2>7. attached /\ snapshot # info => First(session, "snapshot")'
    BY <2>1, <2>3, <2>6 DEF First
  <2> QED  BY <2>1, <2>2, <2>4, <2>5, <2>6, <2>7 DEF LoneGame
<1> QED  BY <1>4, <1>10, <1>11 DEF RunInv

\* The oldest message is taken from the queue.
LEMMA Taken ==
    ASSUME NEW q \in Seq(Events), q # <<>>, NEW r, r = Tail(q)
    PROVE  /\ r \in Seq(Events) /\ Len(q) \in Nat /\ Len(q) >= 1 /\ Len(r) = Len(q) - 1
           /\ Head(q) = q[1]
           /\ \A i \in 1 .. Len(r) : r[i] = q[i + 1]
           /\ r # <<>> <=> Len(q) >= 2
<1>1. Len(q) \in Nat /\ Len(q) >= 1
  OBVIOUS
<1>2. /\ r \in Seq(Events) /\ Len(r) = Len(q) - 1 /\ Head(q) = q[1]
      /\ \A i \in 1 .. Len(r) : r[i] = q[i + 1]
  BY <1>1
<1>3. r # <<>> <=> Len(r) >= 1
  BY <1>2
<1> QED  BY <1>1, <1>2, <1>3

LEMMA CaptureRun ==
    ASSUME IInv, IInv', RunInv, NEW s \in Sessions, Capture(s)
    PROVE  RunInv'
<1> USE DEF editorVars, bridgeVars
<1>1. /\ inbox[s] # <<>> /\ slot[s] # None
      /\ inbox' = [inbox EXCEPT ![s] = Tail(@)]
      /\ UNCHANGED <<playing, gpc, slot>>
  BY DEF Capture, IInv, TypeOK
<1>2. PICK q, r : q = inbox[s] /\ r = Tail(q)
  OBVIOUS
<1>3. /\ inbox'[s] = r /\ q \in Seq(Events)
      /\ \A t \in Sessions \ {s} : inbox'[t] = inbox[t]
  BY <1>1, <1>2 DEF IInv, TypeOK
<1>4. /\ Len(q) \in Nat /\ Len(q) >= 1 /\ Len(r) = Len(q) - 1 /\ Head(q) = q[1]
      /\ \A i \in 1 .. Len(r) : r[i] = q[i + 1]
      /\ r # <<>> <=> Len(q) >= 2
  BY <1>1, <1>2, <1>3, Taken
<1>5. \A i \in 1 .. Len(q) :
          /\ q[i] = "bridge_attached" => i = 1 /\ Len(q) >= 2 /\ q[2] = "snapshot"
          /\ q[i] = "bridge_detached" => i = Len(q) /\ gpc[slot[s]] = "exited"
  BY <1>1, <1>2 DEF RunInv, QueueShape
<1>6. gpc[slot[s]] # "connected"
  BY <1>1 DEF RunInv, QueueShape
<1>7. \A i \in 1 .. Len(r) :
          /\ r[i] # "bridge_attached"
          /\ r[i] = "bridge_detached" => i = Len(r) /\ gpc[slot[s]] = "exited"
  BY <1>4, <1>5
<1>8. SlotsInRun' /\ IdleIsEmpty'
  BY <1>1 DEF RunInv, SlotsInRun, IdleIsEmpty, InRun
<1>9. QueueShape'
  <2> SUFFICES ASSUME NEW t \in Sessions, slot[t] # None
               PROVE  /\ gpc[slot[t]] = "connected" => inbox'[t] = <<>>
                      /\ \A i \in 1 .. Len(inbox'[t]) :
                             /\ inbox'[t][i] = "bridge_attached" =>
                                    i = 1 /\ Len(inbox'[t]) >= 2 /\ inbox'[t][2] = "snapshot"
                             /\ inbox'[t][i] = "bridge_detached" =>
                                    i = Len(inbox'[t]) /\ gpc[slot[t]] = "exited"
    BY <1>1 DEF QueueShape
  <2>1. CASE t = s
    BY <1>3, <1>6, <1>7, <2>1
  <2>2. CASE t # s
    BY <1>3, <2>2 DEF RunInv, QueueShape
  <2> QED  BY <2>1, <2>2
<1>10. LoneGame'
  <2> SUFFICES ASSUME Alone  PROVE LoneGame'
    BY <1>1 DEF LoneGame, Alone, InRun
  <2>1. \A t \in Sessions : slot[t] # None => t = s
    BY <1>1, OnlySession
  <2>2. ~First(s, "bridge_attached")'
    <3> SUFFICES r # <<>> => r[1] # "bridge_attached"
      BY <1>3 DEF First
    <3> QED  BY <1>4, <1>7
  <2> SUFFICES /\ gpc[slot[s]] = "ready" => attached' /\ session' = s
               /\ attached' /\ snapshot' # info' => First(session, "snapshot")'
    BY <1>1, <1>6, <2>1, <2>2 DEF LoneGame, First
  <2>3. \/ q[1] = "bridge_attached" /\ Attach(s) /\ UNCHANGED snapshot
        \/ q[1] = "bridge_detached" /\ Detach(s) /\ UNCHANGED snapshot
        \/ q[1] = "snapshot" /\ snapshot' = slot[s] /\ UNCHANGED bridgeVars
    BY <1>2, <1>4 DEF Capture
  <2>4. CASE q[1] = "bridge_attached" /\ Attach(s)
    <3>1. Len(q) >= 2 /\ q[2] = "snapshot"
      BY <1>4, <1>5, <2>4
    <3>2. r # <<>> /\ r[1] = "snapshot"
      BY <1>4, <3>1
    <3> QED  BY <1>3, <2>4, <3>2 DEF Attach, First
  <2>5. CASE q[1] = "bridge_detached" /\ Detach(s)
    <3>1. gpc[slot[s]] = "exited"
      BY <1>4, <1>5, <2>5
    <3> QED  BY <2>5, <3>1 DEF Detach
  <2>6. CASE q[1] = "snapshot" /\ snapshot' = slot[s] /\ UNCHANGED bridgeVars
    <3>1. ~First(s, "bridge_attached")
      BY <1>2, <2>6 DEF First
    <3>2. gpc[slot[s]] = "ready" => attached /\ session = s
      BY <1>1, <3>1 DEF RunInv, LoneGame
    <3>3. attached => info = slot[s]
      BY <2>1 DEF IInv, AttachedIsLive, TypeOK
    <3> QED  BY <2>6, <3>2, <3>3
  <2> QED  BY <2>3, <2>4, <2>5, <2>6
<1> QED  BY <1>8, <1>9, <1>10 DEF RunInv

THEOREM RunInvariance == Spec => [](IInv /\ RunInv)
<1>1. Init => RunInv
  BY RunInit
<1>2. IInv /\ IInv' /\ RunInv /\ [Next]_vars => RunInv'
  <2> SUFFICES ASSUME IInv, IInv', RunInv, [Next]_vars  PROVE RunInv'
    OBVIOUS
  <2>1. CASE UserPlay \/ Start
    BY <2>1, PlayRun
  <2>2. CASE UserStop \/ Stop
    BY <2>2, RunStoppedRun
  <2>3. CASE \E g \in Games, s \in Sessions : Connect(g, s)
    BY <2>3, ConnectRun
  <2>4. CASE \E g \in Games : Crash(g)
    BY <2>4, CrashRun
  <2>5. ASSUME NEW s \in Sessions,
               SessionStopped(s) \/ Ready(s) \/ SendSnapshot(s) \/ Quit(s) \/ Capture(s)
        PROVE  RunInv'
    BY <2>5, SessionStoppedRun, ReadyRun, SendRun, CaptureRun
  <2>6. CASE UNCHANGED vars
    BY <2>6 DEF vars, editorVars, gameVars, serviceVars, bridgeVars,
                RunInv, SlotsInRun, IdleIsEmpty, InRun, QueueShape, LoneGame, Alone, First
  <2> QED  BY <2>1, <2>2, <2>3, <2>4, <2>5, <2>6 DEF Next
<1> QED  BY BridgeInvariance, <1>1, <1>2, PTL DEF Spec

\* In a run of one game the tools answer from the attached game, or its
\* snapshot is the next message: a game's first snapshot follows the message
\* that attaches it in one queue, and no other game's comes between.
THEOREM TreeIsCurrent == Spec => []TreeIsAttachedGames
<1>1. IInv /\ RunInv => TreeIsAttachedGames
  <2> SUFFICES ASSUME IInv, RunInv, Alone, attached, snapshot # info
               PROVE  inbox[session] # <<>> /\ Head(inbox[session]) = "snapshot"
    BY DEF TreeIsAttachedGames
  <2>1. inbox[session] # <<>> /\ inbox[session][1] = "snapshot"
    BY DEF RunInv, LoneGame, First
  <2>2. session \in Sessions
    BY DEF IInv, AttachedIsLive, TypeOK
  <2>3. inbox[session] \in Seq(Events)
    BY <2>2 DEF IInv, TypeOK
  <2> QED  BY <2>1, <2>3
<1> QED  BY RunInvariance, <1>1, PTL

\* In a run of one game the bridge of a game that is up, and has been listened
\* to, is attached on that game's session: no message, stop signal or command
\* of an earlier run can have taken it away.
THEOREM LoneIsAttached == Spec => []LoneBridgeAttached
<1>1. RunInv => LoneBridgeAttached
  BY DEF RunInv, LoneGame, LoneBridgeAttached, Settled, First
<1> QED  BY RunInvariance, <1>1, PTL

=============================================================================
