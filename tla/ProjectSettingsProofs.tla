------------------------ MODULE ProjectSettingsProofs ------------------------
(***************************************************************************)
(* What the project.* tools keep true of the settings in memory, on disk   *)
(* and in the InputMap, for any settings and values.                       *)
(*                                                                         *)
(* Every tool either answers without a change, or puts one value of its    *)
(* key's kind in memory and saves (Effect): the invariant is shown of that *)
(* one step.                                                               *)
(***************************************************************************)
EXTENDS ProjectSettings, TLAPS

IInv == TypeOK /\ UnsavedWasReported /\ InputMapFollows

\* What a tool that names key k may do.
Effect(k) ==
    \/ \E ok \in BOOLEAN : Respond(k, ok)
    \/ /\ \E value \in ValuesOf(k) : Change(k, value)
       /\ \/ k \notin Actions /\ UNCHANGED <<inputMap, unloaded>>
          \/ k \in Actions /\ UNCHANGED inputMap /\ unloaded' = unloaded \cup {k}
          \/ k \in Actions /\ Reload(k)

\* Kinds of keys do not overlap.
LEMMA Kinds ==
    /\ \A k \in Plain : k \notin Autoloads /\ k \notin Actions
    /\ \A k \in Autoloads : ValuesOf(k) = {Absent} \cup Entries /\ k \notin Actions
    /\ \A k \in Actions : ValuesOf(k) = {Absent} \cup Bindings \cup {Junk}
BY SettingsAssumption DEF ValuesOf

\* What the InputMap loads of settings of the right kinds.
LEMMA LoadedType ==
    ASSUME NEW f, \A a \in Actions : f[a] \in ValuesOf(a)
    PROVE  /\ DOMAIN Loaded(f) = Actions
           /\ \A a \in Actions : Loaded(f)[a] \in Bindings \cup {Absent}
<1>1. [deadzone |-> DefaultDeadzone, events |-> {}] \in Bindings
  BY SettingsAssumption DEF Bindings
<1> QED  BY <1>1, Kinds DEF Loaded

\* The input tools end in a change of their action or in none.
LEMMA SetActionEffect ==
    ASSUME IInv, NEW a \in Actions, NEW binding \in Bindings, SetAction(a, binding)
    PROVE  Effect(a)
BY Kinds DEF SetAction, Effect

LEMMA SettingsSetEffect ==
    ASSUME IInv, NEW k \in Keys, NEW value, SettingsSet(k, value)
    PROVE  Effect(k)
<1>1. value \in ValuesOf(k)
  BY DEF SettingsSet, JsonValues
<1>2. CASE mem[k] = value /\ Respond(k, TRUE)
  BY <1>2 DEF Effect
<1>3. CASE /\ Change(k, value)
           /\ unloaded' = unloaded \cup ({k} \cap Actions)
           /\ UNCHANGED inputMap
  <2>1. CASE k \in Actions
    <3>1. {k} \cap Actions = {k}
      BY <2>1
    <3> QED  BY <1>1, <1>3, <2>1, <3>1 DEF Effect
  <2>2. CASE k \notin Actions
    <3>1. unloaded \cup ({k} \cap Actions) = unloaded
      BY <2>2
    <3> QED  BY <1>1, <1>3, <2>2, <3>1 DEF Effect
  <2> QED  BY <2>1, <2>2
<1> QED  BY <1>2, <1>3 DEF SettingsSet

LEMMA AutoloadEffect ==
    ASSUME IInv, NEW k \in Autoloads,
           \/ AutoloadRemove(k)
           \/ \E path \in Paths, singleton \in BOOLEAN, index \in Orders \cup {NoIndex} :
                AutoloadAdd(k, path, singleton, index)
    PROVE  Effect(k)
<1>1. k \notin Actions /\ ValuesOf(k) = {Absent} \cup Entries /\ mem[k] \in ValuesOf(k)
  BY Kinds DEF IInv, TypeOK, Keys
<1>2. CASE AutoloadRemove(k)
  BY <1>1, <1>2 DEF AutoloadRemove, Effect
<1>3. ASSUME NEW path \in Paths, NEW singleton \in BOOLEAN,
             NEW index \in Orders \cup {NoIndex},
             AutoloadAdd(k, path, singleton, index)
      PROVE  Effect(k)
  <2>1. CASE \E ok \in BOOLEAN : Respond(k, ok)
    BY <2>1 DEF Effect
  <2>2. CASE /\ mem[k] # Absent /\ index # NoIndex
             /\ Change(k, [mem[k] EXCEPT !.order = index])
             /\ UNCHANGED <<inputMap, unloaded>>
    <3>1. [mem[k] EXCEPT !.order = index] \in Entries
      BY <1>1, <2>2 DEF Entries
    <3> QED  BY <1>1, <2>2, <3>1 DEF Effect
  <2>3. CASE \E order \in NewOrders(index) :
               /\ Change(k, [path |-> path, singleton |-> singleton, order |-> order])
               /\ UNCHANGED <<inputMap, unloaded>>
    <3>1. PICK order \in NewOrders(index) :
               /\ Change(k, [path |-> path, singleton |-> singleton, order |-> order])
               /\ UNCHANGED <<inputMap, unloaded>>
      BY <2>3
    <3>2. order \in Orders
      BY DEF NewOrders
    <3>3. [path |-> path, singleton |-> singleton, order |-> order] \in Entries
      BY <3>2 DEF Entries
    <3> QED  BY <1>1, <3>1, <3>3 DEF Effect
  <2>4. CASE Change(k, Absent) /\ UNCHANGED <<inputMap, unloaded>>
    BY <1>1, <2>4 DEF Effect
  <2> QED  BY <1>3, <2>1, <2>2, <2>3, <2>4 DEF AutoloadAdd
<1> QED  BY <1>2, <1>3

LEMMA InputEffect ==
    ASSUME IInv, NEW a \in Actions,
           \/ ActionDelete(a)
           \/ \E deadzone \in Deadzones : ActionCreate(a, deadzone) \/ DeadzoneSet(a, deadzone)
           \/ \E event \in Events : EventAdd(a, event) \/ EventRemove(a, event)
    PROVE  Effect(a)
<1>1. CASE ActionDelete(a)
  BY <1>1, Kinds DEF ActionDelete, Effect
<1>2. ASSUME NEW deadzone \in Deadzones, ActionCreate(a, deadzone)
      PROVE  Effect(a)
  <2>1. [deadzone |-> deadzone, events |-> {}] \in Bindings
    BY DEF Bindings
  <2> QED  BY <1>2, <2>1, SetActionEffect DEF ActionCreate, Effect
<1>3. ASSUME NEW deadzone \in Deadzones, DeadzoneSet(a, deadzone)
      PROVE  Effect(a)
  <2>1. mem[a] \in Bindings => [mem[a] EXCEPT !.deadzone = deadzone] \in Bindings
    BY DEF Bindings
  <2> QED  BY <1>3, <2>1, SetActionEffect DEF DeadzoneSet, Unreadable, Effect
<1>4. ASSUME NEW event \in Events, EventAdd(a, event)
      PROVE  Effect(a)
  <2>1. mem[a] \in Bindings => [mem[a] EXCEPT !.events = @ \cup {event}] \in Bindings
    BY DEF Bindings
  <2> QED  BY <1>4, <2>1, SetActionEffect DEF EventAdd, Unreadable, Effect
<1>5. ASSUME NEW event \in Events, EventRemove(a, event)
      PROVE  Effect(a)
  <2>1. mem[a] \in Bindings => [mem[a] EXCEPT !.events = @ \ {event}] \in Bindings
    BY DEF Bindings
  <2> QED  BY <1>5, <2>1, SetActionEffect DEF EventRemove, Unreadable, Effect
<1> QED  BY <1>1, <1>2, <1>3, <1>4, <1>5

\* Every tool has such an effect, on the key it names.
LEMMA ToolEffect ==
    ASSUME IInv, Tool
    PROVE  \E k \in Keys : Effect(k)
BY SettingsSetEffect, AutoloadEffect, InputEffect DEF Tool, Keys

-----------------------------------------------------------------------------
\* A change and its save, whatever becomes of the save.
LEMMA ChangeStep ==
    ASSUME IInv, NEW k \in Keys, NEW value \in ValuesOf(k), Change(k, value)
    PROVE  /\ DOMAIN mem' = Keys /\ DOMAIN disk' = Keys
           /\ \A j \in Keys : mem'[j] \in ValuesOf(j) /\ disk'[j] \in ValuesOf(j)
           /\ \A j \in Keys \ {k} : mem'[j] = mem[j]
           /\ unsaved' \subseteq Keys
           /\ last' \in [key : Keys \cup {Absent}, ok : BOOLEAN] /\ last'.key = k
           /\ UnsavedWasReported'
           /\ disk' = disk \/ disk' = mem'
<1>1. /\ DOMAIN mem' = Keys /\ \A j \in Keys : mem'[j] \in ValuesOf(j)
      /\ \A j \in Keys \ {k} : mem'[j] = mem[j]
  BY DEF Change, IInv, TypeOK
<1>2. PICK ok \in BOOLEAN : last' = [key |-> k, ok |-> ok]
  BY DEF Change, Save
<1>3. last' \in [key : Keys \cup {Absent}, ok : BOOLEAN] /\ last'.key = k
  <2>1. \A j \in Keys \cup {Absent}, b \in BOOLEAN :
          [key |-> j, ok |-> b] \in [key : Keys \cup {Absent}, ok : BOOLEAN]
    OBVIOUS
  <2> QED  BY <1>2, <2>1
<1>4. CASE unsaved' = unsaved \cup {k} /\ UNCHANGED disk
  BY <1>1, <1>3, <1>4 DEF IInv, TypeOK, UnsavedWasReported
<1>5. CASE disk' = mem' /\ unsaved' = {}
  BY <1>1, <1>3, <1>5 DEF UnsavedWasReported
<1> QED  BY <1>4, <1>5 DEF Change, Save

\* The invariant is kept by what a tool may do.
LEMMA EffectStep ==
    ASSUME IInv, NEW k \in Keys, Effect(k)
    PROVE  IInv'
<1>1. ASSUME NEW ok \in BOOLEAN, Respond(k, ok)
      PROVE  IInv'
  <2>1. last' \in [key : Keys \cup {Absent}, ok : BOOLEAN]
    BY <1>1 DEF Respond
  <2> QED  BY <1>1, <2>1 DEF Respond, IInv, TypeOK, UnsavedWasReported, InputMapFollows
<1>2. ASSUME NEW value \in ValuesOf(k), Change(k, value),
             \/ k \notin Actions /\ UNCHANGED <<inputMap, unloaded>>
             \/ k \in Actions /\ UNCHANGED inputMap /\ unloaded' = unloaded \cup {k}
             \/ k \in Actions /\ Reload(k)
      PROVE  IInv'
  <2>1. /\ DOMAIN mem' = Keys /\ DOMAIN disk' = Keys
        /\ \A j \in Keys : mem'[j] \in ValuesOf(j) /\ disk'[j] \in ValuesOf(j)
        /\ \A j \in Keys \ {k} : mem'[j] = mem[j]
        /\ unsaved' \subseteq Keys
        /\ last' \in [key : Keys \cup {Absent}, ok : BOOLEAN]
        /\ UnsavedWasReported'
    BY <1>2, ChangeStep
  <2>2. \A a \in Actions \ {k} : Loaded(mem)'[a] = Loaded(mem)[a]
    BY <2>1 DEF Loaded, Keys
  <2>3. \/ UNCHANGED inputMap /\ unloaded' \in {unloaded, unloaded \cup {k}}
           /\ (k \in Actions => unloaded' = unloaded \cup {k})
        \/ inputMap' = Loaded(mem)' /\ unloaded' = {}
    BY <1>2 DEF Reload, Loaded
  <2>4. CASE /\ UNCHANGED inputMap /\ unloaded' \in {unloaded, unloaded \cup {k}}
             /\ (k \in Actions => unloaded' = unloaded \cup {k})
    <3>1. InputMapFollows'
      BY <2>2, <2>4 DEF IInv, InputMapFollows
    <3>2. unloaded' \subseteq Actions
      BY <1>2, <2>4 DEF IInv, TypeOK, Reload
    <3> QED  BY <2>1, <2>4, <3>1, <3>2 DEF IInv, TypeOK
  <2>5. CASE inputMap' = Loaded(mem)' /\ unloaded' = {}
    <3>1. /\ DOMAIN inputMap' = Actions
          /\ \A a \in Actions : inputMap'[a] \in Bindings \cup {Absent}
      BY <2>1, <2>5, LoadedType DEF Keys, Loaded
    <3> QED  BY <2>1, <2>5, <3>1 DEF IInv, TypeOK, InputMapFollows
  <2> QED  BY <2>3, <2>4, <2>5
<1> QED  BY <1>1, <1>2 DEF Effect

-----------------------------------------------------------------------------
\* The invariant holds of every reachable state.
THEOREM SettingsInvariance == Spec => []IInv
<1>1. Init => IInv
  <2> SUFFICES ASSUME Init PROVE IInv
    OBVIOUS
  <2>1. /\ DOMAIN mem = Keys /\ \A k \in Keys : mem[k] \in ValuesOf(k)
        /\ disk = mem
    BY DEF Init
  <2>2. /\ DOMAIN inputMap = Actions
        /\ \A a \in Actions : inputMap[a] \in Bindings \cup {Absent}
    BY <2>1, LoadedType DEF Init, Keys
  <2> QED  BY <2>1, <2>2 DEF Init, IInv, TypeOK, UnsavedWasReported, InputMapFollows
<1>2. IInv /\ [Next]_vars => IInv'
  <2> SUFFICES ASSUME IInv, [Next]_vars PROVE IInv'
    OBVIOUS
  <2>1. CASE Tool
    BY <2>1, ToolEffect, EffectStep
  <2>2. CASE EditorSave
    BY <2>2 DEF EditorSave, IInv, TypeOK, UnsavedWasReported, InputMapFollows
  <2>3. CASE Restart
    <3>1. /\ DOMAIN inputMap' = Actions
          /\ \A a \in Actions : inputMap'[a] \in Bindings \cup {Absent}
      BY <2>3, LoadedType DEF Restart, IInv, TypeOK, Keys
    <3>2. inputMap' = Loaded(mem)'
      BY <2>3 DEF Restart, Loaded
    <3> QED  BY <2>3, <3>1, <3>2 DEF Restart, IInv, TypeOK, UnsavedWasReported, InputMapFollows
  <2>4. CASE UNCHANGED vars
    BY <2>4 DEF vars, IInv, TypeOK, UnsavedWasReported, InputMapFollows, Loaded
  <2> QED  BY <2>1, <2>2, <2>3, <2>4 DEF Next
<1> QED  BY <1>1, <1>2, PTL DEF Spec

\* Settings, project.godot and the InputMap keep their types.
THEOREM SettingsTypes == Spec => []TypeOK
<1>1. IInv => TypeOK
  BY DEF IInv
<1> QED  BY <1>1, SettingsInvariance, PTL

\* Whatever project.godot lacks, a tool has said that it could not save.
THEOREM SettingsReported == Spec => []UnsavedWasReported
<1>1. IInv => UnsavedWasReported
  BY DEF IInv
<1> QED  BY <1>1, SettingsInvariance, PTL

\* The InputMap is the settings', but for changes that failed or came past it.
THEOREM SettingsLoaded == Spec => []InputMapFollows
<1>1. IInv => InputMapFollows
  BY DEF IInv
<1> QED  BY <1>1, SettingsInvariance, PTL

\* A tool touches no other setting, but for saving what was left unsaved.
THEOREM SettingsKept == Spec => OtherSettingsKept
<1> DEFINE Kept == \A k \in Keys \ {last'.key} :
                      /\ mem'[k] = mem[k]
                      /\ disk'[k] # disk[k] => k \in unsaved /\ disk'[k] = mem[k]
<1>1. IInv /\ [Next]_vars => [Restart \/ EditorSave \/ Kept]_vars
  <2> SUFFICES ASSUME IInv, Tool PROVE Kept
    BY DEF Next
  <2>1. PICK k \in Keys : Effect(k)
    BY ToolEffect
  <2>2. CASE \E ok \in BOOLEAN : Respond(k, ok)
    BY <2>2 DEF Respond
  <2>3. ASSUME NEW value \in ValuesOf(k), Change(k, value)
        PROVE  Kept
    <3>1. /\ \A j \in Keys \ {k} : mem'[j] = mem[j]
          /\ last'.key = k
          /\ disk' = disk \/ disk' = mem'
      BY <2>3, ChangeStep
    <3> QED  BY <3>1 DEF IInv, UnsavedWasReported
  <2> QED  BY <2>1, <2>2, <2>3 DEF Effect
<1> QED  BY <1>1, SettingsInvariance, PTL DEF Spec, OtherSettingsKept
=============================================================================
