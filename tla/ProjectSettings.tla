--------------------------- MODULE ProjectSettings ---------------------------
(***************************************************************************)
(* The project.* tools that change project settings: plain settings,       *)
(* autoloads and input actions.  Every tool changes the settings in the    *)
(* editor's memory first and then saves all of them to project.godot; the  *)
(* input tools load the engine's InputMap anew when that went well.  A     *)
(* save can fail, and so can the refresh of the editor's file system that  *)
(* follows it.  A tool runs to its end on the editor's main thread.        *)
(*                                                                         *)
(* ProjectSettings, InputMap and EditorPlugin are the engine's: what they  *)
(* do is external.                                                         *)
(***************************************************************************)
EXTENDS Naturals, FiniteSets

CONSTANTS
    Plain, Autoloads, Actions,  \* setting keys: general, autoload/..., input/...
    PlainValues,
    Paths, Orders,              \* of autoloads
    Deadzones, Events,          \* of input actions
    Absent,                     \* no such setting
    Junk,                       \* a value of input/... that is no dictionary
    NoIndex,                    \* index -1: where to add an autoload is left open
    DefaultDeadzone

Keys == Plain \cup Autoloads \cup Actions

ASSUME SettingsAssumption ==
    /\ Plain \cap Autoloads = {} /\ Plain \cap Actions = {} /\ Autoloads \cap Actions = {}
    /\ DefaultDeadzone \in Deadzones
    /\ NoIndex \notin Orders

VARIABLES
    mem,       \* the settings in memory
    disk,      \* the settings in project.godot
    inputMap,  \* the engine's InputMap
    unsaved,   \* keys a tool changed, and said that it could not save
    unloaded,  \* input keys changed with no load of the InputMap since
    last       \* the last response: its key, and whether it is a success

vars == <<mem, disk, inputMap, unsaved, unloaded, last>>

Entries  == [path : Paths, singleton : BOOLEAN, order : Orders]
Bindings == [deadzone : Deadzones, events : SUBSET Events]

ValuesOf(k) ==
    {Absent} \cup (IF k \in Plain THEN PlainValues
                   ELSE IF k \in Autoloads THEN Entries
                   ELSE Bindings \cup {Junk})

\* InputMap.load_from_project_settings.
Loaded(settings) ==
    [a \in Actions |->
        IF settings[a] = Junk THEN [deadzone |-> DefaultDeadzone, events |-> {}]
        ELSE settings[a]]

\* The editor has opened the project.
Init ==
    /\ mem \in {f \in [Keys -> UNION {ValuesOf(k) : k \in Keys}] :
                  \A k \in Keys : f[k] \in ValuesOf(k)}
    /\ disk = mem
    /\ inputMap = Loaded(mem)
    /\ unsaved = {} /\ unloaded = {}
    /\ last = [key |-> Absent, ok |-> TRUE]

-----------------------------------------------------------------------------
\* Mutant: the error of ProjectSettings.save is not looked at.
SaveUnchecked(k) ==
    /\ disk' \in {disk, mem'}
    /\ unsaved' = {}
    /\ last' = [key |-> k, ok |-> TRUE]

\* project_settings_store.save, and the response that a tool makes of it.
Save(k) ==
    \/ \* IO_ERROR
       /\ unsaved' = unsaved \cup {k}
       /\ last' = [key |-> k, ok |-> FALSE]
       /\ UNCHANGED disk
    \/ \* EDITOR_STATE: the refresh of the file system fails
       /\ disk' = mem' /\ unsaved' = {}
       /\ last' = [key |-> k, ok |-> FALSE]
    \/ /\ disk' = mem' /\ unsaved' = {}
       /\ last' = [key |-> k, ok |-> TRUE]

\* Mutant: what could not be saved before is taken back first.
ChangeWhatIsSaved(k, value) ==
    /\ mem' = [disk EXCEPT ![k] = value]
    /\ Save(k)

Change(k, value) ==
    /\ mem' = [mem EXCEPT ![k] = value]
    /\ Save(k)

\* The response is made without a change.
Respond(k, ok) ==
    /\ last' = [key |-> k, ok |-> ok]
    /\ UNCHANGED <<mem, disk, inputMap, unsaved, unloaded>>

-----------------------------------------------------------------------------
(* project.settings_set: any key, an autoload's or an action's too.        *)

\* What a JSON value can be under a key: it holds no InputEvent, and a new
\* value leaves an autoload at its place.
JsonValues(k) ==
    {v \in ValuesOf(k) :
        /\ k \in Actions /\ v \in Bindings => v.events = {}
        /\ k \in Autoloads /\ {v, mem[k]} \subseteq Entries => v.order = mem[k].order}

SettingsSet(k, value) ==
    /\ value \in JsonValues(k)
    /\ \/ mem[k] = value /\ Respond(k, TRUE)
       \/ /\ mem[k] # value
          /\ Change(k, value)
          /\ unloaded' = unloaded \cup ({k} \cap Actions)
          /\ UNCHANGED inputMap

-----------------------------------------------------------------------------
(* project.autoload_add and project.autoload_remove.                       *)

Same(entry, path, singleton) == entry.path = path /\ entry.singleton = singleton

\* Mutant: an index of -1 is set like any other.
OrdersAsGiven(index) == {index}

\* Where a new autoload comes: the engine's choice, unless an index is given.
NewOrders(index) == IF index = NoIndex THEN Orders ELSE {index}

AutoloadAdd(k, path, singleton, index) ==
    \/ /\ mem[k] # Absent /\ ~Same(mem[k], path, singleton)
       /\ Respond(k, FALSE)
    \/ /\ mem[k] # Absent /\ Same(mem[k], path, singleton)
       /\ index \in {NoIndex, mem[k].order}
       /\ Respond(k, TRUE)
    \/ /\ mem[k] # Absent /\ Same(mem[k], path, singleton)
       /\ index \notin {NoIndex, mem[k].order}
       /\ Change(k, [mem[k] EXCEPT !.order = index])
       /\ UNCHANGED <<inputMap, unloaded>>
    \/ /\ mem[k] = Absent
       /\ \E order \in NewOrders(index) :
            Change(k, [path |-> path, singleton |-> singleton, order |-> order])
       /\ UNCHANGED <<inputMap, unloaded>>
    \/ \* The engine refuses the name: nobody looks at what it says.
       /\ mem[k] = Absent /\ singleton
       /\ Change(k, Absent)
       /\ UNCHANGED <<inputMap, unloaded>>

AutoloadRemove(k) ==
    \/ mem[k] = Absent /\ Respond(k, TRUE)
    \/ /\ mem[k] # Absent
       /\ Change(k, Absent)
       /\ UNCHANGED <<inputMap, unloaded>>

-----------------------------------------------------------------------------
(* project.input_map_*.                                                    *)

\* The end of set_action and remove_action: only when all of save went well.
Reload(a) ==
    IF last'.ok
    THEN inputMap' = Loaded(mem') /\ unloaded' = {}
    ELSE UNCHANGED inputMap /\ unloaded' = unloaded \cup {a}

\* set_action, of an action that is absent or well formed.
SetAction(a, binding) ==
    \/ mem[a] = binding /\ Respond(a, TRUE)
    \/ /\ mem[a] # binding
       /\ Change(a, binding)
       /\ Reload(a)

ActionCreate(a, deadzone) ==
    LET binding == [deadzone |-> deadzone, events |-> {}] IN
      \/ mem[a] \in {Absent, binding} /\ SetAction(a, binding)
      \/ mem[a] \notin {Absent, binding} /\ Respond(a, FALSE)

\* Mutant: the InputMap keeps the action that is deleted.
ActionDeleteFromSettings(a) ==
    \/ mem[a] = Absent /\ Respond(a, TRUE)
    \/ /\ mem[a] # Absent
       /\ Change(a, Absent)
       /\ UNCHANGED <<inputMap, unloaded>>

ActionDelete(a) ==
    \/ mem[a] = Absent /\ Respond(a, TRUE)
    \/ /\ mem[a] # Absent
       /\ Change(a, Absent)
       /\ Reload(a)

\* get_action fails: no such action, or none that can be read.
Unreadable(a) == mem[a] \in {Absent, Junk} /\ Respond(a, FALSE)

DeadzoneSet(a, deadzone) ==
    \/ Unreadable(a)
    \/ /\ mem[a] \in Bindings
       /\ SetAction(a, [mem[a] EXCEPT !.deadzone = deadzone])

EventAdd(a, event) ==
    \/ Unreadable(a)
    \/ /\ mem[a] \in Bindings
       /\ SetAction(a, [mem[a] EXCEPT !.events = @ \cup {event}])

EventRemove(a, event) ==
    \/ Unreadable(a)
    \/ /\ mem[a] \in Bindings
       /\ SetAction(a, [mem[a] EXCEPT !.events = @ \ {event}])

-----------------------------------------------------------------------------
\* The editor saves the settings for reasons of its own.
EditorSave ==
    /\ disk' = mem
    /\ unsaved' = {}
    /\ UNCHANGED <<mem, inputMap, unloaded, last>>

\* The editor ends, or crashes, and opens the project again.
Restart ==
    /\ mem' = disk
    /\ inputMap' = Loaded(disk)
    /\ unsaved' = {} /\ unloaded' = {}
    /\ last' = [key |-> Absent, ok |-> TRUE]
    /\ UNCHANGED disk

Tool ==
    \/ \E k \in Keys : \E value \in ValuesOf(k) : SettingsSet(k, value)
    \/ \E k \in Autoloads :
         \/ AutoloadRemove(k)
         \/ \E path \in Paths, singleton \in BOOLEAN, index \in Orders \cup {NoIndex} :
              AutoloadAdd(k, path, singleton, index)
    \/ \E a \in Actions :
         \/ ActionDelete(a)
         \/ \E deadzone \in Deadzones :
              ActionCreate(a, deadzone) \/ DeadzoneSet(a, deadzone)
         \/ \E event \in Events :
              EventAdd(a, event) \/ EventRemove(a, event)

Next == Tool \/ EditorSave \/ Restart

Spec == Init /\ [][Next]_vars

-----------------------------------------------------------------------------
TypeOK ==
    /\ \A k \in Keys : mem[k] \in ValuesOf(k) /\ disk[k] \in ValuesOf(k)
    /\ \A a \in Actions : inputMap[a] \in Bindings \cup {Absent}
    /\ DOMAIN mem = Keys /\ DOMAIN disk = Keys /\ DOMAIN inputMap = Actions
    /\ unsaved \subseteq Keys /\ unloaded \subseteq Actions
    /\ last \in [key : Keys \cup {Absent}, ok : BOOLEAN]

\* What the editor holds and project.godot does not was reported: the tool that
\* changed it answered that it could not save.
UnsavedWasReported == \A k \in Keys : disk[k] # mem[k] => k \in unsaved

\* The InputMap is what the settings say, but for actions changed by a tool that
\* failed or by project.settings_set, and not loaded since: an input tool loads
\* the InputMap when it changes an action and saves it whole, and so does a
\* restart.  A success alone does not: the retry of what could not be saved finds
\* it in memory, answers that nothing changed and loads nothing.
InputMapFollows ==
    \A a \in Actions : inputMap[a] # Loaded(mem)[a] => a \in unloaded

\* A tool changes no setting but the one it names, in memory; and on disk it
\* brings about, of other settings, only changes that were reported as failed.
OtherSettingsKept ==
    [][Restart \/ EditorSave \/
       \A k \in Keys \ {last'.key} :
          /\ mem'[k] = mem[k]
          /\ disk'[k] # disk[k] => k \in unsaved /\ disk'[k] = mem[k]]_vars

\* docs/DOCUMENTATION.md:509 says of `project settings set`: "Sets one project
\* setting from a JSON value and saves `project.godot` when changed."  A success
\* means that the setting is in project.godot.
SuccessIsSaved ==
    last.key \in Plain /\ last.ok => disk[last.key] = mem[last.key]
=============================================================================
