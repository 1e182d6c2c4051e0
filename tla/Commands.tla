------------------------------ MODULE Commands ------------------------------
(***************************************************************************)
(* godotctl's commands: what each of them checks before it asks, and the   *)
(* one tool call that it makes.  An action is one command's RunE, from     *)
(* flags that the user may have set to anything or left alone.  All checks *)
(* fail alike, so their order is left out.  A text stands for all that     *)
(* differ from it in the white space around them only.                     *)
(***************************************************************************)
EXTENDS AddonInstall

CONSTANTS
    Texts, Blank,  \* what a flag may say; the texts that TrimSpace leaves empty
    Numbers,       \* what a number flag may say
    NoNumber       \* a float that JSON cannot write, NaN or infinity

ASSUME FlagAssumption ==
    Blank \subseteq Texts /\ "" \in Blank /\ Numbers \subseteq Int /\ NoNumber \notin Numbers

ToolContract == INSTANCE ToolContract

Floats == Numbers \cup {NoNumber}

\* A flag whose being set matters: <<>> when it was left alone.
Unset(S) == {<<>>} \cup {<<x>> : x \in S}

TrimSpace(t) == IF t \in Blank THEN "" ELSE t
Given(ts) == \A t \in ts : t \notin Blank
Both(t, u) == Given({t, u})

\* Arguments with more arguments, and one that is sent only when it is given,
\* or set.
args ++ more ==
    [a \in DOMAIN args \cup DOMAIN more |-> IF a \in DOMAIN args THEN args[a] ELSE more[a]]
Arg(arg, x) == [a \in {arg} |-> x]
IfGiven(arg, t) == IF Given({t}) THEN Arg(arg, t) ELSE <<>>
IfSet(arg, flag) == IF flag = <<>> THEN <<>> ELSE Arg(arg, flag[1])

\* A number flag that was left alone, or is not negative.
NotNegative(flag) == flag = <<>> \/ flag[1] >= 0

-----------------------------------------------------------------------------
(* godotctl scene                                                          *)

SceneAddNode ==
    \E scene, name, type, parent \in Texts :
        Submit(Given({scene, name, type, parent}), "scene.add_node",
               [scene_path |-> scene, node_name |-> name, node_type |-> type,
                parent_path |-> parent])

SceneCreate ==
    \E scene, root, name \in Texts, overwrite, open \in BOOLEAN :
        Submit(Given({scene, root, name}), "scene.create",
               [scene_path |-> scene, root_type |-> root, root_name |-> name,
                overwrite |-> overwrite, open_in_editor |-> open])

SceneDuplicate ==
    \E scene, path, parent, name \in Texts :
        Submit(Given({scene, path, parent}), "scene.duplicate_node",
               [scene_path |-> scene, node_path |-> path, parent_path |-> parent]
                   ++ IfGiven("name", name))

SceneGroupAdd ==
    \E scene, path, group \in Texts :
        Submit(Given({scene, path, group}), "scene.group_add",
               [scene_path |-> scene, node_path |-> path, group |-> group])

SceneGroupRemove ==
    \E scene, path, group \in Texts :
        Submit(Given({scene, path, group}), "scene.group_remove",
               [scene_path |-> scene, node_path |-> path, group |-> group])

SceneGroupList ==
    \E scene, path \in Texts, max \in Numbers :
        Submit(Given({scene}) /\ max >= 0, "scene.group_list",
               [scene_path |-> scene, max |-> max] ++ IfGiven("node_path", path))

SceneInspect ==
    \E scene, node \in Texts, max \in Numbers,
       props, values, connections, signals \in BOOLEAN :
        Submit(Given({scene}) /\ (values => props) /\ max >= 0, "scene.inspect",
               [scene_path |-> scene, node_path |-> node, include_properties |-> props,
                include_property_values |-> values, include_connections |-> connections,
                include_signal_names |-> signals, max_properties |-> max])

SceneInstanceScene ==
    \E scene, source, parent, name \in Texts :
        Submit(Given({scene, source, parent}), "scene.instance_scene",
               [scene_path |-> scene, source_scene_path |-> source, parent_path |-> parent]
                   ++ IfGiven("name", name))

SceneNodeConfigure ==
    \E scene, path, config \in Texts :
        Submit(Given({scene, path, config}), "scene.node_configure",
               [scene_path |-> scene, node_path |-> path, config_json |-> config])

SceneRemoveNode ==
    \E scene, path \in Texts :
        Submit(Given({scene, path}), "scene.remove_node",
               [scene_path |-> scene, node_path |-> path])

SceneRename ==
    \E scene, path, name \in Texts :
        Submit(Given({scene, path, name}), "scene.rename_node",
               [scene_path |-> scene, node_path |-> path, name |-> name])

\* Mutant: the index is sent unchecked.
SceneReparentAnywhere ==
    \E scene, path, parent \in Texts, index \in Unset(Numbers) :
        Submit(Given({scene, path, parent}), "scene.reparent_node",
               [scene_path |-> scene, node_path |-> path, parent_path |-> parent]
                   ++ IfSet("index", index))

SceneReparent ==
    \E scene, path, parent \in Texts, index \in Unset(Numbers) :
        Submit(Given({scene, path, parent}) /\ NotNegative(index), "scene.reparent_node",
               [scene_path |-> scene, node_path |-> path, parent_path |-> parent]
                   ++ IfSet("index", index))

SceneSetProp ==
    \E scene, path, prop, value \in Texts :
        Submit(Given({scene, path, prop, value}), "scene.set_prop",
               [scene_path |-> scene, node_path |-> path, property |-> prop,
                value_json |-> value])

SceneSignalConnect ==
    \E scene, from, signal, to, method \in Texts, flags \in Unset(Numbers) :
        Submit(Given({scene, from, signal, to, method}) /\ NotNegative(flags),
               "scene.signal_connect",
               [scene_path |-> scene, from_node |-> from, signal |-> signal,
                to_target |-> to, method |-> method] ++ IfSet("flags", flags))

SceneSignalDisconnect ==
    \E scene, from, signal, to, method \in Texts, flags \in Unset(Numbers) :
        Submit(Given({scene, from, signal, to, method}) /\ NotNegative(flags),
               "scene.signal_disconnect",
               [scene_path |-> scene, from_node |-> from, signal |-> signal,
                to_target |-> to, method |-> method] ++ IfSet("flags", flags))

SceneSignalList ==
    \E scene, from, signal, to, method \in Texts, max \in Numbers :
        Submit(Given({scene}) /\ max >= 0, "scene.signal_list",
               [scene_path |-> scene, max |-> max]
                   ++ IfGiven("from_node", from) ++ IfGiven("signal", signal)
                   ++ IfGiven("to_target", to) ++ IfGiven("method", method))

SceneTransformApply ==
    \E scene, path, value \in Texts :
        Submit(Given({scene, path, value}), "scene.transform_apply",
               [scene_path |-> scene, node_path |-> path, value_json |-> value])

SceneTree == \E scene \in Texts : Submit(Given({scene}), "scene.tree", [scene_path |-> scene])

SceneCommands ==
    \/ SceneAddNode \/ SceneCreate \/ SceneDuplicate
    \/ SceneGroupAdd \/ SceneGroupRemove \/ SceneGroupList
    \/ SceneInspect \/ SceneInstanceScene \/ SceneNodeConfigure
    \/ SceneRemoveNode \/ SceneRename \/ SceneReparent \/ SceneSetProp
    \/ SceneSignalConnect \/ SceneSignalDisconnect \/ SceneSignalList
    \/ SceneTransformApply \/ SceneTree

-----------------------------------------------------------------------------
(* godotctl project                                                        *)

AutoloadList ==
    \E name \in Texts, max \in Numbers :
        Submit(max >= 0, "project.autoload_list", [name |-> TrimSpace(name), max |-> max])

\* -1 is the default, and puts the autoload last.
AutoloadAdd ==
    \E name, path \in Texts, singleton \in BOOLEAN, index \in Unset(Numbers) :
        Submit(Given({name, path}) /\ (index = <<>> \/ index[1] >= -1), "project.autoload_add",
               [name |-> name, path |-> path, singleton |-> singleton]
                   ++ IfSet("index", index))

AutoloadRemove ==
    \E name \in Texts : Submit(Given({name}), "project.autoload_remove", [name |-> name])

Graph ==
    \E root, prefix \in Texts, nodes, edges, full \in BOOLEAN, maxNodes, maxEdges \in Numbers :
        Submit(maxNodes >= 0 /\ maxEdges >= 0, "project.graph",
               [root_path |-> TrimSpace(root), path_prefix |-> TrimSpace(prefix),
                include_nodes |-> nodes \/ full, include_edges |-> edges \/ full,
                max_nodes |-> maxNodes, max_edges |-> maxEdges])

ImportGet ==
    \E path, key, prefix \in Texts, values \in BOOLEAN, max \in Numbers :
        Submit(Given({path}) /\ ~Both(key, prefix) /\ max >= 0, "project.import_get",
               [path |-> path, key |-> key, prefix |-> prefix,
                include_values |-> values, max_properties |-> max])

ImportSet ==
    \E path, key, value \in Texts :
        Submit(Given({path, key, value}), "project.import_set",
               [path |-> path, key |-> key, value_json |-> value])

ImportReimport ==
    \E path \in Texts : Submit(Given({path}), "project.import_reimport", [path |-> path])

\* What is no number is not negative either, and cannot be sent: CallTool's
\* error is a validation error, too.
Writable(float) == float # NoNumber /\ float >= 0

InputMapActionCreate ==
    \E action \in Texts, deadzone \in Floats :
        Submit(Given({action}) /\ Writable(deadzone), "project.input_map_action_create",
               [action |-> action, deadzone |-> deadzone])

InputMapActionDelete ==
    \E action \in Texts :
        Submit(Given({action}), "project.input_map_action_delete", [action |-> action])

InputMapDeadzoneSet ==
    \E action \in Texts, value \in Floats :
        Submit(Given({action}) /\ Writable(value), "project.input_map_deadzone_set",
               [action |-> action, value |-> value])

InputMapEventAdd ==
    \E action, event \in Texts :
        Submit(Given({action, event}), "project.input_map_event_add",
               [action |-> action, event_json |-> event])

InputMapEventRemove ==
    \E action, event \in Texts :
        Submit(Given({action, event}), "project.input_map_event_remove",
               [action |-> action, event_json |-> event])

\* A detail that is asked for; or that comes, unless it is declined, with the
\* one row that is named.
Detail(flag, name, rows) == flag = <<TRUE>> \/ (flag = <<>> /\ Given({name}) /\ rows)

InputMapGet ==
    \E action, prefix \in Texts, events \in Unset(BOOLEAN), countOnly \in BOOLEAN,
       maxActions, maxEvents \in Numbers :
        Submit(/\ maxActions >= 0 /\ maxEvents >= 0 /\ ~Both(action, prefix)
               /\ ~(countOnly /\ events = <<TRUE>>),
               "project.input_map_get",
               [action |-> TrimSpace(action), prefix |-> TrimSpace(prefix),
                include_actions |-> ~countOnly,
                include_events |-> Detail(events, action, ~countOnly),
                max_actions |-> maxActions, max_events |-> maxEvents])

SettingsGet ==
    \E key, prefix \in Texts, values \in Unset(BOOLEAN), countOnly \in BOOLEAN,
       max \in Numbers :
        Submit(max >= 0 /\ ~Both(key, prefix) /\ ~(countOnly /\ values = <<TRUE>>),
               "project.settings_get",
               [key |-> TrimSpace(key), prefix |-> TrimSpace(prefix),
                include_settings |-> ~countOnly,
                include_values |-> Detail(values, key, ~countOnly), max_settings |-> max])

SettingsSet ==
    \E key, value \in Texts :
        Submit(Given({key, value}), "project.settings_set",
               [key |-> key, value_json |-> value])

ProjectCommands ==
    \/ AutoloadList \/ AutoloadAdd \/ AutoloadRemove \/ Graph
    \/ ImportGet \/ ImportSet \/ ImportReimport
    \/ InputMapActionCreate \/ InputMapActionDelete \/ InputMapDeadzoneSet
    \/ InputMapEventAdd \/ InputMapEventRemove \/ InputMapGet
    \/ SettingsGet \/ SettingsSet

-----------------------------------------------------------------------------
(* godotctl resource, file, script, class                                  *)

ResourceCreate ==
    \E path, type \in Texts, overwrite \in BOOLEAN :
        Submit(Given({path, type}), "resource.create",
               [path |-> path, type |-> type, overwrite |-> overwrite])

ResourceGet ==
    \E path, prop \in Texts :
        Submit(Given({path, prop}), "resource.get", [path |-> path, prop |-> prop])

ResourceList ==
    \E path \in Texts, values \in BOOLEAN, max \in Numbers :
        Submit(Given({path}) /\ max >= 0, "resource.list",
               [path |-> path, include_values |-> values, max_properties |-> max])

ResourceRefs ==
    \E path, prefix \in Texts, max \in Numbers, countOnly \in BOOLEAN :
        Submit(Given({path}) /\ max >= 0, "resource.refs",
               [path |-> path, from_prefix |-> TrimSpace(prefix),
                include_references |-> ~countOnly, max_refs |-> max])

ResourceSetProp ==
    \E path, prop, value \in Texts :
        Submit(Given({path, prop, value}), "resource.set_prop",
               [path |-> path, prop |-> prop, value_json |-> value])

CfgGet ==
    \E path, section, key \in Texts :
        Submit(Given({path}) /\ (Given({key}) => Given({section})), "file.cfg_get",
               [path |-> path, section |-> section, key |-> key])

CfgSet ==
    \E path, section, key, value \in Texts, create \in BOOLEAN :
        Submit(Given({path, section, key, value}), "file.cfg_set",
               [path |-> path, section |-> section, key |-> key, value_json |-> value,
                create |-> create])

CfgRemove ==
    \E path, section, key \in Texts :
        Submit(Given({path, section}), "file.cfg_remove",
               [path |-> path, section |-> section, key |-> key])

JsonGet ==
    \E path, pointer \in Texts :
        Submit(Given({path}), "file.json_get", [path |-> path, pointer |-> pointer])

JsonSet ==
    \E path, pointer, value \in Texts, create \in BOOLEAN :
        Submit(Given({path, value}), "file.json_set",
               [path |-> path, pointer |-> pointer, value_json |-> value, create |-> create])

JsonRemove ==
    \E path, pointer \in Texts :
        Submit(Given({path, pointer}), "file.json_remove",
               [path |-> path, pointer |-> pointer])

FileList ==
    \E path \in Texts, recursive \in BOOLEAN :
        Submit(Given({path}), "file.list", [path |-> path, recursive |-> recursive])

FileRead == \E path \in Texts : Submit(Given({path}), "file.read", [path |-> path])

ScriptAttach ==
    \E scene, node, script \in Texts, overwrite \in BOOLEAN :
        Submit(Given({scene, node, script}), "script.attach",
               [scene_path |-> scene, node_path |-> node, script_path |-> script,
                overwrite |-> overwrite])

ScriptCreate ==
    \E path, base, className \in Texts, overwrite \in BOOLEAN :
        Submit(Given({path, base}), "script.create",
               [script_path |-> path, base_class |-> base, class_name |-> className,
                overwrite |-> overwrite])

\* A blank text may be looked for, and an empty one may replace it.
ScriptEdit ==
    \E path, find \in Texts, replace \in Unset(Texts) :
        Submit(Given({path}) /\ find # "" /\ replace # <<>>, "script.edit",
               [script_path |-> path, find_text |-> find] ++ IfSet("replace_text", replace))

ScriptValidate ==
    \E path \in Texts : Submit(Given({path}), "script.validate", [script_path |-> path])

ClassDescribe ==
    \E name \in Texts, props, methods, signals, inheritors, full \in BOOLEAN :
        Submit(Given({name}), "class.describe",
               [name |-> name, include_properties |-> props \/ full,
                include_methods |-> methods \/ full, include_signals |-> signals \/ full,
                include_inheritors |-> inheritors \/ full])

FileCommands ==
    \/ ResourceCreate \/ ResourceGet \/ ResourceList \/ ResourceRefs \/ ResourceSetProp
    \/ CfgGet \/ CfgSet \/ CfgRemove \/ JsonGet \/ JsonSet \/ JsonRemove
    \/ FileList \/ FileRead \/ ClassDescribe
    \/ ScriptAttach \/ ScriptCreate \/ ScriptEdit \/ ScriptValidate

-----------------------------------------------------------------------------
(* godotctl run, tools                                                     *)

RunStart == \E scene \in Texts : Submit(TRUE, "run.start", IfGiven("scene_path", scene))
RunStop == Submit(TRUE, "run.stop", <<>>)
RunStatus == Submit(TRUE, "run.status", <<>>)

RunLogs ==
    \E cursor, max, followMS \in Numbers, level, contains \in Texts, follow \in BOOLEAN :
        Submit(cursor >= 0 /\ max >= 0 /\ followMS >= 0, "run.logs",
               [cursor |-> cursor, max |-> max, level |-> TrimSpace(level),
                contains |-> TrimSpace(contains)]
                   ++ (IF follow THEN Arg("follow_window_msec", followMS) ELSE <<>>))

RunTree == \E max \in Numbers : Submit(max >= 0, "run.tree", [max |-> max])
RunStep == \E frames \in Numbers : Submit(frames >= 1, "run.step", [frames |-> frames])

RunPropGet ==
    \E path, prop \in Texts :
        Submit(Given({path, prop}), "run.prop_get", [node_path |-> path, property |-> prop])

RunPropList ==
    \E path \in Texts, max \in Numbers :
        Submit(Given({path}) /\ max >= 0, "run.prop_list", [node_path |-> path, max |-> max])

\* The event is read as JSON: object says whether it is an object.
RunInputEvent ==
    \E event \in Texts, object \in BOOLEAN :
        Submit(Given({event}) /\ object, "run.input_event", [event |-> event])

RunInputPress ==
    \E action \in Texts, strength \in Floats :
        Submit(Given({action}) /\ strength # NoNumber, "run.input_action_press",
               [action |-> action, strength |-> strength])

RunInputRelease ==
    \E action \in Texts :
        Submit(Given({action}), "run.input_action_release", [action |-> action])

ToolsDescribe == \E tool \in Texts : Submit(TRUE, "tools.describe", [tool |-> tool])
ToolsPing == Submit(TRUE, "ping", <<>>)

RunCommands ==
    \/ RunStart \/ RunStop \/ RunStatus \/ RunLogs \/ RunTree \/ RunStep
    \/ RunPropGet \/ RunPropList \/ RunInputEvent \/ RunInputPress \/ RunInputRelease
    \/ ToolsDescribe \/ ToolsPing

-----------------------------------------------------------------------------

\* (The first conjunct, which Submit has too, spares TLC the flags.)
Calling ==
    /\ phase = "ready"
    /\ SceneCommands \/ ProjectCommands \/ FileCommands \/ RunCommands

Next ==
    \/ Package \/ InstallBridge \/ Extract
    \/ (Calling \/ Wire \/ Client \/ Others) /\ UNCHANGED addonVars

Spec == Init /\ [][Next]_vars

-----------------------------------------------------------------------------
(* Properties.                                                             *)

Phases == {"unbuilt", "ready", "sent", "asked", "serving", "removing", "extracting",
           "copying", "exited"}

\* Every variable keeps its type; exit is known at the end and only then.
TypeOK ==
    /\ AddonTypeOK
    /\ phase \in Phases /\ exit \in -1..4 /\ (exit = -1 <=> phase # "exited")
    /\ toolSaid \in {"", "done", "INVALID_ARGS", "FAILED"}
    /\ printed \in Seq(0..4)
    /\ call \in [{Us} -> Daemon!States] /\ ran \in [{Us} -> 0..1]

\* Whatever the user sets or leaves alone, the request that a command sends
\* has the arguments that its tool asks for, no others, and none that the tool
\* refuses unseen, but for what ToolContract leaves to it (the RunE of each
\* command, describe_tool.gd).
RequestFitsTool ==
    request # NoRequest => ToolContract!Accepts(request.tool, request.args)

\* Exit status 0 is no guess: the tool ran, for this call, and did what it
\* was asked (client/tool_call.go:47-60, tool_call_handler.go:38-63).
ExitZeroDone ==
    exit = 0 /\ request # NoRequest =>
        call[Us] = "delivered" /\ ran[Us] = 1 /\ toolSaid = "done"

\* A command that ends with exit status 1, a validation error, has changed
\* nothing and never will, so that it may be put right and be given again:
\* no tool runs for it, late or otherwise, or the tool refused it itself; and
\* the addon is as it was (client/tool_errors.go:10-54, install.go:28-34).
ExitOneUntouched ==
    exit = 1 => /\ ran[Us] = 0 \/ toolSaid = "INVALID_ARGS"
                /\ target = found
=============================================================================
