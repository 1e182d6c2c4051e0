---------------------------- MODULE CommandProofs ----------------------------
(***************************************************************************)
(* Proofs about Commands, for any files, texts and numbers: that a request *)
(* fits its tool, what the exit status tells, what install-bridge leaves.  *)
(***************************************************************************)
EXTENDS Commands, FiniteSetTheorems, SequenceTheorems, TLAPS

-----------------------------------------------------------------------------
(* The inductive invariant.  What a response says of the call must hold    *)
(* from the moment it is written, not only when it is read (WireInv); and  *)
(* what is extracted so far is exactly what is no more to do (ExtractInv). *)

Refused == call[Us] = "refused"
Delivered(says) == call[Us] = "delivered" /\ toolSaid = says

WireTypes ==
    /\ call \in [{Us} -> Daemon!States] /\ ran \in [{Us} -> 0..1]
    /\ toolSaid \in {"", "done", "INVALID_ARGS", "FAILED"}

WireInv ==
    /\ call[Us] \in {"new", "refused"} => ran[Us] = 0
    /\ call[Us] = "delivered" => ran[Us] = 1
    /\ ran[Us] = 1 => toolSaid # ""
    /\ call[Us] \in {"new", "open"} => response = <<>>
    /\ response # <<>> =>
          /\ response[1].ok => Delivered("done")
          /\ ~response[1].ok /\ Classify(response[1].code, response[1].toolCode)
                                   = "validation_error" =>
                Refused \/ Delivered("INVALID_ARGS")

ExitTypes ==
    /\ phase \in Phases /\ exit \in -1..4 /\ (exit = -1 <=> phase # "exited")
    /\ printed \in Seq(0..4)

ExitInv ==
    /\ phase \notin {"sent", "exited"} => request = NoRequest
    /\ phase = "sent" => request # NoRequest
    /\ request = NoRequest => call[Us] = "new"
    /\ exit = 0 /\ request # NoRequest => Delivered("done")
    /\ exit = 1 => request = NoRequest \/ Refused \/ Delivered("INVALID_ARGS")

Installing == phase \in {"removing", "extracting", "copying"}

ExtractInv ==
    /\ archive \in {<<>>, <<Files>>}
    /\ phase # "unbuilt" => bundle = <<Files>>
    /\ (~Installing /\ phase # "exited") \/ exit = 1 => target = found
    /\ phase = "removing" => target.kind = "dir" /\ todo = Files
    /\ phase \in {"extracting", "copying"} =>
          /\ target.kind \in {"absent", "dir"}
          /\ DOMAIN target.has = Files \ todo
    /\ phase = "extracting" => \A f \in DOMAIN target.has : target.has[f] = "new"
    /\ phase = "copying" =>
          target.kind = "dir" /\ \A f \in DOMAIN target.has : target.has[f] \in {"new", "part"}
    /\ count # -1 => phase = "exited" /\ InstalledWhole

CallInv == WireTypes /\ WireInv /\ ExitTypes /\ ExitInv
IInv == CallInv /\ AddonTypeOK /\ ExtractInv

-----------------------------------------------------------------------------
(* What every command does to the call.                                    *)

\* The end of a command, with a kind.
LEMMA Ends ==
    ASSUME ExitTypes, NEW kind \in Kinds, NEW lines \in Seq(0..4), Exits(kind, lines)
    PROVE  /\ ExitTypes'
           /\ exit' = ExitCode(kind) /\ phase' = "exited" /\ request' = request
<1>1. ExitCode(kind) \in 0..4
  BY DEF Kinds, ExitCode
<1>2. printed' \in Seq(0..4)
  BY ConcatProperties DEF ExitTypes, Exits
<1> QED  BY <1>1, <1>2 DEF ExitTypes, Exits, Phases

LEMMA FailEnds ==
    ASSUME ExitTypes, NEW kind \in Kinds, Fail(kind)
    PROVE  /\ ExitTypes'
           /\ exit' = ExitCode(kind) /\ phase' = "exited" /\ request' = request
<1>1. ExitCode(kind) \in 0..4
  BY DEF Kinds, ExitCode
<1>2. <<ExitCode(kind)>> \in Seq(0..4) /\ <<>> \in Seq(0..4)
  BY <1>1
<1>3. PICK lines \in {<<ExitCode(kind)>>, <<>>} : Exits(kind, lines)
  BY DEF Fail
<1> QED  BY <1>2, <1>3, Ends

LEMMA SuccessEnds ==
    ASSUME ExitTypes, Success
    PROVE  ExitTypes' /\ exit' \in {0, 4} /\ phase' = "exited" /\ request' = request
<1>1. <<0>> \in Seq(0..4) /\ <<>> \in Seq(0..4)
  OBVIOUS
<1>2. "ok" \in Kinds /\ "other" \in Kinds
  BY DEF Kinds
<1> QED  BY <1>1, <1>2, Ends DEF Success, ExitCode

-----------------------------------------------------------------------------
(* The commands that call a tool: each refuses its flags or sends one      *)
(* request with the name of a tool.                                        *)

Submitted ==
    /\ phase = "ready" /\ UNCHANGED daemonVars
    /\ \/ Fail("validation_error")
       \/ phase' = "sent" /\ request' # NoRequest /\ UNCHANGED <<printed, exit>>

LEMMA SubmitSubmits ==
    ASSUME NEW valid, NEW tool, NEW args, tool # "", Submit(valid, tool, args)
    PROVE  Submitted
<1>1. [tool |-> tool, args |-> args] # NoRequest
  BY DEF NoRequest
<1> QED  BY <1>1 DEF Submit, Submitted

LEMMA SceneSubmits == ASSUME SceneCommands PROVE Submitted
<1>1. ASSUME SceneAddNode \/ SceneCreate \/ SceneDuplicate PROVE Submitted
  BY <1>1, SubmitSubmits DEF SceneAddNode, SceneCreate, SceneDuplicate
<1>2. ASSUME SceneGroupAdd \/ SceneGroupRemove \/ SceneGroupList PROVE Submitted
  BY <1>2, SubmitSubmits DEF SceneGroupAdd, SceneGroupRemove, SceneGroupList
<1>3. ASSUME SceneInspect \/ SceneInstanceScene \/ SceneNodeConfigure PROVE Submitted
  BY <1>3, SubmitSubmits DEF SceneInspect, SceneInstanceScene,
              SceneNodeConfigure
<1>4. ASSUME SceneRemoveNode \/ SceneRename \/ SceneReparent PROVE Submitted
  BY <1>4, SubmitSubmits DEF SceneRemoveNode, SceneRename, SceneReparent
<1>5. ASSUME SceneSetProp \/ SceneSignalConnect \/ SceneSignalDisconnect PROVE Submitted
  BY <1>5, SubmitSubmits DEF SceneSetProp, SceneSignalConnect,
              SceneSignalDisconnect
<1>6. ASSUME SceneSignalList \/ SceneTransformApply \/ SceneTree PROVE Submitted
  BY <1>6, SubmitSubmits DEF SceneSignalList, SceneTransformApply, SceneTree
<1> QED  BY <1>1, <1>2, <1>3, <1>4, <1>5, <1>6 DEF SceneCommands

LEMMA ProjectSubmits == ASSUME ProjectCommands PROVE Submitted
<1>1. ASSUME AutoloadList \/ AutoloadAdd \/ AutoloadRemove PROVE Submitted
  BY <1>1, SubmitSubmits DEF AutoloadList, AutoloadAdd, AutoloadRemove
<1>2. ASSUME Graph \/ ImportGet \/ ImportSet \/ ImportReimport PROVE Submitted
  BY <1>2, SubmitSubmits DEF Graph, ImportGet, ImportSet, ImportReimport
<1>3. ASSUME InputMapActionCreate \/ InputMapActionDelete \/ InputMapDeadzoneSet
      PROVE Submitted
  BY <1>3, SubmitSubmits DEF InputMapActionCreate, InputMapActionDelete,
              InputMapDeadzoneSet
<1>4. ASSUME InputMapEventAdd \/ InputMapEventRemove \/ InputMapGet PROVE Submitted
  BY <1>4, SubmitSubmits DEF InputMapEventAdd, InputMapEventRemove, InputMapGet
<1>5. ASSUME SettingsGet \/ SettingsSet PROVE Submitted
  BY <1>5, SubmitSubmits DEF SettingsGet, SettingsSet
<1> QED  BY <1>1, <1>2, <1>3, <1>4, <1>5 DEF ProjectCommands

LEMMA FileSubmits == ASSUME FileCommands PROVE Submitted
<1>1. ASSUME ResourceCreate \/ ResourceGet \/ ResourceList PROVE Submitted
  BY <1>1, SubmitSubmits DEF ResourceCreate, ResourceGet, ResourceList
<1>2. ASSUME ResourceRefs \/ ResourceSetProp \/ ClassDescribe PROVE Submitted
  BY <1>2, SubmitSubmits DEF ResourceRefs, ResourceSetProp, ClassDescribe
<1>3. ASSUME CfgGet \/ CfgSet \/ CfgRemove PROVE Submitted
  BY <1>3, SubmitSubmits DEF CfgGet, CfgSet, CfgRemove
<1>4. ASSUME JsonGet \/ JsonSet \/ JsonRemove \/ FileList \/ FileRead PROVE Submitted
  BY <1>4, SubmitSubmits DEF JsonGet, JsonSet, JsonRemove, FileList, FileRead
<1>5. ASSUME ScriptAttach \/ ScriptCreate \/ ScriptEdit \/ ScriptValidate PROVE Submitted
  BY <1>5, SubmitSubmits DEF ScriptAttach, ScriptCreate, ScriptEdit,
              ScriptValidate
<1> QED  BY <1>1, <1>2, <1>3, <1>4, <1>5 DEF FileCommands

LEMMA RunSubmits == ASSUME RunCommands PROVE Submitted
<1>1. ASSUME RunStart \/ RunStop \/ RunStatus \/ RunLogs PROVE Submitted
  BY <1>1, SubmitSubmits DEF RunStart, RunStop, RunStatus, RunLogs
<1>2. ASSUME RunTree \/ RunStep \/ RunPropGet \/ RunPropList PROVE Submitted
  BY <1>2, SubmitSubmits DEF RunTree, RunStep, RunPropGet, RunPropList
<1>3. ASSUME RunInputEvent \/ RunInputPress \/ RunInputRelease PROVE Submitted
  BY <1>3, SubmitSubmits DEF RunInputEvent, RunInputPress, RunInputRelease
<1>4. ASSUME ToolsDescribe \/ ToolsPing PROVE Submitted
  BY <1>4, SubmitSubmits DEF ToolsDescribe, ToolsPing
<1> QED  BY <1>1, <1>2, <1>3, <1>4 DEF RunCommands

LEMMA CommandSubmits == ASSUME Calling PROVE Submitted
BY SceneSubmits, ProjectSubmits, FileSubmits, RunSubmits DEF Calling

-----------------------------------------------------------------------------
(* What a command sends: the arguments that its tool needs and takes.      *)

\* The arguments that a tool needs are there and not blank, no others are but
\* those that it takes, and its counts are not negative.
Fit(args, needs, takes) ==
    /\ needs \subseteq DOMAIN args /\ DOMAIN args \subseteq needs \cup takes
    /\ \A a \in needs \ (ToolContract!Verbatim \cup ToolContract!Counts) : args[a] \notin Blank
    /\ \A a \in DOMAIN args \cap ToolContract!Counts : args[a] >= 0

Asks(tool, needs, takes) ==
    request' # request => request'.tool = tool /\ Fit(request'.args, needs, takes)

\* Tools whose arguments exclude, or call for, one another.
Picky == {"project.import_get", "project.settings_get", "project.input_map_get",
          "scene.inspect", "file.cfg_get", "scene.reparent_node", "script.edit", "run.step"}

\* A command asks a tool that is not picky, if it asks any.
Sends(tool, needs, takes) ==
    /\ ToolContract!Tool(tool, needs, takes) \in ToolContract!Tools
    /\ tool \notin Picky
    /\ Asks(tool, needs, takes)

LEMMA AsksFits ==
    ASSUME request = NoRequest, NEW tool, NEW needs, NEW takes,
           Asks(tool, needs, takes),
           ToolContract!Tool(tool, needs, takes) \in ToolContract!Tools,
           request' # request => ToolContract!Consistent(tool, request'.args)
    PROVE  RequestFitsTool'
<1> SUFFICES ASSUME request' # request
             PROVE  ToolContract!Accepts(request'.tool, request'.args)
  BY DEF RequestFitsTool
<1> QED  BY DEF ToolContract!Accepts, ToolContract!Tool, Fit, Asks

LEMMA SendsFits ==
    ASSUME request = NoRequest, NEW tool, NEW needs, NEW takes, Sends(tool, needs, takes)
    PROVE  RequestFitsTool'
<1>1. ToolContract!Consistent(tool, request'.args)
  BY DEF ToolContract!Consistent, Picky, Sends
<1> QED  BY <1>1, AsksFits DEF Sends

LEMMA SubmitSends ==
    ASSUME NEW valid, NEW tool, NEW args, Submit(valid, tool, args), request' # request
    PROVE  valid /\ request'.tool = tool /\ request'.args = args
BY DEF Submit, Fail, Exits

\* Commands of the picky tools, one by one.

LEMMA InspectFits == ASSUME request = NoRequest, SceneInspect PROVE RequestFitsTool'
<1>1. Asks("scene.inspect", {"scene_path"},
           {"node_path", "include_properties", "include_property_values",
            "include_connections", "include_signal_names", "max_properties"})
  BY DEF SceneInspect, Asks, Fit, ToolContract!Verbatim, ToolContract!Counts, Submit, Fail,
         Exits, Given
<1>2. ASSUME request' # request
      PROVE  ToolContract!Consistent("scene.inspect", request'.args)
  BY <1>2 DEF SceneInspect, ToolContract!Consistent, ToolContract!Asked, Submit, Fail, Exits
<1> QED  BY <1>1, <1>2, AsksFits DEF ToolContract!Tools

LEMMA ReparentFits == ASSUME request = NoRequest, SceneReparent PROVE RequestFitsTool'
<1>1. Asks("scene.reparent_node", {"scene_path", "node_path", "parent_path"}, {"index"})
  BY DEF SceneReparent, ++, IfSet, Arg, Asks, Fit, ToolContract!Verbatim,
         ToolContract!Counts, Submit, Fail, Exits, Given
<1>2. ASSUME request' # request
      PROVE  ToolContract!Consistent("scene.reparent_node", request'.args)
  BY <1>2 DEF SceneReparent, ++, IfSet, Arg, NotNegative, Unset, ToolContract!Consistent,
              Submit, Fail, Exits
<1> QED  BY <1>1, <1>2, AsksFits DEF ToolContract!Tools

LEMMA ImportGetFits == ASSUME request = NoRequest, ImportGet PROVE RequestFitsTool'
<1>1. Asks("project.import_get", {"path"},
           {"key", "prefix", "include_values", "max_properties"})
  BY DEF ImportGet, Asks, Fit, ToolContract!Verbatim, ToolContract!Counts, Submit, Fail,
         Exits, Given
<1>2. ASSUME request' # request
      PROVE  ToolContract!Consistent("project.import_get", request'.args)
  BY <1>2 DEF ImportGet, ToolContract!Consistent, ToolContract!Set, Both, Given, Submit,
              Fail, Exits
<1> QED  BY <1>1, <1>2, AsksFits DEF ToolContract!Tools

LEMMA CfgGetFits == ASSUME request = NoRequest, CfgGet PROVE RequestFitsTool'
<1>1. Asks("file.cfg_get", {"path"}, {"section", "key"})
  BY DEF CfgGet, Asks, Fit, ToolContract!Verbatim, ToolContract!Counts, Submit, Fail, Exits,
         Given
<1>2. ASSUME request' # request
      PROVE  ToolContract!Consistent("file.cfg_get", request'.args)
  BY <1>2 DEF CfgGet, ToolContract!Consistent, ToolContract!Set, Given, Submit, Fail, Exits
<1> QED  BY <1>1, <1>2, AsksFits DEF ToolContract!Tools

LEMMA StepFits == ASSUME request = NoRequest, RunStep PROVE RequestFitsTool'
<1>1. Asks("run.step", {}, {"frames"})
  BY DEF RunStep, Asks, Fit, ToolContract!Verbatim, ToolContract!Counts, Submit, Fail, Exits,
         Given
<1>2. ASSUME request' # request
      PROVE  ToolContract!Consistent("run.step", request'.args)
  BY <1>2 DEF RunStep, ToolContract!Consistent, Submit, Fail, Exits
<1> QED  BY <1>1, <1>2, AsksFits DEF ToolContract!Tools

LEMMA ScriptEditFits == ASSUME request = NoRequest, ScriptEdit PROVE RequestFitsTool'
<1> SUFFICES ASSUME request' # request PROVE RequestFitsTool'
  BY DEF RequestFitsTool
<1>1. PICK path, find \in Texts, replace \in Unset(Texts) :
         Submit(Given({path}) /\ find # "" /\ replace # <<>>, "script.edit",
                [script_path |-> path, find_text |-> find] ++ IfSet("replace_text", replace))
  BY DEF ScriptEdit
<1>2. /\ Given({path}) /\ find # "" /\ request'.tool = "script.edit"
      /\ request'.args =
            [script_path |-> path, find_text |-> find] ++ Arg("replace_text", replace[1])
  BY <1>1, SubmitSends DEF IfSet
<1>3. Asks("script.edit", {"script_path", "find_text", "replace_text"}, {})
  BY <1>2 DEF ++, Arg, Asks, Fit, ToolContract!Verbatim, ToolContract!Counts, Given
<1>4. ToolContract!Consistent("script.edit", request'.args)
  BY <1>2 DEF ++, Arg, ToolContract!Consistent
<1> QED  BY <1>3, <1>4, AsksFits DEF ToolContract!Tools

LEMMA InputMapGetFits == ASSUME request = NoRequest, InputMapGet PROVE RequestFitsTool'
<1> SUFFICES ASSUME request' # request PROVE RequestFitsTool'
  BY DEF RequestFitsTool
<1>1. PICK action, prefix \in Texts, events \in Unset(BOOLEAN), countOnly \in BOOLEAN,
           maxActions, maxEvents \in Numbers :
         Submit(/\ maxActions >= 0 /\ maxEvents >= 0 /\ ~Both(action, prefix)
                /\ ~(countOnly /\ events = <<TRUE>>),
                "project.input_map_get",
                [action |-> TrimSpace(action), prefix |-> TrimSpace(prefix),
                 include_actions |-> ~countOnly,
                 include_events |-> Detail(events, action, ~countOnly),
                 max_actions |-> maxActions, max_events |-> maxEvents])
  BY DEF InputMapGet
<1>2. /\ maxActions >= 0 /\ maxEvents >= 0 /\ ~Both(action, prefix)
      /\ ~(countOnly /\ events = <<TRUE>>)
      /\ request'.tool = "project.input_map_get"
      /\ request'.args = [action |-> TrimSpace(action), prefix |-> TrimSpace(prefix),
                          include_actions |-> ~countOnly,
                          include_events |-> Detail(events, action, ~countOnly),
                          max_actions |-> maxActions, max_events |-> maxEvents]
  BY <1>1, SubmitSends
<1>3. Asks("project.input_map_get", {}, {"action", "prefix", "include_actions",
                                         "include_events", "max_actions", "max_events"})
  BY <1>2 DEF Asks, Fit, ToolContract!Verbatim, ToolContract!Counts
<1>4. /\ request'.args["action"] = TrimSpace(action)
      /\ request'.args["prefix"] = TrimSpace(prefix)
      /\ "include_actions" \in DOMAIN request'.args
      /\ request'.args["include_actions"] = ~countOnly
      /\ request'.args["include_events"] = Detail(events, action, ~countOnly)
  BY <1>2
<1>5. request'.args["action"] \in Blank \/ request'.args["prefix"] \in Blank
  BY <1>2, <1>4, FlagAssumption DEF Both, Given, TrimSpace
<1>6. request'.args["include_events"] = TRUE => ~countOnly
  BY <1>2, <1>4 DEF Detail
<1>7. ~countOnly => request'.args["include_actions"] = TRUE
  BY <1>4
<1>8. ToolContract!Consistent("project.input_map_get", request'.args)
  BY <1>4, <1>5, <1>6, <1>7
     DEF ToolContract!Consistent, ToolContract!Set, ToolContract!Asked
<1> QED  BY <1>3, <1>8, AsksFits DEF ToolContract!Tools

LEMMA SettingsGetFits == ASSUME request = NoRequest, SettingsGet PROVE RequestFitsTool'
<1> SUFFICES ASSUME request' # request PROVE RequestFitsTool'
  BY DEF RequestFitsTool
<1>1. PICK key, prefix \in Texts, values \in Unset(BOOLEAN), countOnly \in BOOLEAN,
           max \in Numbers :
         Submit(max >= 0 /\ ~Both(key, prefix) /\ ~(countOnly /\ values = <<TRUE>>),
                "project.settings_get",
                [key |-> TrimSpace(key), prefix |-> TrimSpace(prefix),
                 include_settings |-> ~countOnly,
                 include_values |-> Detail(values, key, ~countOnly), max_settings |-> max])
  BY DEF SettingsGet
<1>2. /\ max >= 0 /\ ~Both(key, prefix) /\ ~(countOnly /\ values = <<TRUE>>)
      /\ request'.tool = "project.settings_get"
      /\ request'.args = [key |-> TrimSpace(key), prefix |-> TrimSpace(prefix),
                          include_settings |-> ~countOnly,
                          include_values |-> Detail(values, key, ~countOnly),
                          max_settings |-> max]
  BY <1>1, SubmitSends
<1>3. Asks("project.settings_get", {}, {"key", "prefix", "include_settings",
                                        "include_values", "max_settings"})
  BY <1>2 DEF Asks, Fit, ToolContract!Verbatim, ToolContract!Counts
<1>4. /\ request'.args["key"] = TrimSpace(key)
      /\ request'.args["prefix"] = TrimSpace(prefix)
      /\ "include_settings" \in DOMAIN request'.args
      /\ request'.args["include_settings"] = ~countOnly
      /\ request'.args["include_values"] = Detail(values, key, ~countOnly)
  BY <1>2
<1>5. request'.args["key"] \in Blank \/ request'.args["prefix"] \in Blank
  BY <1>2, <1>4, FlagAssumption DEF Both, Given, TrimSpace
<1>6. request'.args["include_values"] = TRUE => ~countOnly
  BY <1>2, <1>4 DEF Detail
<1>7. ~countOnly => request'.args["include_settings"] = TRUE
  BY <1>4
<1>8. ToolContract!Consistent("project.settings_get", request'.args)
  BY <1>4, <1>5, <1>6, <1>7
     DEF ToolContract!Consistent, ToolContract!Set, ToolContract!Asked
<1> QED  BY <1>3, <1>8, AsksFits DEF ToolContract!Tools

\* Two commands that may leave arguments out.
LEMMA LogsAsks ==
    RunLogs => Asks("run.logs", {}, {"cursor", "max", "level", "contains",
                                     "follow_window_msec"})
<1> SUFFICES ASSUME RunLogs, request' # request
             PROVE  /\ request'.tool = "run.logs"
                    /\ Fit(request'.args, {}, {"cursor", "max", "level", "contains",
                                               "follow_window_msec"})
  BY DEF Asks
<1>1. PICK cursor, max, followMS \in Numbers, level, contains \in Texts, follow \in BOOLEAN :
        Submit(cursor >= 0 /\ max >= 0 /\ followMS >= 0, "run.logs",
               [cursor |-> cursor, max |-> max, level |-> TrimSpace(level),
                contains |-> TrimSpace(contains)]
                   ++ (IF follow THEN Arg("follow_window_msec", followMS) ELSE <<>>))
  BY DEF RunLogs
<1>2. PICK window : window = IF follow THEN Arg("follow_window_msec", followMS) ELSE <<>>
  OBVIOUS
<1>3. /\ cursor >= 0 /\ max >= 0 /\ followMS >= 0 /\ request'.tool = "run.logs"
      /\ request'.args = [cursor |-> cursor, max |-> max, level |-> TrimSpace(level),
                          contains |-> TrimSpace(contains)] ++ window
  BY <1>1, <1>2, SubmitSends
<1>4. window = <<>> \/ window = Arg("follow_window_msec", followMS)
  BY <1>2
<1> QED  BY <1>3, <1>4 DEF ++, Arg, Fit, ToolContract!Verbatim, ToolContract!Counts

LEMMA SignalListAsks ==
    SceneSignalList => Asks("scene.signal_list", {"scene_path"},
                            {"from_node", "signal", "to_target", "method", "max"})
<1> SUFFICES ASSUME SceneSignalList, request' # request
             PROVE  /\ request'.tool = "scene.signal_list"
                    /\ Fit(request'.args, {"scene_path"},
                           {"from_node", "signal", "to_target", "method", "max"})
  BY DEF Asks
<1>1. PICK scene, from, signal, to, method \in Texts, max \in Numbers :
         Submit(Given({scene}) /\ max >= 0, "scene.signal_list",
                [scene_path |-> scene, max |-> max]
                    ++ IfGiven("from_node", from) ++ IfGiven("signal", signal)
                    ++ IfGiven("to_target", to) ++ IfGiven("method", method))
  BY DEF SceneSignalList
<1>2. PICK byNode, bySignal, byTarget, byMethod :
         /\ byNode = IfGiven("from_node", from) /\ bySignal = IfGiven("signal", signal)
         /\ byTarget = IfGiven("to_target", to) /\ byMethod = IfGiven("method", method)
  OBVIOUS
<1>3. /\ Given({scene}) /\ max >= 0 /\ request'.tool = "scene.signal_list"
      /\ request'.args = [scene_path |-> scene, max |-> max]
                             ++ byNode ++ bySignal ++ byTarget ++ byMethod
  BY <1>1, <1>2, SubmitSends
<1>4. /\ DOMAIN byNode \subseteq {"from_node"} /\ DOMAIN bySignal \subseteq {"signal"}
      /\ DOMAIN byTarget \subseteq {"to_target"} /\ DOMAIN byMethod \subseteq {"method"}
  BY <1>2 DEF Arg, IfGiven
<1>5. /\ DOMAIN request'.args
             \subseteq {"scene_path", "max", "from_node", "signal", "to_target", "method"}
      /\ "scene_path" \in DOMAIN request'.args /\ request'.args["scene_path"] = scene
      /\ request'.args["max"] = max
  BY <1>3, <1>4 DEF ++
<1> QED  BY <1>3, <1>5 DEF Fit, ToolContract!Verbatim, ToolContract!Counts, Given

\* The other commands.
LEMMA SceneFits == ASSUME request = NoRequest, SceneCommands PROVE RequestFitsTool'
<1> USE DEF Sends, Asks, Picky, Fit, ToolContract!Tools, ToolContract!Verbatim,
            ToolContract!Counts, Submit, Fail, Exits, Given
<1>1. SceneAddNode =>
          Sends("scene.add_node", {"scene_path", "node_name", "node_type", "parent_path"},
                {})
  BY DEF SceneAddNode
<1>2. SceneCreate =>
          Sends("scene.create", {"scene_path", "root_type", "root_name"},
                {"overwrite", "open_in_editor"})
  BY DEF SceneCreate
<1>3. SceneDuplicate =>
          Sends("scene.duplicate_node", {"scene_path", "node_path", "parent_path"},
                {"name"})
  BY DEF SceneDuplicate, ++, Arg, IfGiven
<1>4. SceneGroupAdd =>
          Sends("scene.group_add", {"scene_path", "node_path", "group"}, {})
  BY DEF SceneGroupAdd
<1>5. SceneGroupRemove =>
          Sends("scene.group_remove", {"scene_path", "node_path", "group"}, {})
  BY DEF SceneGroupRemove
<1>6. SceneGroupList => Sends("scene.group_list", {"scene_path"}, {"node_path", "max"})
  BY DEF SceneGroupList, ++, Arg, IfGiven
<1>7. SceneInstanceScene =>
          Sends("scene.instance_scene", {"scene_path", "source_scene_path", "parent_path"},
                {"name"})
  BY DEF SceneInstanceScene, ++, Arg, IfGiven
<1>8. SceneNodeConfigure =>
          Sends("scene.node_configure", {"scene_path", "node_path", "config_json"}, {})
  BY DEF SceneNodeConfigure
<1>9. SceneRemoveNode => Sends("scene.remove_node", {"scene_path", "node_path"}, {})
  BY DEF SceneRemoveNode
<1>10. SceneRename =>
           Sends("scene.rename_node", {"scene_path", "node_path", "name"}, {})
  BY DEF SceneRename
<1>11. SceneSetProp =>
           Sends("scene.set_prop", {"scene_path", "node_path", "property", "value_json"},
                 {})
  BY DEF SceneSetProp
<1>12. SceneSignalConnect =>
           Sends("scene.signal_connect",
                 {"scene_path", "from_node", "signal", "to_target", "method"},
                 {"flags"})
  BY DEF SceneSignalConnect, ++, Arg, IfSet, NotNegative, Unset
<1>13. SceneSignalDisconnect =>
           Sends("scene.signal_disconnect",
                 {"scene_path", "from_node", "signal", "to_target", "method"},
                 {"flags"})
  BY DEF SceneSignalDisconnect, ++, Arg, IfSet, NotNegative, Unset
<1>14. SceneSignalList =>
           Sends("scene.signal_list", {"scene_path"},
                 {"from_node", "signal", "to_target", "method", "max"})
  BY SignalListAsks
<1>15. SceneTransformApply =>
           Sends("scene.transform_apply", {"scene_path", "node_path", "value_json"}, {})
  BY DEF SceneTransformApply
<1>16. SceneTree => Sends("scene.tree", {"scene_path"}, {})
  BY DEF SceneTree
<1> HIDE DEF Sends, Asks, Fit
<1> QED
  BY <1>1, <1>2, <1>3, <1>4, <1>5, <1>6, <1>7, <1>8, <1>9, <1>10, <1>11, <1>12,
     <1>13, <1>14, <1>15, <1>16, SendsFits, InspectFits, ReparentFits DEF SceneCommands

LEMMA ProjectFits == ASSUME request = NoRequest, ProjectCommands PROVE RequestFitsTool'
<1> USE DEF Sends, Asks, Picky, Fit, ToolContract!Tools, ToolContract!Verbatim,
            ToolContract!Counts, Submit, Fail, Exits, Given
<1>1. AutoloadList => Sends("project.autoload_list", {}, {"name", "max"})
  BY DEF AutoloadList
<1>2. AutoloadAdd =>
          Sends("project.autoload_add", {"name", "path"}, {"singleton", "index"})
  BY DEF AutoloadAdd, ++, Arg, IfSet, Unset
<1>3. AutoloadRemove => Sends("project.autoload_remove", {"name"}, {})
  BY DEF AutoloadRemove
<1>4. Graph =>
          Sends("project.graph", {},
                {"root_path", "path_prefix", "include_nodes", "include_edges",
                 "max_nodes", "max_edges"})
  BY DEF Graph
<1>5. ImportSet => Sends("project.import_set", {"path", "key", "value_json"}, {})
  BY DEF ImportSet
<1>6. ImportReimport => Sends("project.import_reimport", {"path"}, {})
  BY DEF ImportReimport
<1>7. InputMapActionCreate =>
          Sends("project.input_map_action_create", {"action"}, {"deadzone"})
  BY DEF InputMapActionCreate, Writable, Floats
<1>8. InputMapActionDelete => Sends("project.input_map_action_delete", {"action"}, {})
  BY DEF InputMapActionDelete
<1>9. InputMapDeadzoneSet =>
          Sends("project.input_map_deadzone_set", {"action", "value"}, {})
  BY DEF InputMapDeadzoneSet, Writable, Floats
<1>10. InputMapEventAdd =>
           Sends("project.input_map_event_add", {"action", "event_json"}, {})
  BY DEF InputMapEventAdd
<1>11. InputMapEventRemove =>
           Sends("project.input_map_event_remove", {"action", "event_json"}, {})
  BY DEF InputMapEventRemove
<1>12. SettingsSet => Sends("project.settings_set", {"key", "value_json"}, {})
  BY DEF SettingsSet
<1> HIDE DEF Sends, Asks, Fit
<1> QED
  BY <1>1, <1>2, <1>3, <1>4, <1>5, <1>6, <1>7, <1>8, <1>9, <1>10, <1>11, <1>12, SendsFits,
     ImportGetFits, InputMapGetFits, SettingsGetFits DEF ProjectCommands

LEMMA FileFits == ASSUME request = NoRequest, FileCommands PROVE RequestFitsTool'
<1> USE DEF Sends, Asks, Picky, Fit, ToolContract!Tools, ToolContract!Verbatim,
            ToolContract!Counts, Submit, Fail, Exits, Given
<1>1. ResourceCreate => Sends("resource.create", {"path", "type"}, {"overwrite"})
  BY DEF ResourceCreate
<1>2. ResourceGet => Sends("resource.get", {"path", "prop"}, {})
  BY DEF ResourceGet
<1>3. ResourceList =>
          Sends("resource.list", {"path"}, {"include_values", "max_properties"})
  BY DEF ResourceList
<1>4. ResourceRefs =>
          Sends("resource.refs", {"path"},
                {"from_prefix", "include_references", "max_refs"})
  BY DEF ResourceRefs
<1>5. ResourceSetProp => Sends("resource.set_prop", {"path", "prop", "value_json"}, {})
  BY DEF ResourceSetProp
<1>6. CfgSet =>
          Sends("file.cfg_set", {"path", "section", "key", "value_json"}, {"create"})
  BY DEF CfgSet
<1>7. CfgRemove => Sends("file.cfg_remove", {"path", "section"}, {"key"})
  BY DEF CfgRemove
<1>8. JsonGet => Sends("file.json_get", {"path"}, {"pointer"})
  BY DEF JsonGet
<1>9. JsonSet => Sends("file.json_set", {"path", "value_json"}, {"pointer", "create"})
  BY DEF JsonSet
<1>10. JsonRemove => Sends("file.json_remove", {"path", "pointer"}, {})
  BY DEF JsonRemove
<1>11. FileList => Sends("file.list", {"path"}, {"recursive"})
  BY DEF FileList
<1>12. FileRead => Sends("file.read", {"path"}, {})
  BY DEF FileRead
<1>13. ClassDescribe =>
           Sends("class.describe", {"name"},
                 {"include_properties", "include_methods", "include_signals",
                  "include_inheritors"})
  BY DEF ClassDescribe
<1>14. ScriptAttach =>
           Sends("script.attach", {"scene_path", "node_path", "script_path"},
                 {"overwrite"})
  BY DEF ScriptAttach
<1>15. ScriptCreate =>
           Sends("script.create", {"script_path", "base_class"},
                 {"class_name", "overwrite"})
  BY DEF ScriptCreate
<1>16. ScriptValidate => Sends("script.validate", {"script_path"}, {})
  BY DEF ScriptValidate
<1> HIDE DEF Sends, Asks, Fit
<1> QED
  BY <1>1, <1>2, <1>3, <1>4, <1>5, <1>6, <1>7, <1>8, <1>9, <1>10, <1>11, <1>12,
     <1>13, <1>14, <1>15, <1>16, SendsFits, CfgGetFits, ScriptEditFits DEF FileCommands

LEMMA RunFits == ASSUME request = NoRequest, RunCommands PROVE RequestFitsTool'
<1> USE DEF Sends, Asks, Picky, Fit, ToolContract!Tools, ToolContract!Verbatim,
            ToolContract!Counts, Submit, Fail, Exits, Given
<1>1. RunStart => Sends("run.start", {}, {"scene_path"})
  BY DEF RunStart, Arg, IfGiven
<1>2. RunStop => Sends("run.stop", {}, {})
  BY DEF RunStop
<1>3. RunStatus => Sends("run.status", {}, {})
  BY DEF RunStatus
<1>4. RunLogs =>
          Sends("run.logs", {},
                {"cursor", "max", "level", "contains", "follow_window_msec"})
  BY LogsAsks
<1>5. RunTree => Sends("run.tree", {}, {"max"})
  BY DEF RunTree
<1>6. RunPropGet => Sends("run.prop_get", {"node_path", "property"}, {})
  BY DEF RunPropGet
<1>7. RunPropList => Sends("run.prop_list", {"node_path"}, {"max"})
  BY DEF RunPropList
<1>8. RunInputEvent => Sends("run.input_event", {"event"}, {})
  BY DEF RunInputEvent
<1>9. RunInputPress => Sends("run.input_action_press", {"action"}, {"strength"})
  BY DEF RunInputPress, Floats
<1>10. RunInputRelease => Sends("run.input_action_release", {"action"}, {})
  BY DEF RunInputRelease
<1>11. ToolsDescribe => Sends("tools.describe", {}, {"tool"})
  BY DEF ToolsDescribe
<1>12. ToolsPing => Sends("ping", {}, {})
  BY DEF ToolsPing
<1> HIDE DEF Sends, Asks, Fit
<1> QED
  BY <1>1, <1>2, <1>3, <1>4, <1>5, <1>6, <1>7, <1>8, <1>9, <1>10, <1>11, <1>12, SendsFits,
     StepFits DEF RunCommands

LEMMA CallingFits == ASSUME request = NoRequest, Calling PROVE RequestFitsTool'
BY SceneFits, ProjectFits, FileFits, RunFits DEF Calling

-----------------------------------------------------------------------------
(* The call.  A step of the daemon or the plugin leaves the command alone; *)
(* a step of the command leaves the call alone.                            *)

LEMMA CallFields ==
    ASSUME WireTypes
    PROVE  /\ call[Us] \in Daemon!States /\ ran[Us] \in 0..1
           /\ DOMAIN call = {Us} /\ DOMAIN ran = {Us}
BY DEF WireTypes

\* No code that says nothing of the call is put down to the arguments.
LEMMA NotValidation ==
    ASSUME NEW code, code # "validation", NEW toolCode, toolCode # "INVALID_ARGS"
    PROVE  Classify(code, toolCode) # "validation_error"
BY DEF Classify

\* What the four ways to move a call do to it.
LEMMA CallMoves ==
    ASSUME WireTypes, NEW from, NEW as \in Daemon!States, Daemon!Answered(Us, from, as)
    PROVE  /\ call[Us] \in from /\ call'[Us] = as /\ ran' = ran
           /\ call' \in [{Us} -> Daemon!States]
BY DEF WireTypes, Daemon!Answered

LEMMA WireKeeps == ASSUME CallInv, Wire PROVE CallInv'
<1> USE DEF CallInv
<1>1. request' = request /\ UNCHANGED outVars
  BY DEF Wire, Opens, Refuses, ToolRuns, Delivers, GivesUp, Dies, Answers
<1>2. ExitTypes'
  BY <1>1 DEF ExitTypes, outVars
<1>3. "open" \in Daemon!States /\ "refused" \in Daemon!States
      /\ "delivered" \in Daemon!States /\ "unknown" \in Daemon!States
  BY DEF Daemon!States
<1>4. SUFFICES WireTypes' /\ WireInv' /\ ExitInv'
  BY <1>2
<1>5. CASE Opens
  <2>1. request # NoRequest /\ call[Us] = "new" /\ call'[Us] = "open" /\ ran' = ran
        /\ response' = response /\ toolSaid' = toolSaid
        /\ call' \in [{Us} -> Daemon!States]
    BY <1>3, <1>5, CallMoves DEF Opens, Daemon!Open
  <2>2. WireTypes' /\ WireInv'
    BY <2>1 DEF WireTypes, WireInv
  <2> QED  BY <1>1, <2>1, <2>2 DEF ExitInv, Delivered, Refused, outVars
<1>6. CASE Refuses
  <2>1. call[Us] = "open" /\ call'[Us] = "refused" /\ ran' = ran /\ ran[Us] = 0
        /\ toolSaid' = toolSaid /\ call' \in [{Us} -> Daemon!States]
    BY <1>3, <1>6, CallMoves DEF Refuses, Answers, Daemon!Refuse
  <2>2. PICK code : response' = <<Refusal(code, "")>>
    BY <1>6 DEF Refuses, Answers
  <2>3. response'[1].ok = FALSE
    BY <2>2 DEF Refusal
  <2>4. WireTypes' /\ WireInv'
    BY <2>1, <2>3 DEF WireTypes, WireInv, Refused
  <2> QED  BY <1>1, <2>1, <2>4 DEF ExitInv, Delivered, Refused, outVars
<1>7. CASE ToolRuns
  <2>1. call[Us] \in {"open", "unknown"} /\ call' = call /\ ran[Us] = 0 /\ ran'[Us] = 1
        /\ ran' \in [{Us} -> 0..1] /\ response' = response
    <3>1. Daemon!Run(Us) /\ response' = response
      BY <1>7 DEF ToolRuns
    <3>2. call[Us] \in {"open", "unknown"} /\ ran[Us] = 0 /\ call' = call
          /\ ran' = [ran EXCEPT ![Us] = 1]
      BY <3>1 DEF Daemon!Run
    <3>3. ran'[Us] = 1 /\ ran' \in [{Us} -> 0..1]
      <4>1. ran \in [{Us} -> 0..1]
        BY DEF WireTypes
      <4>2. 1 \in 0..1
        OBVIOUS
      <4> QED  BY <3>2, <4>1, <4>2
    <3> QED  BY <3>1, <3>2, <3>3
  <2>2. toolSaid' \in {"done", "INVALID_ARGS", "FAILED"}
    BY <1>7 DEF ToolRuns
  <2>3. WireTypes' /\ WireInv'
    BY <2>1, <2>2 DEF WireTypes, WireInv, Refused, Delivered
  <2> QED  BY <1>1, <2>1, <2>3 DEF ExitInv, Delivered, Refused, outVars
<1>8. CASE Delivers
  <2>1. call[Us] = "open" /\ call'[Us] = "delivered" /\ ran' = ran /\ ran[Us] = 1
        /\ toolSaid' = toolSaid /\ call' \in [{Us} -> Daemon!States]
    BY <1>3, <1>8, CallMoves DEF Delivers, Answers, Daemon!Deliver
  <2>2. response' = <<IF toolSaid = "done" THEN Ok ELSE Refusal("operation_failed", toolSaid)>>
    BY <1>8 DEF Delivers, Answers
  <2>3. CASE toolSaid = "done"
    <3>1. response'[1].ok = TRUE
      BY <2>2, <2>3 DEF Ok
    <3> QED  BY <1>1, <2>1, <2>3, <3>1 DEF WireTypes, WireInv, ExitInv, Delivered, Refused, outVars
  <2>4. CASE toolSaid # "done"
    <3>1. response'[1] = Refusal("operation_failed", toolSaid)
      BY <2>2, <2>4
    <3>2. response'[1].ok = FALSE /\ response'[1].code = "operation_failed"
          /\ response'[1].toolCode = toolSaid
      BY <3>1 DEF Refusal
    <3>3. Classify(response'[1].code, response'[1].toolCode) = "validation_error"
             => toolSaid = "INVALID_ARGS"
      BY <3>2, NotValidation
    <3>4. WireTypes' /\ WireInv'
      BY <2>1, <3>2, <3>3 DEF WireTypes, WireInv, Delivered
    <3> QED  BY <1>1, <2>1, <3>4 DEF ExitInv, Delivered, Refused, outVars
  <2> QED  BY <2>3, <2>4
<1>9. CASE GivesUp
  <2>1. call[Us] = "open" /\ call'[Us] = "unknown" /\ ran' = ran
        /\ call' \in [{Us} -> Daemon!States]
    <3>1. Daemon!Answered(Us, {"open"}, "unknown")
      BY <1>9 DEF GivesUp, Daemon!GiveUp
    <3> QED  BY <1>3, <3>1, CallMoves
  <2>2. PICK code \in {"timeout", "cancelled", "plugin_disconnected", "operation_failed"} :
           response' = <<Refusal(code, "")>> /\ toolSaid' = toolSaid
    BY <1>9 DEF GivesUp, Answers
  <2>3. response'[1].ok = FALSE /\ response'[1].code = code /\ response'[1].toolCode = ""
    BY <2>2 DEF Refusal
  <2>4. Classify(response'[1].code, response'[1].toolCode) # "validation_error"
    BY <2>3, NotValidation
  <2>5. WireTypes' /\ WireInv'
    BY <2>1, <2>2, <2>3, <2>4 DEF WireTypes, WireInv
  <2> QED  BY <1>1, <2>1, <2>2, <2>5 DEF ExitInv, Delivered, Refused, outVars
<1>10. CASE Dies
  <2>1. call[Us] = "open" /\ call'[Us] = "unknown" /\ ran' = ran
        /\ toolSaid' = toolSaid /\ response' = response
        /\ call' \in [{Us} -> Daemon!States]
    BY <1>3, <1>10 DEF Dies, Daemon!Abort
  <2>2. WireTypes' /\ WireInv'
    BY <2>1 DEF WireTypes, WireInv
  <2> QED  BY <1>1, <2>1, <2>2 DEF ExitInv, Delivered, Refused, outVars
<1> QED  BY <1>5, <1>6, <1>7, <1>8, <1>9, <1>10 DEF Wire

\* A command ends, or waits, and what is known of its call stands.
LEMMA CallStands ==
    ASSUME CallInv, UNCHANGED daemonVars, ExitTypes', ExitInv'
    PROVE  CallInv'
BY DEF CallInv, WireTypes, WireInv, daemonVars, Refused, Delivered

\* Exit statuses that say nothing of the call.
LEMMA PlainEnd ==
    ASSUME CallInv, UNCHANGED daemonVars, ExitTypes', phase' = "exited", request' = request,
           exit' = 0 => request = NoRequest, exit' = 1 => request = NoRequest
    PROVE  CallInv'
<1>1. ExitInv'
  BY DEF CallInv, ExitInv, daemonVars
<1> QED  BY <1>1, CallStands

LEMMA SubmittedKeeps == ASSUME CallInv, Submitted PROVE CallInv'
<1>1. phase = "ready" /\ request = NoRequest /\ UNCHANGED daemonVars
  BY DEF Submitted, CallInv, ExitInv
<1>2. CASE Fail("validation_error")
  <2>1. ExitTypes' /\ phase' = "exited" /\ request' = request
    BY <1>2, FailEnds DEF CallInv, Kinds
  <2> QED  BY <1>1, <2>1, PlainEnd
<1>3. CASE phase' = "sent" /\ request' # NoRequest /\ UNCHANGED <<printed, exit>>
  <2>1. ExitTypes'
    BY <1>1, <1>3 DEF CallInv, ExitTypes, Phases
  <2>2. exit' = -1
    BY <1>1, <1>3 DEF CallInv, ExitTypes
  <2>3. ExitInv'
    BY <1>3, <2>2 DEF ExitInv
  <2> QED  BY <1>1, <2>1, <2>3, CallStands
<1> QED  BY <1>2, <1>3 DEF Submitted

LEMMA ClientKeeps == ASSUME CallInv, Client PROVE CallInv'
<1>1. phase = "sent" /\ UNCHANGED daemonVars /\ request # NoRequest
  BY DEF Client, DoFails, DecodeFails, Receive, CallInv, ExitInv
<1>2. CASE DoFails
  <2>1. ExitTypes' /\ exit' = 2 /\ phase' = "exited" /\ request' = request
    BY <1>2, FailEnds DEF DoFails, CallInv, Kinds, ExitCode
  <2> QED  BY <1>1, <2>1, PlainEnd
<1>3. CASE DecodeFails
  <2>1. ExitTypes' /\ exit' = 4 /\ phase' = "exited" /\ request' = request
    BY <1>3, FailEnds DEF DecodeFails, CallInv, Kinds, ExitCode
  <2> QED  BY <1>1, <2>1, PlainEnd
<1>4. CASE Receive
  <2>1. response # <<>>
    BY <1>4 DEF Receive
  <2>2. CASE response[1].ok
    <3>1. Success
      BY <1>4, <2>2 DEF Receive
    <3>2. ExitTypes' /\ exit' \in {0, 4} /\ phase' = "exited" /\ request' = request
      BY <3>1, SuccessEnds DEF CallInv
    <3>3. Delivered("done")
      BY <2>1, <2>2 DEF CallInv, WireInv
    <3>4. ExitInv'
      BY <1>1, <3>2, <3>3 DEF ExitInv, Delivered, daemonVars
    <3> QED  BY <1>1, <3>2, <3>4, CallStands
  <2>3. CASE ~response[1].ok
    <3> DEFINE kind == Classify(response[1].code, response[1].toolCode)
    <3>1. Fail(kind)
      BY <1>4, <2>3 DEF Receive
    <3>2. kind \in {"validation_error", "plugin_disconnected", "operation_failed"}
      BY DEF Classify
    <3>3. kind \in Kinds
      BY <3>2 DEF Kinds
    <3>4. ExitTypes' /\ exit' = ExitCode(kind) /\ phase' = "exited" /\ request' = request
      BY <3>1, <3>3, FailEnds DEF CallInv
    <3>5. kind = "validation_error" => Refused \/ Delivered("INVALID_ARGS")
      BY <2>1, <2>3 DEF CallInv, WireInv
    <3> HIDE DEF kind
    <3>6. exit' # 0 /\ (exit' = 1 => kind = "validation_error")
      BY <3>2, <3>4 DEF ExitCode
    <3>7. ExitInv'
      BY <1>1, <3>4, <3>5, <3>6 DEF ExitInv, Refused, Delivered, daemonVars
    <3> QED  BY <1>1, <3>4, <3>7, CallStands
  <2> QED  BY <2>2, <2>3
<1> QED  BY <1>2, <1>3, <1>4 DEF Client

LEMMA OthersKeep == ASSUME CallInv, Others PROVE CallInv'
<1>1. /\ phase \in {"ready", "asked", "serving"} /\ UNCHANGED daemonVars
      /\ request = NoRequest /\ request' = request
  BY DEF Others, UsageError, Ask, AskEnds, Version, Announce, ServingEnds, Success, Fail,
         Exits, CallInv, ExitInv
<1>2. ASSUME phase' \in {"asked", "serving"}, exit' = exit, printed' \in Seq(0..4)
      PROVE  CallInv'
  <2>1. exit = -1
    BY <1>1 DEF CallInv, ExitTypes
  <2>2. ExitTypes' /\ ExitInv'
    BY <1>1, <1>2, <2>1 DEF CallInv, ExitTypes, ExitInv, Phases, daemonVars
  <2> QED  BY <1>1, <2>2, CallStands
<1>3. ASSUME NEW kind \in Kinds, NEW lines \in Seq(0..4), Exits(kind, lines)
      PROVE  CallInv'
  BY <1>1, <1>3, Ends, PlainEnd DEF CallInv
<1>4. ASSUME NEW kind \in Kinds, Fail(kind) PROVE CallInv'
  BY <1>1, <1>4, FailEnds, PlainEnd DEF CallInv
<1>5. ASSUME Success PROVE CallInv'
  BY <1>1, <1>5, SuccessEnds, PlainEnd DEF CallInv
<1>6. <<>> \in Seq(0..4) /\ <<0>> \in Seq(0..4) /\ printed \in Seq(0..4)
  BY DEF CallInv, ExitTypes
<1>7. /\ "ok" \in Kinds /\ "usage" \in Kinds /\ "other" \in Kinds
      /\ "daemon_unavailable" \in Kinds /\ "operation_failed" \in Kinds
  BY DEF Kinds
<1>8. CASE UsageError
  BY <1>3, <1>6, <1>7, <1>8 DEF UsageError
<1>9. CASE Ask
  BY <1>2, <1>6, <1>9 DEF Ask
<1>10. CASE AskEnds
  BY <1>4, <1>5, <1>7, <1>10 DEF AskEnds
<1>11. CASE Version
  BY <1>5, <1>11 DEF Version
<1>12. CASE Announce
  BY <1>2, <1>3, <1>6, <1>7, <1>12 DEF Announce
<1>13. CASE ServingEnds
  BY <1>3, <1>4, <1>6, <1>7, <1>13 DEF ServingEnds
<1> QED  BY <1>8, <1>9, <1>10, <1>11, <1>12,
     <1>13 DEF Others

-----------------------------------------------------------------------------
(* The addon.                                                              *)

LEMMA DirTyped ==
    ASSUME NEW D \in SUBSET (Files \cup Stale), NEW has \in [D -> States]
    PROVE  Dir(has) \in Targets
<1>1. has \in UNION {[E -> States] : E \in SUBSET (Files \cup Stale)}
  OBVIOUS
<1> QED  BY <1>1 DEF Targets

LEMMA TargetForm ==
    ASSUME NEW t \in Targets
    PROVE  /\ t.kind \in {"absent", "file", "dir"}
           /\ t.kind = "dir" =>
                 /\ t = Dir(t.has) /\ DOMAIN t.has \subseteq Files \cup Stale
                 /\ t.has \in [DOMAIN t.has -> States]
           /\ t.kind = "absent" => t = Absent /\ DOMAIN t.has = {}
<1>1. CASE t = Absent
  BY <1>1 DEF Absent
<1>2. CASE t = [kind |-> "file", has |-> <<>>]
  BY <1>2
<1>3. ASSUME NEW D \in SUBSET (Files \cup Stale), NEW has \in [D -> States], t = Dir(has)
      PROVE  /\ t.kind = "dir" /\ t.has = has
             /\ t = Dir(t.has) /\ DOMAIN t.has \subseteq Files \cup Stale
             /\ t.has \in [DOMAIN t.has -> States]
  BY <1>3 DEF Dir
<1>4. t = Absent \/ t = [kind |-> "file", has |-> <<>>]
      \/ \E D \in SUBSET (Files \cup Stale) : \E has \in [D -> States] : t = Dir(has)
  BY DEF Targets
<1> QED  BY <1>1, <1>2, <1>3, <1>4

\* Steps that leave the addon and the archive alone.
LEMMA AddonStands ==
    ASSUME IInv, UNCHANGED addonVars,
           \/ phase' = phase /\ exit' = exit
           \/ /\ phase \in {"ready", "sent", "asked", "serving"}
              /\ phase' \in {"sent", "asked", "serving", "exited"}
    PROVE  AddonTypeOK' /\ ExtractInv'
<1>1. AddonTypeOK'
  BY DEF IInv, AddonTypeOK, addonVars, packVars, targetVars, Targets, Dir, States, Absent
<1>2. ExtractInv'
  <2>1. /\ archive' = archive /\ bundle' = bundle /\ target' = target /\ found' = found
        /\ todo' = todo /\ count' = count
    BY DEF addonVars, packVars, targetVars
  <2>2. exit # 1 \/ phase = "exited"
    BY DEF IInv, CallInv, ExitTypes
  <2> QED  BY <2>1, <2>2 DEF IInv, ExtractInv, Installing, InstalledWhole, Whole, Dir
<1> QED  BY <1>1, <1>2

LEMMA PackageKeeps == ASSUME IInv, Package PROVE IInv'
<1>1. phase = "unbuilt" /\ UNCHANGED <<request, daemonVars, printed, exit, targetVars>>
      /\ phase' \in {"unbuilt", "ready"}
  BY DEF Package, CreateTemp, AddEntry, Rename, PackageFails, PackageKilled, Build, Packs,
         cliVars, outVars
<1>2. CallInv'
  <2>1. ExitTypes' /\ ExitInv'
    BY <1>1 DEF IInv, CallInv, ExitTypes, ExitInv, Phases, daemonVars, Refused, Delivered
  <2> QED  BY <1>1, <2>1, CallStands DEF IInv
<1>3. target' = target /\ found' = found /\ todo' = todo /\ count' = count
  BY <1>1 DEF targetVars
<1>4. /\ temp' \in {<<>>} \cup {<<fs>> : fs \in SUBSET Files} /\ (writing' => temp' # <<>>)
      /\ archive' \in {<<>>, <<Files>>}
      /\ \/ bundle' = bundle /\ phase' = "unbuilt"
         \/ bundle' = <<Files>> /\ phase' = "ready"
  <2> USE DEF IInv, AddonTypeOK, ExtractInv
  <2>1. CASE CreateTemp
    BY <1>1, <2>1 DEF CreateTemp, Packs, cliVars, outVars
  <2>2. CASE AddEntry
    <3>1. PICK f \in Files \ temp[1] : temp' = <<temp[1] \cup {f}>>
      BY <2>2 DEF AddEntry
    <3>2. writing /\ UNCHANGED <<archive, writing, bundle, phase>>
      BY <2>2 DEF AddEntry, Packs, cliVars, outVars
    <3>3. PICK fs \in SUBSET Files : temp = <<fs>>
      BY <3>2
    <3>4. temp' = <<fs \cup {f}>> /\ fs \cup {f} \in SUBSET Files
      BY <3>1, <3>3
    <3> QED  BY <1>1, <3>2, <3>4
  <2>3. CASE Rename
    <3>1. writing /\ temp[1] = Files /\ archive' = temp /\ temp' = <<>> /\ ~writing'
          /\ bundle' = bundle /\ phase' = phase
      BY <2>3 DEF Rename, Packs, cliVars, outVars
    <3>2. PICK fs \in SUBSET Files : temp = <<fs>>
      BY <3>1
    <3>3. archive' = <<Files>>
      BY <3>1, <3>2
    <3> QED  BY <1>1, <3>1, <3>3
  <2>4. CASE PackageFails
    BY <1>1, <2>4 DEF PackageFails, Packs, cliVars, outVars
  <2>5. CASE PackageKilled
    BY <1>1, <2>5 DEF PackageKilled, Packs, cliVars, outVars
  <2>6. CASE Build
    BY <2>6 DEF Build
  <2> QED  BY <2>1, <2>2, <2>3, <2>4, <2>5, <2>6 DEF Package
<1>5. AddonTypeOK'
  <2>1. <<Files>> \in {<<fs>> : fs \in SUBSET Files}
    OBVIOUS
  <2> QED  BY <1>3, <1>4, <2>1 DEF IInv, AddonTypeOK, Targets, Dir, States, Absent
<1>6. ExtractInv'
  BY <1>1, <1>3, <1>4 DEF IInv, ExtractInv, Installing, InstalledWhole, Whole, Dir
<1> QED  BY <1>2, <1>5, <1>6 DEF IInv

\* install-bridge and the call that it does not make.
LEMMA InstallCall ==
    ASSUME CallInv, NEW to \in {"removing", "extracting", "copying"},
           phase \in {"ready", "removing", "extracting", "copying"},
           phase' = to, UNCHANGED <<request, printed, exit, daemonVars>>
    PROVE  CallInv'
<1>1. exit = -1 /\ request = NoRequest
  BY DEF CallInv, ExitTypes, ExitInv
<1>2. ExitTypes' /\ ExitInv'
  BY <1>1 DEF CallInv, ExitTypes, ExitInv, Phases, daemonVars
<1> QED  BY <1>2, CallStands

LEMMA InstallEnds ==
    ASSUME CallInv, phase \in {"ready", "removing", "extracting", "copying"},
           UNCHANGED daemonVars,
           NEW kind \in Kinds, Fail(kind)
    PROVE  CallInv' /\ phase' = "exited" /\ exit' = ExitCode(kind)
<1>1. request = NoRequest
  BY DEF CallInv, ExitInv
<1> QED  BY <1>1, FailEnds, PlainEnd DEF CallInv

LEMMA InstallBridgeKeeps == ASSUME IInv, InstallBridge PROVE IInv'
<1>1. /\ phase = "ready" /\ target' \in Targets /\ found' = target' /\ todo' = bundle[1]
      /\ UNCHANGED <<packVars, bundle, count, daemonVars>>
  BY DEF InstallBridge
<1>2. bundle = <<Files>> /\ todo' = Files /\ count = -1
  BY <1>1 DEF IInv, ExtractInv
<1>3. AddonTypeOK'
  BY <1>1, <1>2 DEF IInv, AddonTypeOK, packVars, Targets, Dir, States, Absent
<1>4. "validation_error" \in Kinds /\ "operation_failed" \in Kinds
  BY DEF Kinds
<1>5. ASSUME NEW kind \in Kinds, Fail(kind) PROVE CallInv' /\ ExtractInv'
  <2>1. CallInv' /\ phase' = "exited"
    BY <1>1, <1>5, InstallEnds DEF IInv
  <2> QED  BY <1>1, <1>2, <2>1 DEF IInv, ExtractInv, packVars, Installing
<1>6. ASSUME Installs("ready", "removing"), target'.kind = "dir"
      PROVE  CallInv' /\ ExtractInv'
  <2>1. CallInv' /\ phase' = "removing" /\ exit' = -1
    BY <1>1, <1>6, InstallCall DEF Installs, IInv, CallInv, ExitTypes
  <2> QED  BY <1>1, <1>2, <1>6, <2>1 DEF IInv, ExtractInv, packVars, Installing
<1>7. ASSUME Installs("ready", "extracting"), target'.kind = "absent"
      PROVE  CallInv' /\ ExtractInv'
  <2>1. CallInv' /\ phase' = "extracting" /\ exit' = -1
    BY <1>1, <1>7, InstallCall DEF Installs, IInv, CallInv, ExitTypes
  <2>2. target' = Absent /\ DOMAIN target'.has = {}
    BY <1>1, <1>7, TargetForm
  <2> QED  BY <1>1, <1>2, <1>7, <2>1, <2>2 DEF IInv, ExtractInv, packVars, Installing
<1>8. CallInv' /\ ExtractInv'
  BY <1>4, <1>5, <1>6, <1>7 DEF InstallBridge
<1> QED  BY <1>3, <1>8 DEF IInv

LEMMA RemoveKeeps == ASSUME IInv, RemoveFile \/ RemoveDir PROVE IInv'
<1>1. /\ phase = "removing" /\ phase' \in {"removing", "extracting"}
      /\ UNCHANGED <<request, printed, exit, packVars, bundle, found, todo, count, daemonVars>>
  BY DEF RemoveFile, RemoveDir, Installs
<1>2. CallInv' /\ exit = -1
  BY <1>1, InstallCall DEF IInv, CallInv, ExitTypes
<1>3. target.kind = "dir" /\ todo = Files /\ bundle = <<Files>> /\ count = -1
  BY <1>1 DEF IInv, ExtractInv
<1>4. CASE RemoveFile
  <2>1. PICK f \in DOMAIN target.has : target' = Dir(Without(target.has, f))
    BY <1>4 DEF RemoveFile
  <2>2. DOMAIN target.has \subseteq Files \cup Stale
        /\ target.has \in [DOMAIN target.has -> States]
    BY <1>3, TargetForm DEF IInv, AddonTypeOK
  <2>3. Without(target.has, f) \in [DOMAIN target.has \ {f} -> States]
    BY <2>2 DEF Without
  <2>4. target' \in Targets /\ target'.kind = "dir"
    BY <2>1, <2>2, <2>3, DirTyped DEF Dir
  <2>5. phase' = "removing"
    BY <1>4 DEF RemoveFile, Installs
  <2>6. AddonTypeOK'
    BY <1>1, <2>4 DEF IInv, AddonTypeOK, packVars, Targets, Dir, States, Absent
  <2>7. ExtractInv'
    BY <1>1, <1>2, <1>3, <2>4, <2>5 DEF IInv, ExtractInv, packVars, Installing
  <2> QED  BY <1>2, <2>6, <2>7 DEF IInv
<1>5. CASE RemoveDir
  <2>1. target' = Absent /\ phase' = "extracting"
    BY <1>5 DEF RemoveDir, Installs
  <2>2. Absent \in Targets /\ Absent.kind = "absent" /\ DOMAIN Absent.has = {}
    BY DEF Targets, Absent
  <2>3. AddonTypeOK'
    BY <1>1, <2>1, <2>2 DEF IInv, AddonTypeOK, packVars, Targets, Dir, States, Absent
  <2>4. ExtractInv'
    BY <1>1, <1>2, <1>3, <2>1, <2>2 DEF IInv, ExtractInv, packVars, Installing
  <2> QED  BY <1>2, <2>3, <2>4 DEF IInv
<1> QED  BY <1>4, <1>5

LEMMA WithFile ==
    ASSUME NEW D, NEW has \in [D -> States], NEW f, NEW as \in States
    PROVE  /\ With(has, f, as) \in [D \cup {f} -> States]
           /\ \A g \in D \cup {f} : With(has, f, as)[g] = IF g = f THEN as ELSE has[g]
BY DEF With

\* A target without files has a function without arguments.
LEMMA NoFiles == ASSUME NEW S PROVE <<>> \in [{} -> S]
<1>1. <<>> \in Seq(S) /\ Len(<<>>) = 0
  OBVIOUS
<1>2. <<>> \in [1..0 -> S]
  BY <1>1, LenProperties
<1> QED  BY <1>2

LEMMA ExtractFileKeeps == ASSUME IInv, OpenFile \/ CopyFile PROVE IInv'
<1>1. /\ phase \in {"extracting", "copying"} /\ phase' \in {"extracting", "copying"}
      /\ UNCHANGED <<request, printed, exit, packVars, bundle, found, count, daemonVars>>
  BY DEF OpenFile, CopyFile, Installs
<1>2. CallInv' /\ exit = -1
  BY <1>1, InstallCall DEF IInv, CallInv, ExitTypes
<1>3. /\ bundle = <<Files>> /\ count = -1 /\ todo \subseteq Files
      /\ target.kind \in {"absent", "dir"} /\ DOMAIN target.has = Files \ todo
  BY <1>1 DEF IInv, ExtractInv, AddonTypeOK
<1>4. target.has \in [Files \ todo -> States]
  <2>1. target.kind = "dir" => target.has \in [DOMAIN target.has -> States]
    BY TargetForm DEF IInv, AddonTypeOK
  <2>2. target.kind = "absent" => target.has = <<>> /\ DOMAIN target.has = {}
    BY TargetForm DEF IInv, AddonTypeOK, Absent
  <2> QED  BY <1>3, <2>1, <2>2, NoFiles
<1>5. "part" \in States /\ "new" \in States
  BY DEF States
<1>6. CASE OpenFile
  <2>1. PICK f \in todo :
           target' = Dir(With(target.has, f, "part")) /\ todo' = todo \ {f}
    BY <1>6 DEF OpenFile
  <2>2. phase = "extracting" /\ phase' = "copying"
    BY <1>6 DEF OpenFile, Installs
  <2>3. f \in Files /\ (Files \ todo) \cup {f} = Files \ todo'
    BY <1>3, <2>1
  <2>4. /\ With(target.has, f, "part") \in [Files \ todo' -> States]
        /\ \A g \in Files \ todo' :
              With(target.has, f, "part")[g] = IF g = f THEN "part" ELSE target.has[g]
    <3>1. /\ With(target.has, f, "part") \in [(Files \ todo) \cup {f} -> States]
          /\ \A g \in (Files \ todo) \cup {f} :
                With(target.has, f, "part")[g] = IF g = f THEN "part" ELSE target.has[g]
      <4> DEFINE D == Files \ todo
      <4>1. target.has \in [D -> States]
        BY <1>4
      <4> HIDE DEF D
      <4>2. With(target.has, f, "part") \in [D \cup {f} -> States]
        BY <1>5, <4>1, WithFile
      <4>3. \A g \in D \cup {f} :
               With(target.has, f, "part")[g] = IF g = f THEN "part" ELSE target.has[g]
        BY <4>1 DEF With
      <4> QED  BY <4>2, <4>3 DEF D
    <3> QED  BY <2>3, <3>1
  <2>5. target'.kind = "dir" /\ target'.has = With(target.has, f, "part")
    BY <2>1 DEF Dir
  <2>6. DOMAIN target'.has = Files \ todo' /\ target' \in Targets
    BY <2>1, <2>4, <2>5, DirTyped
  <2>7. \A g \in DOMAIN target'.has : target'.has[g] \in {"new", "part"}
    BY <1>3, <2>2, <2>3, <2>4, <2>5, <2>6 DEF IInv, ExtractInv
  <2>8. AddonTypeOK'
    BY <1>1, <1>3, <2>1, <2>6 DEF IInv, AddonTypeOK, packVars, Targets, Dir, States, Absent
  <2>9. ExtractInv'
    BY <1>1, <1>2, <1>3, <2>2, <2>5, <2>6, <2>7 DEF IInv, ExtractInv, packVars, Installing
  <2> QED  BY <1>2, <2>8, <2>9 DEF IInv
<1>7. CASE CopyFile
  <2> DEFINE has == [f \in DOMAIN target.has |->
                        IF target.has[f] = "part" THEN "new" ELSE target.has[f]]
  <2>1. target' = Dir(has) /\ todo' = todo
    BY <1>7 DEF CopyFile
  <2>2. phase = "copying" /\ phase' = "extracting"
    BY <1>7 DEF CopyFile, Installs
  <2>3. \A f \in Files \ todo : target.has[f] \in {"new", "part"}
    BY <1>3, <2>2 DEF IInv, ExtractInv
  <2>4. has \in [Files \ todo -> States] /\ \A f \in Files \ todo : has[f] = "new"
    BY <1>3, <1>5, <2>3
  <2> HIDE DEF has
  <2>5. target'.kind = "dir" /\ target'.has = has
    BY <2>1 DEF Dir
  <2>6. target' \in Targets /\ DOMAIN target'.has = Files \ todo
    BY <2>1, <2>4, <2>5, DirTyped
  <2>7. AddonTypeOK'
    BY <1>1, <2>1, <2>6 DEF IInv, AddonTypeOK, packVars, Targets, Dir, States, Absent
  <2>8. ExtractInv'
    BY <1>1, <1>2, <1>3, <2>1, <2>2, <2>4, <2>5, <2>6
       DEF IInv, ExtractInv, packVars, Installing
  <2> QED  BY <1>2, <2>7, <2>8 DEF IInv
<1> QED  BY <1>6, <1>7

\* With nothing left to extract, the directory is the archive's.
LEMMA CountKeeps == ASSUME IInv, CountFiles PROVE IInv'
<1>1. /\ phase = "extracting" /\ todo = {} /\ target.kind = "dir"
      /\ count' = Cardinality(DOMAIN target.has) /\ Success
      /\ UNCHANGED <<packVars, bundle, target, found, todo, daemonVars>>
  BY DEF CountFiles
<1>2. ExitTypes' /\ exit' \in {0, 4} /\ phase' = "exited" /\ request' = request
  BY <1>1, SuccessEnds DEF IInv, CallInv
<1>3. request = NoRequest
  BY <1>1 DEF IInv, CallInv, ExitInv
<1>4. CallInv'
  BY <1>1, <1>2, <1>3, PlainEnd DEF IInv
<1>5. DOMAIN target.has = Files /\ \A f \in Files : target.has[f] = "new"
  BY <1>1 DEF IInv, ExtractInv
<1>6. target = Dir(target.has) /\ target.has \in [DOMAIN target.has -> States]
  BY <1>1, TargetForm DEF IInv, AddonTypeOK
<1>7. target.has = [f \in Files |-> "new"]
  BY <1>5, <1>6
<1>8. target = Whole
  BY <1>6, <1>7 DEF Whole
<1>9. Cardinality(Files) \in Nat
  BY AddonAssumption, FS_Subset, FS_CardinalityType
<1>10. AddonTypeOK'
  BY <1>1, <1>5, <1>9 DEF IInv, AddonTypeOK, packVars, Targets, Dir, States, Absent
<1>11. InstalledWhole'
  BY <1>1, <1>5, <1>8 DEF InstalledWhole, Whole, Dir
<1>12. ExtractInv'
  BY <1>1, <1>2, <1>11 DEF IInv, ExtractInv, packVars, Installing
<1> QED  BY <1>4, <1>10, <1>12 DEF IInv

LEMMA InstallFailsKeeps == ASSUME IInv, InstallFails PROVE IInv'
<1>1. Installing /\ Fail("operation_failed") /\ UNCHANGED <<daemonVars, addonVars>>
  BY DEF InstallFails, Installing
<1>2. CallInv' /\ phase' = "exited" /\ exit' = 4
  BY <1>1, InstallEnds DEF IInv, Kinds, ExitCode, Installing
<1>3. UNCHANGED <<archive, bundle, target, found, todo, count>>
  BY <1>1 DEF addonVars, packVars, targetVars
<1>4. AddonTypeOK'
  BY <1>1 DEF IInv, AddonTypeOK, addonVars, packVars, targetVars, Targets, Dir, States, Absent
<1>5. ExtractInv'
  BY <1>1, <1>2, <1>3 DEF IInv, ExtractInv, Installing
<1> QED  BY <1>2, <1>4, <1>5 DEF IInv

-----------------------------------------------------------------------------
(* The theorems.                                                           *)

LEMMA InitInv == Init => IInv
<1> SUFFICES ASSUME Init PROVE IInv
  OBVIOUS
<1>1. /\ request = NoRequest /\ response = <<>> /\ toolSaid = "" /\ printed = <<>>
      /\ exit = -1 /\ phase = "unbuilt"
  BY DEF Init, CliInit
<1>5. call = [c \in {Us} |-> "new"] /\ ran = [c \in {Us} |-> 0]
  BY DEF Init, CliInit, Daemon!Init
<1>2. CallInv
  <2>1. "new" \in Daemon!States
    BY DEF Daemon!States
  <2>2. 0 \in 0..1
    OBVIOUS
  <2>3. WireTypes /\ call[Us] = "new" /\ ran[Us] = 0
    BY <1>1, <1>5, <2>1, <2>2 DEF WireTypes
  <2>4. WireInv
    <3>1. call[Us] \notin {"refused", "delivered"} /\ ran[Us] # 1
      BY <2>3
    <3>2. response = <<>>
      BY <1>1
    <3> QED  BY <2>3, <3>1, <3>2, Zenon DEF WireInv
  <2>5. ExitInv
    BY <1>1, <2>3 DEF ExitInv
  <2>6. <<>> \in Seq(0..4)
    OBVIOUS
  <2>7. -1 \in -1..4
    OBVIOUS
  <2>8. ExitTypes
    BY <1>1, <2>6, <2>7 DEF ExitTypes, Phases
  <2> QED  BY <2>3, <2>4, <2>5, <2>8 DEF CallInv
<1>3. Absent \in Targets
  BY DEF Targets
<1>4. AddonTypeOK /\ ExtractInv
  BY <1>1, <1>3 DEF Init, AddonTypeOK, ExtractInv, Installing
<1> QED  BY <1>2, <1>4 DEF IInv

LEMMA StepInv == IInv /\ [Next]_vars => IInv'
<1> SUFFICES ASSUME IInv, [Next]_vars PROVE IInv'
  OBVIOUS
<1>1. CASE Package
  BY <1>1, PackageKeeps
<1>2. CASE InstallBridge
  BY <1>2, InstallBridgeKeeps
<1>3. CASE Extract
  BY <1>3, RemoveKeeps, ExtractFileKeeps, CountKeeps, InstallFailsKeeps DEF Extract
<1>4. CASE Calling /\ UNCHANGED addonVars
  <2>1. Submitted
    BY <1>4, CommandSubmits
  <2>2. phase = "ready" /\ phase' \in {"sent", "exited"}
    BY <2>1 DEF Submitted, Fail, Exits
  <2> QED  BY <1>4, <2>1, <2>2, SubmittedKeeps, AddonStands DEF IInv
<1>5. CASE Wire /\ UNCHANGED addonVars
  <2>1. UNCHANGED outVars
    BY <1>5 DEF Wire, Opens, Refuses, ToolRuns, Delivers, GivesUp, Dies, Answers
  <2> QED  BY <1>5, <2>1, WireKeeps, AddonStands DEF IInv, outVars
<1>6. CASE Client /\ UNCHANGED addonVars
  <2>1. phase = "sent" /\ phase' = "exited"
    BY <1>6 DEF Client, DoFails, DecodeFails, Receive, Fail, Success, Exits
  <2> QED  BY <1>6, <2>1, ClientKeeps, AddonStands DEF IInv
<1>7. CASE Others /\ UNCHANGED addonVars
  <2>1. phase \in {"ready", "asked", "serving"} /\ phase' \in {"asked", "serving", "exited"}
    BY <1>7 DEF Others, UsageError, Ask, AskEnds, Version, Announce, ServingEnds, Fail,
                Success, Exits
  <2> QED  BY <1>7, <2>1, OthersKeep, AddonStands DEF IInv
<1>8. CASE UNCHANGED vars
  <2>1. ExitTypes' /\ ExitInv' /\ UNCHANGED daemonVars
    BY <1>8 DEF vars, cliVars, outVars, daemonVars, IInv, CallInv, ExitTypes, ExitInv,
                Refused, Delivered, Phases
  <2>2. UNCHANGED addonVars /\ phase' = phase /\ exit' = exit
    BY <1>8 DEF vars, cliVars, outVars
  <2> QED  BY <2>1, <2>2, CallStands, AddonStands DEF IInv
<1> QED  BY <1>1, <1>2, <1>3, <1>4, <1>5, <1>6, <1>7, <1>8 DEF Next

\* The inductive invariant holds.
THEOREM CommandsInvariance == Spec => []IInv
BY InitInv, StepInv, PTL DEF Spec

\* Every variable keeps its type, for any files and flags.
THEOREM CommandTypes == Spec => []TypeOK
<1>1. IInv => TypeOK
  BY DEF IInv, CallInv, WireTypes, ExitTypes, TypeOK
<1> QED  BY <1>1, CommandsInvariance, PTL

\* Exit status 0 of a tool's command: the tool ran once and did it
\* (client/tool_call.go:47-60).
THEOREM ZeroIsDone == Spec => []ExitZeroDone
<1>1. IInv => ExitZeroDone
  BY DEF IInv, CallInv, WireInv, ExitInv, ExitZeroDone, Delivered
<1> QED  BY <1>1, CommandsInvariance, PTL

\* Exit status 1: no tool ran or will, or it refused; the addon is as it was
\* (client/tool_errors.go:10-54).
THEOREM OneIsUntouched == Spec => []ExitOneUntouched
<1>1. IInv => ExitOneUntouched
  BY DEF IInv, CallInv, WireInv, ExitInv, ExtractInv, ExitOneUntouched, Refused, Delivered
<1> QED  BY <1>1, CommandsInvariance, PTL

\* Whatever packageaddon left and the project held, an installation that ends
\* well is whole (packageaddon/main.go:97, addonbundle/install.go:22).
THEOREM InstallIsWhole == Spec => []InstalledWhole
<1>1. IInv => InstalledWhole
  BY DEF IInv, ExtractInv, InstalledWhole
<1> QED  BY <1>1, CommandsInvariance, PTL
\* Whatever flags are set, and to whatever, the request that a command sends is
\* one that its tool accepts: every argument that is needed and none unknown,
\* for each of the 64 tools (the RunE of each command, describe_tool.gd).
THEOREM RequestsFit == Spec => []RequestFitsTool
<1>1. Init => RequestFitsTool
  BY DEF Init, CliInit, RequestFitsTool
<1>2. IInv /\ RequestFitsTool /\ [Next]_vars => RequestFitsTool'
  <2> SUFFICES ASSUME IInv, RequestFitsTool, [Next]_vars PROVE RequestFitsTool'
    OBVIOUS
  <2>1. CASE Calling
    <3>1. request = NoRequest
      BY <2>1 DEF IInv, CallInv, ExitInv, Calling
    <3> QED  BY <2>1, <3>1, CallingFits
  <2>2. CASE UNCHANGED request
    BY <2>2 DEF RequestFitsTool
  <2>3. CASE Package \/ InstallBridge \/ Extract
    <3>1. UNCHANGED request
      BY <2>3 DEF Package, CreateTemp, AddEntry, Rename, PackageFails, PackageKilled, Build,
                  Packs, cliVars, InstallBridge, Installs, Extract, RemoveFile, RemoveDir,
                  OpenFile, CopyFile, CountFiles, InstallFails, Fail, Success, Exits
    <3> QED  BY <2>2, <3>1
  <2>4. CASE Wire \/ Client \/ Others
    <3>1. UNCHANGED request
      BY <2>4 DEF Wire, Opens, Refuses, ToolRuns, Delivers, GivesUp, Dies, Answers,
                  Client, DoFails, DecodeFails, Receive, Others, UsageError, Ask, AskEnds,
                  Version, Announce, ServingEnds, Fail, Success, Exits
    <3> QED  BY <2>2, <3>1
  <2>5. CASE UNCHANGED vars
    BY <2>2, <2>5 DEF vars, cliVars
  <2> QED  BY <2>1, <2>3, <2>4, <2>5 DEF Next
<1> QED  BY <1>1, <1>2, CommandsInvariance, PTL DEF Spec

=============================================================================
