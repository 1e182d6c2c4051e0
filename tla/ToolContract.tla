---------------------------- MODULE ToolContract ----------------------------
(***************************************************************************)
(* What the plugin's tools ask of a request: the arguments that must and   *)
(* may be there (misc/describe_tool.gd, one line below per tool), and what *)
(* their first lines refuse with INVALID_ARGS whatever the project holds.  *)
(* Left to the tools, which are alone in checking them: what a text must    *)
(* look like (a res:// path, JSON, a log level), the range of a strength,  *)
(* and the most frames of a step.                                          *)
(***************************************************************************)
EXTENDS Integers

CONSTANT Blank  \* the texts that strip_edges() leaves empty

Tool(name, needs, takes) == [name |-> name, needs |-> needs, takes |-> takes]

Tools == {
    Tool("class.describe", {"name"}, {"include_properties", "include_methods",
                                      "include_signals", "include_inheritors"}),
    Tool("file.list", {"path"}, {"recursive"}),
    Tool("file.read", {"path"}, {}),
    Tool("file.json_get", {"path"}, {"pointer"}),
    Tool("file.json_remove", {"path", "pointer"}, {}),
    Tool("file.json_set", {"path", "value_json"}, {"pointer", "create"}),
    Tool("file.cfg_get", {"path"}, {"section", "key"}),
    Tool("file.cfg_set", {"path", "section", "key", "value_json"}, {"create"}),
    Tool("file.cfg_remove", {"path", "section"}, {"key"}),
    Tool("ping", {}, {}),
    Tool("project.graph", {}, {"root_path", "path_prefix", "include_nodes", "include_edges",
                               "max_nodes", "max_edges"}),
    Tool("project.input_map_get", {}, {"action", "prefix", "include_actions",
                                       "include_events", "max_actions", "max_events"}),
    Tool("project.settings_get", {}, {"key", "prefix", "include_settings",
                                      "include_values", "max_settings"}),
    Tool("project.settings_set", {"key", "value_json"}, {}),
    Tool("project.input_map_action_create", {"action"}, {"deadzone"}),
    Tool("project.input_map_action_delete", {"action"}, {}),
    Tool("project.input_map_event_add", {"action", "event_json"}, {}),
    Tool("project.input_map_event_remove", {"action", "event_json"}, {}),
    Tool("project.input_map_deadzone_set", {"action", "value"}, {}),
    Tool("project.autoload_list", {}, {"name", "max"}),
    Tool("project.autoload_add", {"name", "path"}, {"singleton", "index"}),
    Tool("project.autoload_remove", {"name"}, {}),
    Tool("project.import_get", {"path"}, {"key", "prefix", "include_values", "max_properties"}),
    Tool("project.import_set", {"path", "key", "value_json"}, {}),
    Tool("project.import_reimport", {"path"}, {}),
    Tool("resource.create", {"path", "type"}, {"overwrite"}),
    Tool("resource.get", {"path", "prop"}, {}),
    Tool("resource.list", {"path"}, {"include_values", "max_properties"}),
    Tool("resource.set_prop", {"path", "prop", "value_json"}, {}),
    Tool("resource.refs", {"path"}, {"from_prefix", "include_references", "max_refs"}),
    Tool("run.input_action_press", {"action"}, {"strength"}),
    Tool("run.input_action_release", {"action"}, {}),
    Tool("run.input_event", {"event"}, {}),
    Tool("run.logs", {}, {"cursor", "max", "level", "contains", "follow_window_msec"}),
    Tool("run.prop_get", {"node_path", "property"}, {}),
    Tool("run.prop_list", {"node_path"}, {"max"}),
    Tool("run.start", {}, {"scene_path"}),
    Tool("run.status", {}, {}),
    Tool("run.step", {}, {"frames"}),
    Tool("run.stop", {}, {}),
    Tool("run.tree", {}, {"max"}),
    Tool("scene.add_node", {"scene_path", "node_name", "node_type", "parent_path"}, {}),
    Tool("scene.duplicate_node", {"scene_path", "node_path", "parent_path"}, {"name"}),
    Tool("scene.group_add", {"scene_path", "node_path", "group"}, {}),
    Tool("scene.group_list", {"scene_path"}, {"node_path", "max"}),
    Tool("scene.group_remove", {"scene_path", "node_path", "group"}, {}),
    Tool("scene.create", {"scene_path", "root_type", "root_name"},
                         {"overwrite", "open_in_editor"}),
    Tool("scene.inspect", {"scene_path"},
         {"node_path", "include_properties", "include_property_values",
          "include_connections", "include_signal_names", "max_properties"}),
    Tool("scene.instance_scene", {"scene_path", "source_scene_path", "parent_path"}, {"name"}),
    Tool("scene.node_configure", {"scene_path", "node_path", "config_json"}, {}),
    Tool("scene.rename_node", {"scene_path", "node_path", "name"}, {}),
    Tool("scene.reparent_node", {"scene_path", "node_path", "parent_path"}, {"index"}),
    Tool("scene.remove_node", {"scene_path", "node_path"}, {}),
    Tool("scene.signal_connect",
         {"scene_path", "from_node", "signal", "to_target", "method"}, {"flags"}),
    Tool("scene.signal_disconnect",
         {"scene_path", "from_node", "signal", "to_target", "method"}, {"flags"}),
    Tool("scene.signal_list", {"scene_path"},
         {"from_node", "signal", "to_target", "method", "max"}),
    Tool("scene.set_prop", {"scene_path", "node_path", "property", "value_json"}, {}),
    Tool("scene.transform_apply", {"scene_path", "node_path", "value_json"}, {}),
    Tool("scene.tree", {"scene_path"}, {}),
    Tool("script.attach", {"scene_path", "node_path", "script_path"}, {"overwrite"}),
    Tool("script.create", {"script_path", "base_class"}, {"class_name", "overwrite"}),
    Tool("script.edit", {"script_path", "find_text", "replace_text"}, {}),
    Tool("script.validate", {"script_path"}, {}),
    Tool("tools.describe", {}, {"tool"})}

\* Required, and yet a text of blanks will do.
Verbatim == {"find_text", "replace_text"}

\* Numbers that a tool refuses when they are negative.
Counts == {"max", "max_nodes", "max_edges", "max_actions", "max_events", "max_settings",
           "max_properties", "max_refs", "cursor", "follow_window_msec", "flags",
           "deadzone", "value"}

Set(args, a) == a \in DOMAIN args /\ args[a] \notin Blank
Asked(args, a) == a \in DOMAIN args /\ args[a] = TRUE

\* Arguments that exclude, or call for, one another.
Consistent(tool, args) ==
    /\ tool \in {"project.import_get", "project.settings_get"} =>
          ~(Set(args, "key") /\ Set(args, "prefix"))
    /\ tool = "project.settings_get" =>
          (Asked(args, "include_values") => Asked(args, "include_settings"))
    /\ tool = "project.input_map_get" =>
          /\ ~(Set(args, "action") /\ Set(args, "prefix"))
          /\ Asked(args, "include_events") => Asked(args, "include_actions")
    /\ tool = "scene.inspect" =>
          (Asked(args, "include_property_values") => Asked(args, "include_properties"))
    /\ tool = "file.cfg_get" => (Set(args, "key") => Set(args, "section"))
    /\ tool = "scene.reparent_node" => ("index" \in DOMAIN args => args["index"] >= 0)
    /\ tool = "script.edit" => args["find_text"] # ""
    /\ tool = "run.step" => ("frames" \in DOMAIN args => args["frames"] >= 1)

Accepts(tool, args) ==
    /\ \E t \in Tools :
          /\ t.name = tool
          /\ t.needs \subseteq DOMAIN args /\ DOMAIN args \subseteq t.needs \cup t.takes
          /\ \A a \in t.needs \ (Verbatim \cup Counts) : args[a] \notin Blank
    /\ \A a \in DOMAIN args \cap Counts : args[a] >= 0
    /\ Consistent(tool, args)
=============================================================================
