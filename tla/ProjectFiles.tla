---------------------------- MODULE ProjectFiles ----------------------------
(***************************************************************************)
(* The tools that change a file of the project: a JSON document, a config  *)
(* file or the import settings of an asset, a script, a resource, or a     *)
(* scene.  A call runs to its end on the editor's main thread: it reads    *)
(* the file, checks its arguments, changes what it read, saves it, has the *)
(* editor's file system take note, and answers; so a call is one action.   *)
(* The next call reads what this one left in the file.                     *)
(***************************************************************************)
EXTENDS Documents, SceneTree, Integers, FiniteSets

CONSTANTS
    Kinds,              \* the kinds of file that are there
    Missing,            \* no file
    Blank, Broken,      \* a file without text; one that cannot be parsed
    NoAnswer,
    Pointers, JsonValues, BadValue,  \* BadValue is not JSON, or no value
    Sections, ConfigValues,
    Texts,              \* of scripts
    RootNames, NodeNames, SourceName,
    Values, Flags,
    MaxNameLength, MaxSize      \* bounds on names' suffixes, and on scenes

ASSUME FileAssumption ==
    /\ Kinds \subseteq {"json", "cfg", "script", "resource", "scene"}
    /\ \A v \in JsonValues :
           /\ IsDocument(v)
           /\ \A p \in TypedPlaces(v) : Written(ValueAt(v, p)) \in Scalars \cup {NoText}
    /\ \A p \in Pointers \ {Unrooted} :
           /\ p \in Seq(Keys \cup {Empty})
           /\ Tokens(p) \in Seq(Keys) /\ (p = <<>> => Tokens(p) = <<>>)
    /\ BadValue \notin JsonValues \cup ConfigValues
    /\ DefaultValue \in Values
    /\ \A name \in RootNames \cup NodeNames \cup {SourceName} : IsName(name)

VARIABLES
    kind,    \* of the file
    file,    \* what is in it
    answer   \* of the last call: tool, code, whether it changed, and its subject

vars == <<kind, file, answer>>

Torn == {Blank, Broken}

Init == kind \in Kinds /\ file = Missing /\ answer = NoAnswer

-----------------------------------------------------------------------------
(* How calls end                                                           *)

Reply(tool, code, changed, subject) ==
    answer' = [tool |-> tool, code |-> code, changed |-> changed, subject |-> subject]

\* An answer that leaves the file alone: an error, or nothing to change.
Leave(tool, code, subject) ==
    Reply(tool, code, FALSE, subject) /\ UNCHANGED <<kind, file>>

\* Mutant: a refresh that fails after the save counts as an internal error.
SaveTextInternal(tool, next, subject) ==
    \/ Leave(tool, "IO_ERROR", subject)
    \/ /\ \/ Reply(tool, "OK", TRUE, subject)
          \/ Reply(tool, "INTERNAL", FALSE, subject)
       /\ file' \in {next} \cup Torn
       /\ UNCHANGED kind

\* Nobody looks whether the text was written whole: store_string's and
\* ConfigFile's failures count as success.
SaveText(tool, next, subject) ==
    \/ Leave(tool, "IO_ERROR", subject)
    \/ /\ \/ Reply(tool, "OK", TRUE, subject)
          \/ Reply(tool, "EDITOR_STATE", FALSE, subject)
       /\ file' \in {next} \cup Torn
       /\ UNCHANGED kind

FinishText(tool, r, subject) ==
    \/ ~r.changed /\ Leave(tool, r.code, subject)
    \/ r.changed /\ SaveText(tool, r.content, subject)

\* The engine reports a resource or a scene that it could not write, whole or
\* in part.
SaveResource(tool, next, subject) ==
    /\ \/ Reply(tool, "OK", TRUE, subject) /\ file' = next
       \/ Reply(tool, "EDITOR_STATE", FALSE, subject) /\ file' = next
       \/ Reply(tool, "IO_ERROR", FALSE, subject) /\ file' \in {file} \cup Torn
    /\ UNCHANGED kind

\* What any tool can find wrong before it changes anything: the file's
\* extension, a file that it cannot open, the names of classes, properties,
\* signals and methods, a class that the engine does not make.
BadArguments ==
    \E code \in {"INVALID_ARGS", "TYPE_MISMATCH", "NOT_FOUND", "IO_ERROR"}
                  \cup IF kind \in {"scene", "resource"} THEN {"INTERNAL"} ELSE {} :
        Leave("any", code, <<>>)

-----------------------------------------------------------------------------
(* JSON documents                                                          *)

LoadDocument(create) ==
    IF file = Missing
    THEN IF create THEN Same(EmptyObject) ELSE Refused("NOT_FOUND", file)
    ELSE IF file = Blank THEN Same(EmptyObject)
    ELSE IF file = Broken THEN Refused("IO_ERROR", file)
    ELSE Same(file)

JsonGet(pointer) ==
    LET loaded == LoadDocument(FALSE)
    IN  /\ kind = "json"
        /\ Leave("file.json_get",
                 IF loaded.code = "OK" THEN GetValue(loaded.content, pointer)
                 ELSE loaded.code,
                 <<>>)

JsonSet(pointer, value, create) ==
    LET loaded == LoadDocument(create)
        tool   == "file.json_set"
    IN  /\ kind = "json"
        /\ IF value = BadValue \/ ~Decodes(value) THEN Leave(tool, "INVALID_ARGS", <<>>)
           ELSE IF loaded.code # "OK" THEN Leave(tool, loaded.code, <<>>)
           ELSE \E r \in SetValue(loaded.content, pointer, Decoded(value)) :
                    FinishText(tool, r, <<pointer, value>>)

JsonRemove(pointer) ==
    LET loaded == LoadDocument(FALSE)
        tool   == "file.json_remove"
    IN  /\ kind = "json"
        /\ IF loaded.code # "OK" THEN Leave(tool, loaded.code, <<>>)
           ELSE FinishText(tool, RemoveValue(loaded.content, pointer), <<pointer>>)

-----------------------------------------------------------------------------
(* Config files                                                            *)

LoadConfig(create) ==
    IF file = Missing
    THEN IF create THEN Same(EmptyConfig) ELSE Refused("NOT_FOUND", file)
    ELSE IF file = Blank THEN Same(EmptyConfig)
    ELSE IF file = Broken THEN Refused("IO_ERROR", file)
    ELSE Same(file)

ConfigRead(section, key) ==
    LET loaded == LoadConfig(FALSE)
        tool   == "file.cfg_get"
    IN  /\ kind = "cfg"
        /\ IF section = Empty /\ key # Empty THEN Leave(tool, "INVALID_ARGS", <<>>)
           ELSE IF loaded.code # "OK" THEN Leave(tool, loaded.code, <<>>)
           ELSE IF key # Empty /\ <<section, key>> \notin DOMAIN loaded.content
           THEN Leave(tool, "NOT_FOUND", <<>>)
           ELSE Leave(tool, "OK", <<>>)

\* cfg_set, and import_set, which creates nothing.
ConfigSet(tool, section, key, value, create) ==
    LET loaded == LoadConfig(create)
    IN  /\ kind = "cfg"
        /\ IF Empty \in {section, key} \/ value = BadValue
           THEN Leave(tool, "INVALID_ARGS", <<>>)
           ELSE IF loaded.code # "OK" THEN Leave(tool, loaded.code, <<>>)
           ELSE \E r \in SetConfigValue(loaded.content, section, key, value) :
                    FinishText(tool, r, <<section, key, value>>)

ConfigRemove(section, key) ==
    LET loaded == LoadConfig(FALSE)
        tool   == "file.cfg_remove"
    IN  /\ kind = "cfg"
        /\ IF section = Empty THEN Leave(tool, "INVALID_ARGS", <<>>)
           ELSE IF loaded.code # "OK" THEN Leave(tool, loaded.code, <<>>)
           ELSE FinishText(tool, RemoveConfigValue(loaded.content, section, key),
                           <<section, key>>)

-----------------------------------------------------------------------------
(* Scripts and resources                                                   *)

ScriptCreate(text, overwrite) ==
    LET tool == "script.create"
    IN  /\ kind = "script"
        /\ IF file # Missing /\ ~overwrite THEN Leave(tool, "ALREADY_EXISTS", <<>>)
           ELSE SaveText(tool, text, <<>>)

\* Writes the text again when nothing in it matches.
ScriptEdit(text) ==
    LET tool == "script.edit"
    IN  /\ kind = "script"
        /\ IF file = Missing THEN Leave(tool, "NOT_FOUND", <<>>)
           ELSE SaveText(tool, text, <<>>) \/ SaveText(tool, file, <<>>)

\* A resource is the value of its property.
ResourceCreate(overwrite) ==
    LET tool == "resource.create"
    IN  /\ kind = "resource"
        /\ IF file # Missing /\ ~overwrite THEN Leave(tool, "ALREADY_EXISTS", <<>>)
           ELSE SaveResource(tool, DefaultValue, <<>>)

ResourceSet(value) ==
    LET tool == "resource.set_prop"
    IN  /\ kind = "resource"
        /\ IF file = Missing THEN Leave(tool, "NOT_FOUND", <<>>)
           ELSE IF file \in Torn THEN Leave(tool, "IO_ERROR", <<>>)
           ELSE IF file = value THEN Leave(tool, "OK", <<>>)
           ELSE SaveResource(tool, value, <<>>)

-----------------------------------------------------------------------------
(* Scenes                                                                  *)

Loaded == kind = "scene" /\ file \notin {Missing} \cup Torn

\* What load_root answers to any tool when there is no scene to change.
SceneUnavailable ==
    /\ kind = "scene"
    /\ \/ file = Missing /\ Leave("any", "NOT_FOUND", <<>>)
       \/ file \in Torn /\ Leave("any", "IO_ERROR", <<>>)

Unused == Nodes \ NodesOf(file)

\* The nodes, and what they carry: groups, values, connections, instances,
\* numbered names.
Size(s) ==
    Cardinality(NodesOf(s)) + Cardinality(s.grouped) + Cardinality(s.links)
      + Cardinality(s.inside) + Cardinality({n \in NodesOf(s) : s.property[n] # DefaultValue})
      + Cardinality({n \in NodesOf(s) : Len(s.name[n]) > 1 /\ s.name[n][Len(s.name[n])] < 0})
HasRoom == Size(file) < MaxSize

\* Saves the scene s after the root was made the owner of n and all below it,
\* of what is inside the instances among them too (assign_owner_recursive).
SaveOwned(tool, s, n, owned, subject) ==
    LET packed    == Pack(s, AssignOwnerRecursive(s, n, owned))
        instances == packed.inside \cap Subtree(packed, n)
        names     == {packed.name[c] : c \in NodesOf(packed)}
                       \cup {Append(InnerName, -k) : k \in 2 .. (Cardinality(Nodes) + 2)}
        fresh     == Nodes \ NodesOf(packed)
    IN  \E leafOf \in [instances -> fresh] :
        \E name \in [UNION {{leafOf[m]} \cup ChildrenOf(packed, m) : m \in instances} -> names] :
            /\ \A j, k \in instances : leafOf[j] = leafOf[k] => j = k
            /\ \A m \in instances : LoadsAs(packed, m, leafOf[m], name)
            /\ SaveResource(tool, WithInner(packed, leafOf, name), subject)

SceneCreate(rootName, overwrite, open) ==
    LET tool == "scene.create"
        new  == NewScene(rootName)
    IN  /\ kind = "scene"
        /\ IF file # Missing /\ ~overwrite THEN Leave(tool, "ALREADY_EXISTS", <<>>)
           ELSE \/ Leave(tool, "IO_ERROR", <<>>)   \* no directory for it
                \/ SaveResource(tool, new, <<>>)
                \/ /\ open
                   /\ Reply(tool, "EDITOR_STATE", FALSE, <<>>)
                   /\ file' = new /\ UNCHANGED kind

AddNode(parent, name) ==
    LET tool == "scene.add_node"
    IN  /\ Loaded
        /\ IF HasChildNamed(file, parent, name) THEN Leave(tool, "ALREADY_EXISTS", <<>>)
           ELSE /\ HasRoom
                /\ \E n \in Unused :
                       LET s == AddChild(WithNode(file, n, name), parent, n)
                       IN  SaveOwned(tool, s, n, NodesOf(file), <<>>)

\* The name <<>> is none: the copy is named as its source is.
DuplicateNode(source, parent, name) ==
    /\ Loaded /\ HasRoom
    /\ \E copies \in SUBSET Unused :
       \E copyOf \in [copies -> Subtree(file, source)] :
           LET base  == IF name = <<>> THEN file.name[source] ELSE name
               new   == ResolveName(file, parent, base)
               clone == CHOOSE c \in copies : copyOf[c] = source
               s     == AddChild([WithCopies(file, copyOf) EXCEPT !.name[clone] = new],
                                 parent, clone)
           IN  /\ Elements(copyOf) = Subtree(file, source)
               /\ \A c, d \in copies : copyOf[c] = copyOf[d] => c = d
               /\ Len(new) <= MaxNameLength
               /\ SaveOwned("scene.duplicate_node", s, clone, NodesOf(file), <<>>)

\* A scene of one node, or with a node inside.
InstanceScene(parent, name, inner) ==
    /\ Loaded /\ HasRoom
    /\ \E n \in Unused :
           LET base == IF name = <<>> THEN SourceName ELSE name
               new  == ResolveName(file, parent, base)
               s    == AddChild(WithNode(file, n, new), parent, n)
           IN  /\ Len(new) <= MaxNameLength
               /\ SaveOwned("scene.instance_scene",
                            IF inner THEN [s EXCEPT !.inside = @ \cup {n}] ELSE s,
                            n, NodesOf(file), <<>>)

RemoveNode(node) ==
    LET tool == "scene.remove_node"
    IN  /\ Loaded
        /\ IF node = Root THEN Leave(tool, "INVALID_ARGS", <<>>)
           ELSE SaveResource(tool, Removed(file, node), <<>>)

RenameNode(node, name) ==
    LET tool == "scene.rename_node"
    IN  /\ Loaded
        /\ IF node = Root THEN Leave(tool, "INVALID_ARGS", <<>>)
           ELSE IF file.name[node] = name THEN Leave(tool, "OK", <<>>)
           ELSE IF HasChildNamed(file, ParentOf(file, node), name)
           THEN Leave(tool, "ALREADY_EXISTS", <<>>)
           ELSE SaveResource(tool, [file EXCEPT !.name[node] = name], <<>>)

NormalizeIndex(index, count) ==
    IF count = 0 THEN 0 ELSE IF index >= count THEN count - 1 ELSE index

\* To the end of another parent's children, or to an index, which counts the
\* children that the parent has before.  The index <<>> is none.
ReparentNode(node, parent, index) ==
    LET tool     == "scene.reparent_node"
        subject  == <<node, parent, index>>
        count    == ChildCount(file, parent)
        indexed  == index # <<>>
        old      == ParentOf(file, node)
        at       == NormalizeIndex(index[1], count)
        away     == AddChild(RemoveChild(file, node), parent, node)
        moved    == IF indexed
                    THEN MoveChild(away, parent, node, NormalizeIndex(index[1], count + 1))
                    ELSE away
        owned    == NodesOf(file) \ Subtree(file, node)
    IN  /\ Loaded
        /\ IF \/ node = Root
              \/ parent \in Subtree(file, node)
              \/ indexed /\ index[1] < 0
           THEN Leave(tool, "INVALID_ARGS", <<>>)
           ELSE IF old # parent /\ HasChildNamed(file, parent, file.name[node])
           THEN Leave(tool, "ALREADY_EXISTS", <<>>)
           ELSE IF indexed /\ index[1] > count THEN Leave(tool, "INVALID_ARGS", <<>>)
           ELSE IF old = parent /\ (indexed => IndexOf(file, node) = at)
           THEN Leave(tool, "OK", <<>>)
           ELSE IF old = parent
           THEN SaveResource(tool, MoveChild(file, parent, node, at), subject)
           ELSE SaveOwned(tool, moved, node, owned, subject)

\* What setting a property of a node makes of the scene: its owner, which a
\* call can only take away, its name, or a value.  The engine packs no node
\* without an owner, nor what is below it; the root has none as it is.
Assigned(s, node, property, value) ==
    CASE property = "owner" -> {IF node = Root THEN s ELSE Removed(s, node)}
      [] property = "name"  -> {[s EXCEPT !.name[node] = name] : name \in SetNames(s, node, value)}
      [] property = "value" -> {[s EXCEPT !.property[node] = value]}

Assign(tool, node, property, value) ==
    \E next \in Assigned(file, node, property, value) :
        /\ Size(next) > Size(file) => HasRoom
        /\ SaveResource(tool, next, <<property>>)

\* Saves whether or not the value is new.
SetProp(node, property, value) ==
    Loaded /\ Assign("scene.set_prop", node, property, value)

CurrentValue(s, node, property) ==
    CASE property = "owner" -> IF node = Root THEN Null ELSE Root
      [] property = "name"  -> s.name[node]
      [] property = "value" -> s.property[node]

\* node_configure, and transform_apply for the properties that it takes.
Configure(tool, node, property, value) ==
    /\ Loaded
    /\ IF CurrentValue(file, node, property) = value THEN Leave(tool, "OK", <<property>>)
       ELSE Assign(tool, node, property, value)

\* script.attach: a node's script is a property that may have to be kept.
AttachScript(node, value, overwrite) ==
    LET tool == "script.attach"
    IN  /\ Loaded /\ value # DefaultValue
        /\ file.property[node] # DefaultValue \/ HasRoom
        /\ IF file.property[node] # DefaultValue /\ ~overwrite
           THEN Leave(tool, "ALREADY_EXISTS", <<>>)
           ELSE SaveResource(tool, [file EXCEPT !.property[node] = value], <<>>)

GroupAdd(node) ==
    /\ Loaded
    /\ IF node \in file.grouped THEN Leave("scene.group_add", "OK", <<>>)
       ELSE HasRoom /\ SaveResource("scene.group_add", [file EXCEPT !.grouped = @ \cup {node}], <<>>)

GroupRemove(node) ==
    /\ Loaded
    /\ IF node \notin file.grouped THEN Leave("scene.group_remove", "OK", <<>>)
       ELSE SaveResource("scene.group_remove", [file EXCEPT !.grouped = @ \ {node}], <<>>)

\* The engine connects a signal to a method once, whatever the flags: it
\* refuses the second time, which counts as done, or counts the references
\* where CONNECT_REFERENCE_COUNTED is set, and then the scene is saved.
ReferenceCounted(flags) == (flags \div 8) % 2 = 1
SignalConnect(from, to, flags) ==
    LET tool == "scene.signal_connect"
        link == [from |-> from, to |-> to, flags |-> flags]
    IN  /\ Loaded
        /\ IF \E l \in file.links : l.from = from /\ l.to = to
           THEN IF link \notin file.links /\ ReferenceCounted(flags)
                THEN SaveResource(tool, file, <<>>)
                ELSE Leave(tool, "OK", <<>>)
           ELSE HasRoom /\ SaveResource(tool, [file EXCEPT !.links = @ \cup {link}], <<>>)

\* The flags <<>> are none: any connection of the two is meant.
SignalDisconnect(from, to, flags) ==
    LET tool  == "scene.signal_disconnect"
        match == {l \in file.links : l.from = from /\ l.to = to /\ flags \in {<<>>, <<l.flags>>}}
    IN  /\ Loaded
        /\ IF match = {} THEN Leave(tool, "OK", <<>>)
           ELSE SaveResource(tool, [file EXCEPT !.links = @ \ match], <<>>)

-----------------------------------------------------------------------------
(* The specification                                                       *)

DocumentCall ==
    \/ \E p \in Pointers : JsonGet(p) \/ JsonRemove(p)
    \/ \E p \in Pointers, v \in JsonValues \cup {BadValue}, create \in BOOLEAN :
           JsonSet(p, v, create)
    \/ \E s \in Sections \cup {Empty}, k \in Keys \cup {Empty} :
           ConfigRead(s, k) \/ ConfigRemove(s, k)
    \/ \E s \in Sections \cup {Empty}, k \in Keys \cup {Empty},
          v \in ConfigValues \cup {Null, BadValue}, create \in BOOLEAN :
           \/ ConfigSet("file.cfg_set", s, k, v, create)
           \/ ConfigSet("project.import_set", s, k, v, FALSE)

SourceCall ==
    \/ \E t \in Texts, overwrite \in BOOLEAN : ScriptCreate(t, overwrite)
    \/ \E t \in Texts : ScriptEdit(t)
    \/ \E overwrite \in BOOLEAN : ResourceCreate(overwrite)
    \/ \E v \in Values : ResourceSet(v)

\* The properties and their values.
Assignments ==
    ({"value"} \X Values) \cup ({"name"} \X NodeNames) \cup {<<"owner", Null>>}

Indexes == {<<>>} \cup {<<i>> : i \in -1 .. (Cardinality(Nodes) - 1)}

SceneCall ==
    \/ SceneUnavailable
    \/ \E name \in RootNames, overwrite, open \in BOOLEAN : SceneCreate(name, overwrite, open)
    \/ /\ Loaded
       /\ \/ \E p \in NodesOf(file), name \in NodeNames : AddNode(p, name) \/ RenameNode(p, name)
          \/ \E n, p \in NodesOf(file), name \in NodeNames \cup {<<>>} : DuplicateNode(n, p, name)
          \/ \E p \in NodesOf(file), name \in NodeNames \cup {<<>>}, inner \in BOOLEAN :
                 InstanceScene(p, name, inner)
          \/ \E n \in NodesOf(file) : RemoveNode(n) \/ GroupAdd(n) \/ GroupRemove(n)
          \/ \E n, p \in NodesOf(file), i \in Indexes : ReparentNode(n, p, i)
          \/ \E n \in NodesOf(file), a \in Assignments :
                 \/ SetProp(n, a[1], a[2])
                 \/ Configure("scene.node_configure", n, a[1], a[2])
          \/ \E n \in NodesOf(file), v \in Values :
                 \/ Configure("scene.transform_apply", n, "value", v)
                 \/ \E overwrite \in BOOLEAN : AttachScript(n, v, overwrite)
          \/ \E from, to \in NodesOf(file), f \in Flags :
                 SignalConnect(from, to, f) \/ SignalDisconnect(from, to, <<f>>)
          \/ \E from, to \in NodesOf(file) : SignalDisconnect(from, to, <<>>)

Next == BadArguments \/ DocumentCall \/ SourceCall \/ SceneCall

Spec == Init /\ [][Next]_vars
-----------------------------------------------------------------------------
(* Properties                                                              *)

Unreadable == {Missing} \cup Torn

TypeOK ==
    /\ kind \in Kinds
    /\ file \in Unreadable \/ kind # "json" \/ IsDocument(file)
    /\ file \in Unreadable \/ kind # "cfg"
         \/ /\ DOMAIN file \subseteq Sections \X Keys
            /\ \A e \in DOMAIN file : file[e] \in ConfigValues
    /\ file \in Unreadable \/ kind # "script" \/ file \in Texts
    /\ file \in Unreadable \/ kind # "resource" \/ file \in Values

\* Whatever the tools add, copy, move, rename and set, what they save is, once
\* opened, a tree under its root, with siblings that differ in name, those
\* that an instance supplies among them, and connections and groups of its
\* own nodes (instance_scene_tool.gd, reparent_node_tool.gd).
SceneIsTree == kind = "scene" /\ file \notin Unreadable => IsScene(file)

\* An answer that says that the call was wrong, or that the engine stopped
\* the script, left the file as it was: what godotctl's exit codes rely on.
RefusalCodes == {"INVALID_ARGS", "NOT_FOUND", "ALREADY_EXISTS", "TYPE_MISMATCH", "INTERNAL"}
RefusedUntouched == [][answer'.code \in RefusalCodes => file' = file]_vars

\* The call succeeded, and the file was written whole.  What a set of an
\* empty document in a missing file asks for counts as there: the answer is
\* that nothing changed, and the file stays missing.
Did(tool) == answer'.tool = tool /\ answer'.code = "OK" /\ file' \notin Unreadable

\* After a set that succeeded a get of the same pointer finds the value, its
\* typed objects as texts, and after a removal it finds nothing, the root
\* apart, which a removal by slashes leaves; and everything outside the
\* pointer is as it was, but for the objects that a set makes on its way
\* (json_set_tool.gd, json_document_store.gd).
JsonKept(t, made) ==
    file \notin Unreadable =>
        \A u \in DOMAIN file \cup DOMAIN file' : ~Within(t, u) =>
            \/ u \in DOMAIN file \cap DOMAIN file' /\ file'[u] = file[u]
            \/ u \notin DOMAIN file /\ u \in made
JsonWriteIsRead ==
    [][kind = "json" =>
          /\ Did("file.json_set") =>
                 LET p == answer'.subject[1]
                     t == Tokens(p)
                 IN  /\ GetValue(file', p) = "OK"
                     /\ ValueAt(file', t) = Decoded(answer'.subject[2])
                     /\ JsonKept(t, {SubSeq(t, 1, n) : n \in 0 .. Len(t)})
          /\ Did("file.json_remove") =>
                 LET p == answer'.subject[1]
                 IN  /\ GetValue(file', p) = "NOT_FOUND" \/ Tokens(p) = <<>>
                     /\ JsonKept(Tokens(p), {})]_vars

\* The same of config files, where null is no value, and a removal without
\* a key takes the section (cfg_set_tool.gd, import_set_tool.gd,
\* cfg_remove_tool.gd).
ConfigKept(entries) ==
    file \notin Unreadable =>
        \A e \in Sections \X Keys : e \notin entries => ConfigGet(file', e) = ConfigGet(file, e)
ConfigWriteIsRead ==
    [][kind = "cfg" =>
          /\ Did("file.cfg_set") \/ Did("project.import_set") =>
                 LET e == <<answer'.subject[1], answer'.subject[2]>>
                 IN  ConfigGet(file', e) = answer'.subject[3] /\ ConfigKept({e})
          /\ Did("file.cfg_remove") =>
                 LET s    == answer'.subject[1]
                     k    == answer'.subject[2]
                     gone == {s} \X (IF k = Empty THEN Keys ELSE {k})
                 IN  /\ \A e \in gone : ConfigGet(file', e) = Null
                     /\ ConfigKept(gone)]_vars

\* A tool that adds, copies, moves, renames or sets loses nothing else of the
\* scene: only a removal takes nodes away, with what is connected to them,
\* and only the tool that is for it ends a name, a membership, a connection,
\* a value.  Two ways around hold too: to set a node's owner to null is to
\* remove it, and to set its name is to rename it.  And a node that came out
\* of an instance has the number of its name changed when the instance moves
\* (set_prop_tool.gd, node_configure_tool.gd, node_path_service.gd).
NothingVanishes ==
    [][kind = "scene" /\ file \notin Unreadable /\ file' \notin Unreadable
         /\ answer'.tool # "scene.create" =>
          LET lost == NodesOf(file) \ NodesOf(file')
              by(tools) == answer'.tool \in tools
              sets(property) == /\ by({"scene.set_prop", "scene.node_configure"})
                                /\ answer'.subject = <<property>>
          IN  /\ lost # {} => by({"scene.remove_node"}) \/ sets("owner")
              /\ \A n \in NodesOf(file) \ lost :
                     /\ file'.name[n] # file.name[n] =>
                            \/ by({"scene.rename_node"}) \/ sets("name")
                            \/ /\ by({"scene.reparent_node"})
                               /\ ParentOf(file', n) \in file'.inside
                     /\ n \in file.grouped \ file'.grouped => by({"scene.group_remove"})
                     /\ file'.property[n] # file.property[n] =>
                            by({"scene.transform_apply", "script.attach"}) \/ sets("value")
              /\ \A l \in file.links \ file'.links :
                     {l.from, l.to} \cap lost # {} \/ by({"scene.signal_disconnect"})]_vars

\* A reparented node is under the parent that was asked for, at the index or
\* else last, though after what an instance supplies, and every other node
\* has the siblings it had, in their order: an instance below the moved node
\* has one more before them (reparent_node_tool.gd).
ReparentIsExact ==
    [][kind = "scene" /\ answer'.tool = "scene.reparent_node" /\ answer'.changed =>
          LET n     == answer'.subject[1]
              p     == answer'.subject[2]
              index == answer'.subject[3]
              first == Supplied(file', p)
              last  == ChildCount(file', p) - 1
          IN  /\ ParentOf(file', n) = p
              /\ IndexOf(file', n) = IF index = <<>> \/ index[1] > last THEN last
                                     ELSE IF index[1] < first THEN first ELSE index[1]
              /\ \A m \in NodesOf(file) :
                     \/ Without(file'.children[m], n) = Without(file.children[m], n)
                     \/ /\ m \in file.inside \cap Subtree(file, n)
                        /\ \E leaf \in NodesOf(file') \ NodesOf(file) :
                               file'.children[m] = InsertAt(file.children[m], 0, leaf)]_vars
=============================================================================
