---------------------------- MODULE AddonInstall ----------------------------
(***************************************************************************)
(* The plugin's way into a project.  packageaddon writes the archive that  *)
(* the binary embeds, into a temporary file which it renames; it may fail  *)
(* or be killed at every step and be run again.  install-bridge, one       *)
(* command of that binary, replaces the project's addons/godot_bridge by   *)
(* what the archive holds, file by file and in place.                      *)
(***************************************************************************)
EXTENDS CommandLine

CONSTANTS
    Files,  \* the files of addons/godot_bridge
    Stale   \* files of an older version that this one has no more

ASSUME AddonAssumption == IsFiniteSet(Files \cup Stale) /\ Files \cap Stale = {}

VARIABLES
    archive,  \* internal/addonbundle/godot_bridge.zip: <<>>, or its files
    temp,     \* the same of godot_bridge.zip.tmp
    writing,  \* packageaddon is between os.Create and os.Rename
    bundle,   \* bridgeZip, the archive that the binary was built with
    target,   \* addons/godot_bridge: what it is, and its files' state
    found,    \* the target as os.Stat found it
    todo,     \* the entries of the archive that are not extracted
    count     \* InstallResult.FileCount, -1 without a result

packVars == <<archive, temp, writing>>
targetVars == <<target, found, todo, count>>
addonVars == <<packVars, bundle, targetVars>>
vars == <<cliVars, addonVars>>

\* A file as an older version had it, as the archive has it, or half written.
States == {"old", "new", "part"}

Absent == [kind |-> "absent", has |-> <<>>]
Dir(has) == [kind |-> "dir", has |-> has]
Whole == Dir([f \in Files |-> "new"])

\* What may be there: an older version, this one, what an earlier install
\* has left that failed or was killed, or no directory at all.
Targets ==
    {Absent, [kind |-> "file", has |-> <<>>]}
        \cup {Dir(has) : has \in UNION {[D -> States] : D \in SUBSET (Files \cup Stale)}}

With(has, f, as) == [g \in DOMAIN has \cup {f} |-> IF g = f THEN as ELSE has[g]]
Without(has, f) == [g \in DOMAIN has \ {f} |-> has[g]]

Init ==
    /\ CliInit /\ phase = "unbuilt"
    /\ archive = <<>> /\ temp = <<>> /\ writing = FALSE /\ bundle = <<>>
    /\ target = Absent /\ found = Absent /\ todo = {} /\ count = -1

-----------------------------------------------------------------------------
(* packageaddon                                                            *)

Packs == phase = "unbuilt" /\ UNCHANGED <<cliVars, bundle, targetVars>>

\* os.Create empties a temporary file that an earlier run has left.
CreateTemp ==
    /\ ~writing /\ writing' = TRUE
    /\ temp' = <<{}>>
    /\ UNCHANGED archive /\ Packs

AddEntry ==
    /\ writing
    /\ \E f \in Files \ temp[1] : temp' = <<temp[1] \cup {f}>>
    /\ UNCHANGED <<archive, writing>> /\ Packs

\* writeArchive, once all files are in.
Rename ==
    /\ writing /\ temp[1] = Files /\ writing' = FALSE
    /\ archive' = temp /\ temp' = <<>>
    /\ Packs

PackageFails ==
    /\ writing /\ writing' = FALSE
    /\ temp' = <<>>
    /\ UNCHANGED archive /\ Packs

PackageKilled ==
    /\ writing /\ writing' = FALSE
    /\ UNCHANGED <<archive, temp>> /\ Packs

\* go build embeds the archive it finds; without one it does not compile.
\* The binary leaves the repository behind.
Build ==
    /\ phase = "unbuilt" /\ archive # <<>>
    /\ phase' = "ready" /\ bundle' = archive
    /\ archive' = <<>> /\ temp' = <<>> /\ writing' = FALSE
    /\ UNCHANGED <<request, daemonVars, printed, exit, targetVars>>

-----------------------------------------------------------------------------
(* install-bridge                                                          *)

Installs(from, to) == phase = from /\ phase' = to /\ UNCHANGED <<request, printed, exit>>

\* Mutant: the new version is written over the old one.
InstallOver ==
    /\ phase = "ready"
    /\ target' \in Targets /\ found' = target' /\ todo' = bundle[1]
    /\ \E force \in BOOLEAN :
          \/ target'.kind = "dir" /\ ~force /\ Fail("validation_error")
          \/ (target'.kind = "absent" \/ force) /\ Installs("ready", "extracting")
    /\ UNCHANGED <<packVars, bundle, count, daemonVars>>

\* The project's root is looked for upwards: none, or one that cannot be
\* read.  Then os.Stat of the target.
InstallBridge ==
    /\ phase = "ready"
    /\ target' \in Targets /\ found' = target' /\ todo' = bundle[1]
    /\ \E force \in BOOLEAN :
          \/ Fail("validation_error") \/ Fail("operation_failed")
          \/ target'.kind = "file" /\ Fail("operation_failed")
          \/ target'.kind = "dir" /\ ~force /\ Fail("validation_error")
          \/ target'.kind = "dir" /\ force /\ Installs("ready", "removing")
          \/ target'.kind = "absent" /\ Installs("ready", "extracting")
    /\ UNCHANGED <<packVars, bundle, count, daemonVars>>

\* os.RemoveAll: the files one after the other, and the directory.
RemoveFile ==
    /\ Installs("removing", "removing")
    /\ \E f \in DOMAIN target.has : target' = Dir(Without(target.has, f))
    /\ UNCHANGED <<packVars, bundle, found, todo, count, daemonVars>>

RemoveDir ==
    /\ Installs("removing", "extracting")
    /\ DOMAIN target.has = {} /\ target' = Absent
    /\ UNCHANGED <<packVars, bundle, found, todo, count, daemonVars>>

\* writeArchiveFile opens the file with O_TRUNC, and then copies.
OpenFile ==
    /\ Installs("extracting", "copying")
    /\ \E f \in todo :
          /\ target' = Dir(With(target.has, f, "part"))
          /\ todo' = todo \ {f}
    /\ UNCHANGED <<packVars, bundle, found, count, daemonVars>>

CopyFile ==
    /\ Installs("copying", "extracting")
    /\ target' = Dir([f \in DOMAIN target.has |->
                         IF target.has[f] = "part" THEN "new" ELSE target.has[f]])
    /\ UNCHANGED <<packVars, bundle, found, todo, count, daemonVars>>

\* countFiles, which fails without a directory, and the result.
CountFiles ==
    /\ phase = "extracting" /\ todo = {} /\ target.kind = "dir"
    /\ count' = Cardinality(DOMAIN target.has)
    /\ Success
    /\ UNCHANGED <<packVars, bundle, target, found, todo, daemonVars>>

\* Any of the calls to the file system fails.  (A process that is killed
\* stops in any of these phases, and leaves one of the Targets.)
InstallFails ==
    /\ phase \in {"removing", "extracting", "copying"}
    /\ Fail("operation_failed")
    /\ UNCHANGED <<daemonVars, addonVars>>

Package == CreateTemp \/ AddEntry \/ Rename \/ PackageFails \/ PackageKilled \/ Build
Extract == RemoveFile \/ RemoveDir \/ OpenFile \/ CopyFile \/ CountFiles \/ InstallFails

-----------------------------------------------------------------------------
(* Properties.                                                             *)

AddonTypeOK ==
    /\ archive \in {<<>>} \cup {<<fs>> : fs \in SUBSET Files}
    /\ temp \in {<<>>} \cup {<<fs>> : fs \in SUBSET Files} /\ (writing => temp # <<>>)
    /\ bundle \in {<<>>} \cup {<<fs>> : fs \in SUBSET Files}
    /\ target \in Targets /\ found \in Targets /\ todo \subseteq Files
    /\ count \in Nat \cup {-1}

\* install-bridge that ends well has put exactly this version's files there,
\* whatever was there before, whatever runs of packageaddon were killed, and
\* it counts them (packageaddon/main.go:97, addonbundle/install.go:22).
InstalledWhole == count # -1 => target = Whole /\ count = Cardinality(Files)
=============================================================================
