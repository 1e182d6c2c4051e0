---------------------------- MODULE CommandLine ----------------------------
(***************************************************************************)
(* One invocation of godotctl: cobra parses the command line, the          *)
(* command's RunE checks its flags, client.DaemonClient asks the daemon,   *)
(* the presenter prints, and main turns the error into the exit status.    *)
(* Commands.tla adds what each command checks and sends.                   *)
(*                                                                         *)
(* The daemon is what ToolCall.tla promises, which Broker.tla implements:  *)
(* a refused call never runs, a delivered one has run, and of any other    *)
(* nobody knows.  A daemon that is not there, or another program on its    *)
(* port, is a choice.  What a message says is left out.                    *)
(***************************************************************************)
EXTENDS Integers, Sequences, FiniteSets, TLC

VARIABLES
    phase,      \* ready, sent (CallTool waits), asked (another request waits), serving,
                \* exited, and what AddonInstall.tla adds
    request,    \* the ToolCallRequest
    response,   \* what the daemon has written to the connection
    toolSaid,   \* what the plugin's tool answered, when it ran
    printed,    \* the presenter's envelopes: the status each of them reports
    exit,       \* the process's exit status, -1 before it ends
    call, ran   \* ToolCall's variables, for this call

daemonVars == <<response, toolSaid, call, ran>>
outVars    == <<phase, printed, exit>>
cliVars    == <<request, daemonVars, outVars>>

Us == "this call"
Daemon == INSTANCE ToolCall WITH Calls <- {Us}, state <- call

NoRequest == [tool |-> "", args |-> <<>>]

\* kind: the Kind of a clierrors.Error; usage and other are errors without
\* one, whose message looks like a validation error or does not.
Kinds == {"ok", "validation_error", "daemon_unavailable", "plugin_disconnected",
          "operation_failed", "usage", "other"}

ExitCode(kind) ==
    [ok |-> 0, validation_error |-> 1, usage |-> 1, daemon_unavailable |-> 2,
     plugin_disconnected |-> 3, operation_failed |-> 4, other |-> 4][kind]

\* Mutant: any failure of a tool is put down to its arguments.
ClassifyByToolCode(code, toolCode) ==
    CASE code = "validation"          -> "validation_error"
      [] code = "plugin_disconnected" -> "plugin_disconnected"
      [] OTHER -> IF toolCode # "" THEN "validation_error" ELSE "operation_failed"

\* classifyToolError.  A code the client does not know falls through to the
\* tool's own code; the texts that it looks for before that are left out, as a
\* daemon sends no such code.
Classify(code, toolCode) ==
    CASE code = "validation"          -> "validation_error"
      [] code = "plugin_disconnected" -> "plugin_disconnected"
      [] OTHER -> IF toolCode = "INVALID_ARGS" THEN "validation_error" ELSE "operation_failed"

Ok == [ok |-> TRUE, code |-> "", toolCode |-> ""]
Refusal(code, toolCode) == [ok |-> FALSE, code |-> code, toolCode |-> toolCode]

CliInit ==
    /\ request = NoRequest /\ response = <<>> /\ toolSaid = ""
    /\ printed = <<>> /\ exit = -1
    /\ Daemon!Init

-----------------------------------------------------------------------------
(* The end of a command.  Printing may fail: Fail ignores that, Success    *)
(* returns the writer's error, which has no kind.                          *)

Exits(kind, lines) ==
    /\ phase' = "exited"
    /\ exit' = ExitCode(kind)
    /\ printed' = printed \o lines
    /\ UNCHANGED request

Fail(kind) == \E lines \in {<<ExitCode(kind)>>, <<>>} : Exits(kind, lines)
Success == Exits("ok", <<0>>) \/ Exits("other", <<>>)

\* cobra refuses the arguments (an unknown flag, a number that is none): the
\* error goes past the presenter, and main only exits.
UsageError ==
    /\ phase = "ready"
    /\ \E kind \in {"usage", "other"} : Exits(kind, <<>>)
    /\ UNCHANGED daemonVars

-----------------------------------------------------------------------------
(* A tool call.                                                            *)

\* A command's checks and its CallTool, up to the request.
Submit(valid, tool, args) ==
    /\ phase = "ready"
    /\ \/ ~valid /\ Fail("validation_error")
       \/ /\ valid /\ phase' = "sent"
          /\ request' = [tool |-> tool, args |-> args]
          /\ UNCHANGED <<printed, exit>>
    /\ UNCHANGED daemonVars

\* httpClient.Do fails: nobody listens, the daemon dies under the request,
\* or the client's own timeout ends, though an answer may be under way.
DoFails == phase = "sent" /\ Fail("daemon_unavailable") /\ UNCHANGED daemonVars

\* The body is no ToolCallResponse, or not all of it comes: another program
\* has the port, the daemon dies as it writes, or the timeout ends.
DecodeFails == phase = "sent" /\ Fail("operation_failed") /\ UNCHANGED daemonVars

\* Mutant: the status of the response is not looked at.
ReceiveAnything == phase = "sent" /\ response # <<>> /\ Success /\ UNCHANGED daemonVars

Receive ==
    /\ phase = "sent" /\ response # <<>>
    /\ LET r == response[1]
       IN IF r.ok THEN Success ELSE Fail(Classify(r.code, r.toolCode))
    /\ UNCHANGED daemonVars

-----------------------------------------------------------------------------
(* The daemon and the plugin, as CallTool sees them.                       *)

Answers(r) == response' = <<r>> /\ UNCHANGED <<toolSaid, request, outVars>>

\* The daemon may read a request whose sender has gone.
Opens ==
    /\ request # NoRequest /\ Daemon!Open(Us)
    /\ UNCHANGED <<response, toolSaid, request, outVars>>

\* handleToolCall answers a call it did not send.
Refuses ==
    /\ call[Us] = "open" /\ Daemon!Refuse(Us)
    /\ \E code \in {"validation", "plugin_disconnected", "operation_failed"} :
          Answers(Refusal(code, ""))

\* The plugin's tool runs, perhaps after everybody has stopped waiting.
ToolRuns ==
    /\ Daemon!Run(Us)
    /\ toolSaid' \in {"done", "INVALID_ARGS", "FAILED"}
    /\ UNCHANGED <<response, request, outVars>>

Delivers ==
    /\ Daemon!Deliver(Us)
    /\ Answers(IF toolSaid = "done" THEN Ok ELSE Refusal("operation_failed", toolSaid))

GivesUp ==
    /\ Daemon!GiveUp(Us)
    /\ \E code \in {"timeout", "cancelled", "plugin_disconnected", "operation_failed"} :
          Answers(Refusal(code, ""))

\* The daemon's process ends before it has answered.
Dies ==
    /\ call[Us] = "open" /\ Daemon!Abort
    /\ UNCHANGED <<response, toolSaid, request, outVars>>

-----------------------------------------------------------------------------
(* The commands that are no tool calls.                                    *)

\* status, tools list and daemon stop ask the daemon one thing.
Ask ==
    /\ phase = "ready" /\ phase' = "asked"
    /\ UNCHANGED <<request, daemonVars, printed, exit>>

AskEnds ==
    /\ phase = "asked"
    /\ Success \/ Fail("daemon_unavailable") \/ Fail("operation_failed")
    /\ UNCHANGED daemonVars

Version == phase = "ready" /\ Success /\ UNCHANGED daemonVars

\* daemon start says that it listens before it does.
Announce ==
    /\ phase = "ready"
    /\ \/ Exits("other", <<>>)
       \/ phase' = "serving" /\ printed' = <<0>> /\ UNCHANGED <<request, exit>>
    /\ UNCHANGED daemonVars

\* Mutant: the daemon command returns, and leaves the status to its caller.
ServingEndsSilently ==
    /\ phase = "serving" /\ phase' = "exited"
    /\ UNCHANGED <<request, daemonVars, printed, exit>>

ServingEnds ==
    /\ phase = "serving"
    /\ Exits("ok", <<>>) \/ Fail("usage") \/ Fail("other")
    /\ UNCHANGED daemonVars

Wire == Opens \/ Refuses \/ ToolRuns \/ Delivers \/ GivesUp \/ Dies
Client == DoFails \/ DecodeFails \/ Receive
Others == UsageError \/ Ask \/ AskEnds \/ Version \/ Announce \/ ServingEnds

=============================================================================
