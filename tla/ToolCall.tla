------------------------------ MODULE ToolCall ------------------------------
(***************************************************************************)
(* What POST /tools/call promises the command line, whatever the broker    *)
(* does to keep it: each call is answered at most once; a call answered    *)
(* with a result was run, and the result is its own; a call that was       *)
(* refused is never run; and no call is ever run twice.  Between the two   *)
(* is the answer that promises nothing (timed out, cancelled, plugin       *)
(* disconnected, daemon gone): the tool may have run, or still run later.  *)
(***************************************************************************)
EXTENDS Naturals

CONSTANT Calls

VARIABLES
    state,  \* per call: new, open, or how it was answered
    ran     \* per call: how often the plugin ran its tool

vars == <<state, ran>>

States == {"new", "open", "refused", "delivered", "unknown"}

Init ==
    /\ state = [c \in Calls |-> "new"]
    /\ ran = [c \in Calls |-> 0]

Answered(c, from, as) ==
    /\ state[c] \in from
    /\ state' = [state EXCEPT ![c] = as]
    /\ UNCHANGED ran

Open(c)    == Answered(c, {"new"}, "open")
Refuse(c)  == ran[c] = 0 /\ Answered(c, {"new", "open"}, "refused")
Deliver(c) == ran[c] = 1 /\ Answered(c, {"open"}, "delivered")
GiveUp(c)  == Answered(c, {"open"}, "unknown")

\* A tool may run after its caller has been told that nobody knows.
Run(c) ==
    /\ state[c] \in {"open", "unknown"}
    /\ ran[c] = 0
    /\ ran' = [ran EXCEPT ![c] = 1]
    /\ UNCHANGED state

\* The daemon's process ends.
Abort ==
    /\ state' = [c \in Calls |-> IF state[c] = "open" THEN "unknown" ELSE state[c]]
    /\ UNCHANGED ran

Next ==
    \/ \E c \in Calls : Open(c) \/ Refuse(c) \/ Deliver(c) \/ GiveUp(c) \/ Run(c)
    \/ Abort

Spec == Init /\ [][Next]_vars
=============================================================================
