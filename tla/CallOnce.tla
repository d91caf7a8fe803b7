------------------------------- MODULE CallOnce -------------------------------
(***************************************************************************)
(* What the MCP bridge promises about each tool call: its command runs at   *)
(* most once, a call that is told it was refused or timed out has not run   *)
(* and never will ("a timed-out call cannot surprise-mutate later",         *)
(* src/mcp/bridge.rs), and a result is told only of a command that ran.     *)
(***************************************************************************)
CONSTANT Call

VARIABLES
    fate,   \* of each command: "open", "void" (it never runs) or "ran"
    told    \* what its caller heard: "none", "result" or "refused"

Init ==
    /\ fate = [c \in Call |-> "open"]
    /\ told = [c \in Call |-> "none"]

Run(c) ==
    /\ fate[c] = "open"
    /\ fate' = [fate EXCEPT ![c] = "ran"]
    /\ UNCHANGED told

(* A call may be given up without a word: its caller has left.              *)
GiveUp(c) ==
    /\ fate[c] = "open"
    /\ fate' = [fate EXCEPT ![c] = "void"]
    /\ UNCHANGED told

Refuse(c) ==
    /\ fate[c] # "ran" /\ told[c] = "none"
    /\ fate' = [fate EXCEPT ![c] = "void"]
    /\ told' = [told EXCEPT ![c] = "refused"]

Tell(c) ==
    /\ fate[c] = "ran" /\ told[c] = "none"
    /\ told' = [told EXCEPT ![c] = "result"]
    /\ UNCHANGED fate

Next == \E c \in Call : Run(c) \/ GiveUp(c) \/ Refuse(c) \/ Tell(c)

Spec == Init /\ [][Next]_<<fate, told>>
=============================================================================
