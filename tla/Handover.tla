------------------------------- MODULE Handover -------------------------------
(***************************************************************************)
(* What the engine relies on when it hands an alarm over (Deliverer,       *)
(* alerts/engine.go): an answer that names a channel means that whoever is *)
(* at its end was told, and nobody is told any more once there is an       *)
(* answer.  Someone may be told without being the answer, and even where   *)
(* the answer is that the alarm failed.                                    *)
(***************************************************************************)
CONSTANTS Parties, Failed, NoAnswer

VARIABLES
    open,      \* an alarm has been handed over and not answered
    told,      \* who was told of it
    answer     \* the party of the channel named, Failed, or NoAnswer

vars == <<open, told, answer>>

Init ==
    /\ open = FALSE
    /\ told = {}
    /\ answer = NoAnswer

HandOver ==
    /\ ~open
    /\ open' = TRUE
    /\ told' = {}
    /\ answer' = NoAnswer

Tell(p) ==
    /\ open
    /\ told' = told \cup {p}
    /\ UNCHANGED <<open, answer>>

Answered(p) ==
    /\ open
    /\ open' = FALSE
    /\ told' \in {told, told \cup {p}}
    /\ p \in told'
    /\ answer' = p

Fails ==
    /\ open
    /\ open' = FALSE
    /\ \E p \in Parties : told' \in {told, told \cup {p}}
    /\ answer' = Failed

\* The process ends.
CutOff ==
    /\ open
    /\ open' = FALSE
    /\ UNCHANGED <<told, answer>>

Next ==
    \/ HandOver
    \/ \E p \in Parties : Tell(p) \/ Answered(p)
    \/ Fails
    \/ CutOff

Spec == Init /\ [][Next]_vars
=============================================================================
