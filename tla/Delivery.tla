------------------------------- MODULE Delivery -------------------------------
(***************************************************************************)
(* The delivery of alarms (alerts/deliver.go, alerts/desktop.go), one at a *)
(* time as a pass of the engine makes them.  The person is told by         *)
(* notify-send, a named agent by herdr, a command that is killed at its    *)
(* timeout: by then it may or may not have done its work.                  *)
(*                                                                         *)
(* The clock counts from when the alarm was handed over.  What herdr and   *)
(* notify-send do is external: herdr prompts an agent that is free, and    *)
(* one that stays free for a whole attempt takes the prompt in time; of    *)
(* one blocked on a dialog, or gone, it returns an error or hangs.         *)
(***************************************************************************)
EXTENDS Integers

CONSTANTS
    BlockedRetry,   \* how long a blocked agent is tried
    RetryEvery,     \* the pause between two attempts
    HerdrTimeout,   \* when a call of herdr is killed
    NotifyTimeout   \* when notify-send is

ASSUME DeliveryAssumption ==
    {BlockedRetry, RetryEvery, HerdrTimeout, NotifyTimeout} \subseteq Nat \ {0}

VARIABLES
    at,        \* where the delivery is
    target,    \* Trigger.DeliverTo: "you", "repo" or "named"
    clock,     \* time since the alarm was handed over
    began,     \* when the call or the pause under way began
    free,      \* the named agent can be prompted
    told,      \* who was told
    answer,    \* what is returned to the engine: a channel or "error"
    freeFor,   \* history: how long the agent has been free
    longest    \* history: the longest it was while it was tried

vars == <<at, target, clock, began, free, told, answer, freeFor, longest>>

Parties == {"person", "agent"}

\* What the delivery takes at most, by target.
Longest ==
    [you   |-> NotifyTimeout,
     repo  |-> HerdrTimeout + NotifyTimeout,
     named |-> BlockedRetry + RetryEvery + HerdrTimeout + NotifyTimeout][target]

\* A delivery is over in bounded time: what a pass waits for each alarm.
TypeOK ==
    /\ at \in {"idle", "list", "prompt", "pause", "notify"}
    /\ target \in {"you", "repo", "named"}
    /\ clock \in 0..Longest
    /\ began \in 0..clock
    /\ free \in BOOLEAN
    /\ told \subseteq Parties
    /\ answer \in Parties \cup {"error", "none"}
    /\ freeFor \in Nat /\ longest \in Nat

Init ==
    /\ at = "idle"
    /\ target = "you"
    /\ clock = 0 /\ began = 0
    /\ free \in BOOLEAN
    /\ told = {}
    /\ answer = "none"
    /\ freeFor = 0 /\ longest = 0

\* NewDeliverer's function is called: the switch over the target.
Deliver ==
    /\ at = "idle"
    /\ target' \in {"you", "repo", "named"}
    /\ at' = [you |-> "notify", repo |-> "list", named |-> "prompt"][target']
    /\ clock' = 0 /\ began' = 0
    /\ free' \in BOOLEAN
    /\ told' = {}
    /\ answer' = "none"
    /\ freeFor' = 0 /\ longest' = 0

\* The timeout of the call, or the end of the pause, under way.
Due ==
    began + [list |-> HerdrTimeout, prompt |-> HerdrTimeout,
             pause |-> RetryEvery, notify |-> NotifyTimeout][at]

\* Time passes; meanwhile the agent comes free or gets busy.
Tick ==
    /\ at # "idle"
    /\ clock < Due
    /\ clock' = clock + 1
    /\ free' \in BOOLEAN
    /\ freeFor' = IF free THEN freeFor + 1 ELSE 0
    /\ longest' = IF at \in {"prompt", "pause"} /\ freeFor' > longest THEN freeFor' ELSE longest
    /\ UNCHANGED <<at, target, began, told, answer>>

----------------------------------------------------------------------------
(* deliverHerdr *)

\* Variant: one attempt is enough.
AttemptOnce ==
    /\ at' = "notify"
    /\ began' = clock

\* Variant: every failure buys the agent another minute.
AttemptAnew ==
    /\ at' = IF clock - began > BlockedRetry THEN "notify" ELSE "pause"
    /\ began' = clock

\* A failed attempt: the deadline is looked at now, not before the next one.
AttemptFailed ==
    /\ at' = IF clock > BlockedRetry THEN "notify" ELSE "pause"
    /\ began' = clock

PromptTaken ==
    /\ at = "prompt"
    /\ free
    /\ at' = "idle"
    /\ told' = told \cup {"agent"}
    /\ answer' = "agent"
    /\ UNCHANGED <<target, clock, began, free, freeFor, longest>>

PromptRefused ==
    /\ at = "prompt"
    /\ ~free
    /\ AttemptFailed
    /\ UNCHANGED <<target, clock, free, told, answer, freeFor, longest>>

\* herdr is killed; the prompt may have gone through all the same.
PromptKilled ==
    /\ at = "prompt"
    /\ clock = began + HerdrTimeout
    /\ freeFor < HerdrTimeout
    /\ told' \in {told, told \cup {"agent"}}
    /\ AttemptFailed
    /\ UNCHANGED <<target, clock, free, answer, freeFor, longest>>

Retry ==
    /\ at = "pause"
    /\ clock = began + RetryEvery
    /\ at' = "prompt"
    /\ began' = clock
    /\ UNCHANGED <<target, clock, free, told, answer, freeFor, longest>>

----------------------------------------------------------------------------
\* Agents and agentForRepo: listed or not, no agent is found, as no entry of the
\* catalogue carries the path of a checkout (catalogue.go, entries).
ListAgents ==
    /\ at = "list"
    /\ at' = "notify"
    /\ began' = clock
    /\ UNCHANGED <<target, clock, free, told, answer, freeFor, longest>>

\* Variant: falling back is as good as telling.
DesktopUnasked(ok) ==
    /\ at = "notify"
    /\ at' = "idle"
    /\ told' = IF ok THEN told \cup {"person"} ELSE told
    /\ answer' = IF ok \/ target = "named" THEN "person" ELSE "error"
    /\ UNCHANGED <<target, clock, began, free, freeFor, longest>>

\* deliverDesktop, for whom it was meant or as the fallback.  The error of herdr
\* is part of the answer only if the notification fails as well.
Desktop(ok) ==
    /\ at = "notify"
    /\ at' = "idle"
    /\ told' = IF ok THEN told \cup {"person"} ELSE told
    /\ answer' = IF ok THEN "person" ELSE "error"
    /\ UNCHANGED <<target, clock, began, free, freeFor, longest>>

\* notify-send is killed: it may have shown the alarm.
DesktopKilled ==
    /\ at = "notify"
    /\ clock = began + NotifyTimeout
    /\ at' = "idle"
    /\ told' \in {told, told \cup {"person"}}
    /\ answer' = "error"
    /\ UNCHANGED <<target, clock, began, free, freeFor, longest>>

\* The process ends in the middle of it.
Exit ==
    /\ at # "idle"
    /\ at' = "idle"
    /\ UNCHANGED <<target, clock, began, free, told, answer, freeFor, longest>>

Next ==
    \/ Deliver
    \/ Tick
    \/ PromptTaken \/ PromptRefused \/ PromptKilled \/ Retry
    \/ ListAgents
    \/ \E ok \in BOOLEAN : Desktop(ok)
    \/ DesktopKilled
    \/ Exit

Spec == Init /\ [][Next]_vars

----------------------------------------------------------------------------
\* A named agent is given up for the person only when it was tried for as long
\* as blockedRetry says ("how long to keep trying an agent that is busy with a
\* dialog"), and in that time was never free for two attempts and the pause
\* between them.
FallsBackForCause ==
    target = "named" /\ at = "notify" =>
        clock > BlockedRetry /\ longest < 2 * HerdrTimeout + RetryEvery

\* What the engine relies on: by refinement, an answer that names a channel means
\* that its party was told, through retries, kills at a timeout and fallbacks.
Promise == INSTANCE Handover WITH
    Failed   <- "error",
    NoAnswer <- "none",
    open     <- at # "idle"

Implements == Promise!Spec
=============================================================================
