------------------------------ MODULE Supervisor ------------------------------
(***************************************************************************)
(* The shell's service (Service.qml), which owns the daemon: it probes     *)
(* whether the helper is built, starts the daemon, and starts it again     *)
(* after a failure, up to a ceiling.  Every handler and timer of the       *)
(* component is an action; Quickshell runs them one at a time.             *)
(*                                                                         *)
(* The end of a process is two events, its exit and the end of its stderr, *)
(* handled in either order; the back-off is longer than both.  Another     *)
(* daemon that holds the port makes a start fail.                          *)
(***************************************************************************)
EXTENDS Integers

CONSTANTS
    maxRestarts,  \* 5 in the code
    MaxBuilds,    \* times the helper is built or removed
    MaxEnds       \* ends of a daemon, hung probes and toggles of the plugin

ASSUME SupervisorAssumption == {maxRestarts, MaxBuilds, MaxEnds} \subseteq Nat

VARIABLES
    built,       \* bin/sentinel is there
    probe,       \* its process: "off", "running", or "reaped" by the watchdog
    rebprobe,    \* the timers, running or not
    respawn,
    daemon,      \* its process: "off", "starting", "up"
    other,       \* another daemon holds the port
    exit,        \* the exit still to be handled: "none", "clean", "failed"
    stream,      \* the stderr still to be handled: "none" or a reason
    restarts,
    exitReason,
    lastError,   \* [gaveUp, text]
    builds, ends,
    why,         \* history: the last reason a daemon gave for its end
    ended        \* history: how it last ended

vars == <<built, probe, rebprobe, respawn, daemon, other, exit, stream, restarts, exitReason,
          lastError, builds, ends, why, ended>>

\* What failureLine makes of stderr: the line that says why, some line of the
\* log, or nothing.
Reasons == {"cause", "log", "nothing"}

Says(text) == [gaveUp |-> FALSE, text |-> text]
gaveUpMessage(reason) == [gaveUp |-> TRUE, text |-> reason]

Over == exit = "none" /\ stream = "none"

TypeOK ==
    /\ built \in BOOLEAN
    /\ probe \in {"off", "running", "reaped"}
    /\ {rebprobe, respawn, other} \subseteq BOOLEAN
    /\ daemon \in {"off", "starting", "up"}
    /\ exit \in {"none", "clean", "failed"}
    /\ stream \in Reasons \cup {"none"}
    /\ restarts \in 0..maxRestarts
    /\ {exitReason, why} \subseteq Reasons
    /\ lastError.text \in Reasons \cup {"notBuilt", "noAnswer"}
    /\ builds \in 0..MaxBuilds /\ ends \in 0..MaxEnds
    /\ ended \in {"never", "clean", "failed"}

Init ==
    /\ built \in BOOLEAN
    /\ probe = "running"
    /\ rebprobe = FALSE /\ respawn = FALSE
    /\ daemon = "off"
    /\ other \in BOOLEAN
    /\ exit = "none" /\ stream = "none"
    /\ restarts = 0
    /\ exitReason = "nothing" /\ why = "nothing"
    /\ lastError = Says("nothing")
    /\ builds = 0 /\ ends = 0
    /\ ended = "never"

End == ends < MaxEnds /\ ends' = ends + 1

----------------------------------------------------------------------------
(* The probe. *)

\* Variant: a probe that was stopped is not made again.
ProbeExitedOnce ==
    /\ probe # "off"
    /\ probe' = "off"
    /\ IF built /\ probe = "running"
       THEN lastError' = Says("nothing") /\ daemon' = "starting" /\ UNCHANGED rebprobe
       ELSE /\ lastError' = Says("notBuilt")
            /\ rebprobe' = (probe = "running")
            /\ UNCHANGED daemon
    /\ UNCHANGED <<built, respawn, other, exit, stream, restarts, exitReason, builds, ends, why, ended>>

ProbeExited ==
    /\ probe # "off"
    /\ probe' = "off"
    /\ IF built /\ probe = "running"
       THEN lastError' = Says("nothing") /\ daemon' = (IF daemon = "off" THEN "starting" ELSE daemon)
            /\ UNCHANGED rebprobe
       ELSE lastError' = Says("notBuilt") /\ rebprobe' = TRUE /\ UNCHANGED daemon
    /\ UNCHANGED <<built, respawn, other, exit, stream, restarts, exitReason, builds, ends, why, ended>>

\* probeWatchdog: a probe that hangs is reaped, and exits with an error.
ProbeHangs ==
    /\ End
    /\ probe = "running"
    /\ probe' = "reaped"
    /\ lastError' = Says("noAnswer")
    /\ UNCHANGED <<built, rebprobe, respawn, daemon, other, exit, stream, restarts, exitReason,
                   builds, why, ended>>

Reprobe ==
    /\ rebprobe
    /\ rebprobe' = FALSE
    /\ probe' = IF daemon = "off" THEN "running" ELSE probe
    /\ UNCHANGED <<built, respawn, daemon, other, exit, stream, restarts, exitReason, lastError,
                   builds, ends, why, ended>>

----------------------------------------------------------------------------
(* The daemon, as far as the service sees it (cmd/sentinel/daemon.go). *)

Listen ==
    /\ daemon = "starting"
    /\ ~other
    /\ daemon' = "up"
    /\ UNCHANGED <<built, probe, rebprobe, respawn, other, exit, stream, restarts, exitReason,
                   lastError, builds, ends, why, ended>>

Ended(code, reason) ==
    /\ daemon' = "off"
    /\ exit' = code /\ ended' = code
    /\ stream' = reason
    /\ why' = IF reason = "nothing" THEN why ELSE reason
    /\ UNCHANGED <<built, probe, rebprobe, respawn, other, restarts, exitReason, lastError, builds>>

\* It cannot listen, and says so; or there is no helper to run, which Quickshell is
\* taken to report as an exit like any other.
StartFails ==
    /\ daemon = "starting"
    /\ \/ other /\ Ended("failed", "cause")
       \/ ~built /\ Ended("failed", "nothing")
    /\ UNCHANGED ends

\* It fails, is killed, or stops when told to.
DaemonEnds ==
    /\ End
    /\ daemon # "off"
    /\ \/ \E reason \in Reasons : Ended("failed", reason)
       \/ daemon = "up" /\ Ended("clean", "log")

\* Variant: any end is followed by a start.
DaemonExitedAlways ==
    /\ exit # "none"
    /\ exit' = "none"
    /\ IF restarts >= maxRestarts
       THEN lastError' = gaveUpMessage(exitReason) /\ UNCHANGED <<restarts, respawn>>
       ELSE restarts' = restarts + 1 /\ respawn' = TRUE /\ UNCHANGED lastError
    /\ UNCHANGED <<built, probe, rebprobe, daemon, other, stream, exitReason, builds, ends, why, ended>>

\* Variant: one more.
DaemonExitedOnceMore ==
    /\ exit # "none"
    /\ exit' = "none"
    /\ CASE exit = "clean" -> UNCHANGED <<restarts, respawn, lastError>>
         [] exit = "failed" /\ restarts > maxRestarts ->
              lastError' = gaveUpMessage(exitReason) /\ UNCHANGED <<restarts, respawn>>
         [] OTHER -> restarts' = restarts + 1 /\ respawn' = TRUE /\ UNCHANGED lastError
    /\ UNCHANGED <<built, probe, rebprobe, daemon, other, stream, exitReason, builds, ends, why, ended>>

DaemonExited ==
    /\ exit # "none"
    /\ exit' = "none"
    /\ CASE exit = "clean" -> UNCHANGED <<restarts, respawn, lastError>>
         [] exit = "failed" /\ restarts >= maxRestarts ->
              lastError' = gaveUpMessage(exitReason) /\ UNCHANGED <<restarts, respawn>>
         [] OTHER -> restarts' = restarts + 1 /\ respawn' = TRUE /\ UNCHANGED lastError
    /\ UNCHANGED <<built, probe, rebprobe, daemon, other, stream, exitReason, builds, ends, why, ended>>

\* Variant: the reason is all there is to say.
StreamFinishedPlain ==
    /\ stream # "none"
    /\ stream' = "none"
    /\ IF stream = "nothing" THEN UNCHANGED <<exitReason, lastError>>
       ELSE exitReason' = stream /\ lastError' = Says(stream)
    /\ UNCHANGED <<built, probe, rebprobe, respawn, daemon, other, exit, restarts, builds, ends,
                   why, ended>>

StreamFinished ==
    /\ stream # "none"
    /\ stream' = "none"
    /\ IF stream = "nothing" THEN UNCHANGED <<exitReason, lastError>>
       ELSE /\ exitReason' = stream
            /\ lastError' = IF restarts >= maxRestarts THEN gaveUpMessage(stream) ELSE Says(stream)
    /\ UNCHANGED <<built, probe, rebprobe, respawn, daemon, other, exit, restarts, builds, ends,
                   why, ended>>

Respawn ==
    /\ respawn /\ Over
    /\ respawn' = FALSE
    /\ daemon' = IF daemon = "off" THEN "starting" ELSE daemon
    /\ UNCHANGED <<built, probe, rebprobe, other, exit, stream, restarts, exitReason, lastError,
                   builds, ends, why, ended>>

----------------------------------------------------------------------------
(* What happens around it. *)

\* The plugin is disabled and enabled: the daemon is told to stop, and may hold
\* the port yet when a new component starts its own.
Toggle ==
    /\ End
    /\ other' = (other \/ daemon = "up")
    /\ probe' = "running"
    /\ rebprobe' = FALSE /\ respawn' = FALSE
    /\ daemon' = "off"
    /\ exit' = "none" /\ stream' = "none"
    /\ restarts' = 0
    /\ exitReason' = "nothing" /\ why' = "nothing"
    /\ lastError' = Says("nothing")
    /\ ended' = "never"
    /\ UNCHANGED <<built, builds>>

OtherEnds ==
    /\ other
    /\ other' = FALSE
    /\ UNCHANGED <<built, probe, rebprobe, respawn, daemon, exit, stream, restarts, exitReason,
                   lastError, builds, ends, why, ended>>

\* make, or a clone that takes bin/ away.
Build ==
    /\ builds < MaxBuilds
    /\ builds' = builds + 1
    /\ built' = ~built
    /\ UNCHANGED <<probe, rebprobe, respawn, daemon, other, exit, stream, restarts, exitReason,
                   lastError, ends, why, ended>>

Next ==
    \/ ProbeExited \/ Reprobe
    \/ Listen \/ StartFails \/ DaemonExited \/ StreamFinished \/ Respawn
    \/ ProbeHangs \/ DaemonEnds \/ Toggle \/ OtherEnds \/ Build

\* Handlers and timers run; a probe and a start come to an end.
Fairness ==
    /\ WF_vars(ProbeExited) /\ WF_vars(Reprobe)
    /\ WF_vars(Listen \/ StartFails)
    /\ WF_vars(DaemonExited) /\ WF_vars(StreamFinished) /\ WF_vars(Respawn)

Spec == Init /\ [][Next]_vars
FairSpec == Spec /\ Fairness

----------------------------------------------------------------------------
\* Nothing more will be done by itself.
GivenUp == restarts = maxRestarts /\ daemon = "off" /\ ~respawn /\ Over /\ ended = "failed"

\* When the service has given up it says so with the cause, whichever of the two
\* events came last (onStreamFinished's comment: "a reason that arrives late
\* still reaches a message that has already been written").
GaveUpSaysWhy == GivenUp => lastError = gaveUpMessage(why)

\* "Exit zero: the service entry point must not respawn a stop that was asked
\* for" (cmd/sentinel/daemon.go): no probe, timer or late event starts a daemon
\* that stopped cleanly.
CleanStaysDown == [][ended = "clean" /\ ended' = "clean" => daemon' = "off"]_vars

\* Whatever hangs, fails, is built late or taken away for a while: with the helper
\* there for good the service comes to rest with the daemon up, given up on, or
\* stopped as asked.
EndsUp == <>[]built => <>[](daemon = "up" \/ GivenUp \/ ended = "clean")
=============================================================================
