-------------------------------- MODULE Panel --------------------------------
(***************************************************************************)
(* The panel (Panel.qml): it fetches the status with one helper process,   *)
(* sends commands with another and shows the last status it got, while the *)
(* command line and agents change the sites, the daemon comes and goes     *)
(* (see Supervisor) and the helper is built or removed.                     *)
(*                                                                         *)
(* A helper process asks the daemon once; the daemon answers at one moment *)
(* and the panel handles the end of the process later.  The handlers of    *)
(* its exit and its output are one step.  The watchdog stops a helper that *)
(* hangs, after the daemon did what it was asked or before.  Views, the    *)
(* contents of rows, messages and the lists of alerts are left out.        *)
(*                                                                         *)
(* What Supervisor has under the same name (the initial state, the steps,  *)
(* the specification) is prefixed, so that one module can extend both.     *)
(***************************************************************************)
EXTENDS Integers

CONSTANTS
    Ids,         \* site ids
    maxTries,    \* 22 in the code
    MaxAsks,     \* clicks of the user
    MaxChanges,  \* changes of the sites by others
    MaxFlips     \* comings and goings of the daemon and the helper

ASSUME PanelAssumption == {maxTries, MaxAsks, MaxChanges, MaxFlips} \subseteq Nat

NoSnap == {"none"}
NoId == "none"

ASSUME NoIdAssumption == NoId \notin Ids

VARIABLES
    helper,          \* bin/sentinel is there
    up,              \* a daemon answers
    flips,
    changes,
    sites,           \* what the daemon has
    used,            \* ids ever minted: one is never minted twice
    snap,            \* the rows shown, or NoSnap
    fetch,           \* fetchProc: [at, rows, ok]
    fetchQueued,
    cmd,             \* controlProc: [at, op, id, ok]
    pendingRemoval,
    checking, checkingTries,
    helperProbe,     \* its process runs
    helperMissing,
    asks,
    due,             \* history: a command was done and no status asked for since
    misled           \* history: a removal was refused for a command under way

panel == <<snap, fetch, fetchQueued, cmd, pendingRemoval, checking, checkingTries,
           helperProbe, helperMissing, asks, due, misled>>
world == <<helper, up, flips, changes>>
panelVars == <<world, panel, sites, used>>

NoFetch == [at |-> "off", rows |-> {}, ok |-> FALSE]
NoCmd == [at |-> "off", op |-> "none", id |-> NoId, ok |-> FALSE]

Answers == up /\ helper

PanelTypeOK ==
    /\ {helper, up} \subseteq BOOLEAN
    /\ sites \subseteq used /\ used \subseteq Ids
    /\ snap \in (SUBSET Ids) \cup {NoSnap}
    /\ fetch \in [at : {"off", "asked", "answered"}, rows : SUBSET Ids, ok : BOOLEAN]
    /\ cmd \in [at : {"off", "asked", "answered"}, op : {"none", "refresh", "add", "remove", "other"},
                id : Ids \cup {NoId}, ok : BOOLEAN]
    /\ pendingRemoval \in Ids \cup {NoId}
    /\ {fetchQueued, checking, helperProbe, helperMissing, due} \subseteq BOOLEAN
    /\ fetchQueued => fetch.at # "off"
    /\ checkingTries \in 0..maxTries
    /\ asks \in 0..MaxAsks /\ changes \in 0..MaxChanges /\ flips \in 0..MaxFlips
    /\ misled \in BOOLEAN

PanelInit ==
    /\ helper \in BOOLEAN /\ up \in BOOLEAN
    /\ flips = 0 /\ changes = 0
    /\ sites \in SUBSET Ids /\ used = sites
    /\ snap = NoSnap
    /\ fetch = [NoFetch EXCEPT !.at = "asked"]
    /\ fetchQueued = FALSE
    /\ cmd = NoCmd
    /\ pendingRemoval = NoId
    /\ checking = FALSE /\ checkingTries = 0
    /\ helperProbe = TRUE
    /\ helperMissing = FALSE
    /\ asks = 0
    /\ due = FALSE
    /\ misled = FALSE

----------------------------------------------------------------------------
\* Variant: a fetch that is asked for while one is running is that one.
refreshDropped ==
    /\ helperProbe' = TRUE
    /\ fetch' = IF fetch.at = "off" THEN [NoFetch EXCEPT !.at = "asked"] ELSE fetch
    /\ UNCHANGED fetchQueued

\* refresh: a fetch starts, or is queued behind the one that runs.
refresh ==
    /\ helperProbe' = TRUE
    /\ IF fetch.at = "off"
       THEN fetch' = [NoFetch EXCEPT !.at = "asked"] /\ UNCHANGED fetchQueued
       ELSE fetchQueued' = TRUE /\ UNCHANGED fetch

\* The timer, and the panel being opened.
Poll ==
    /\ refresh
    /\ UNCHANGED <<snap, cmd, pendingRemoval, checking, checkingTries, helperMissing, asks, due, misled>>

Ask == asks < MaxAsks /\ asks' = asks + 1
Send(op, id) == cmd' = [NoCmd EXCEPT !.at = "asked", !.op = op, !.id = id]

\* The refresh button.
refreshNow ==
    /\ Ask
    /\ IF cmd.at # "off" THEN refresh /\ UNCHANGED <<cmd, checking, checkingTries>>
       ELSE /\ Send("refresh", NoId)
            /\ checking' = TRUE /\ checkingTries' = 0
            /\ UNCHANGED <<fetch, fetchQueued, helperProbe>>
    /\ UNCHANGED <<snap, pendingRemoval, helperMissing, due, misled>>

\* control: one command at a time, the others are refused.
control(op, id) == IF cmd.at = "off" THEN Send(op, id) ELSE UNCHANGED cmd

\* The id is remembered before control is asked.
removeSite(id) ==
    /\ Ask
    /\ snap # NoSnap /\ id \in snap
    /\ pendingRemoval' = id
    /\ control("remove", id)
    /\ misled' = (misled \/ cmd.at # "off")
    /\ UNCHANGED <<snap, fetch, fetchQueued, checking, checkingTries, helperProbe, helperMissing,
                   due>>

\* A site to add, or one to pause, a watch to disarm, a setting.  What runs in a
\* terminal of its own (recycleToken, a build) is not the panel's command.
OtherCommand ==
    /\ Ask
    /\ cmd.at = "off"
    /\ \/ \E id \in Ids \ used : control("add", id)
       \/ control("other", NoId)
    /\ UNCHANGED <<snap, fetch, fetchQueued, pendingRemoval, checking, checkingTries, helperProbe,
                   helperMissing, due, misled>>

\* While a round is on, until a round is seen to end, which lastChecked would
\* tell if the daemon's answer had it, or tries run out.
CheckTick ==
    /\ checking
    /\ IF checkingTries = maxTries
       THEN checking' = FALSE /\ checkingTries' = 0 /\ UNCHANGED <<fetch, fetchQueued, helperProbe>>
       ELSE checkingTries' = checkingTries + 1 /\ refresh /\ UNCHANGED checking
    /\ UNCHANGED <<snap, cmd, pendingRemoval, helperMissing, asks, due, misled>>

----------------------------------------------------------------------------
(* The helper processes. *)

FetchAnswered ==
    /\ fetch.at = "asked"
    /\ \E ok \in {Answers, FALSE} :
         fetch' = [at |-> "answered", rows |-> IF ok THEN sites ELSE {}, ok |-> ok]
    /\ due' = FALSE
    /\ UNCHANGED <<snap, fetchQueued, cmd, pendingRemoval, checking, checkingTries, helperProbe,
                   helperMissing, asks, misled>>

\* Variant: what was queued is left to the next poll.
FetchExitedUnqueued ==
    /\ fetch.at = "answered"
    /\ snap' = IF fetch.ok THEN fetch.rows ELSE snap
    /\ helperMissing' = IF fetch.ok THEN FALSE ELSE helperMissing \/ snap = NoSnap
    /\ fetch' = NoFetch
    /\ UNCHANGED <<fetchQueued, cmd, pendingRemoval, checking, checkingTries, helperProbe, asks,
                   due, misled>>

\* Variant: a status without rows is taken for none.
FetchExitedEmpty ==
    /\ fetch.at = "answered"
    /\ snap' = IF fetch.ok /\ fetch.rows # {} THEN fetch.rows ELSE snap
    /\ helperMissing' = IF fetch.ok THEN FALSE ELSE helperMissing \/ snap = NoSnap
    /\ fetch' = IF fetchQueued THEN [NoFetch EXCEPT !.at = "asked"] ELSE NoFetch
    /\ fetchQueued' = FALSE
    /\ UNCHANGED <<cmd, pendingRemoval, checking, checkingTries, helperProbe, asks, due, misled>>

FetchExited ==
    /\ fetch.at = "answered"
    /\ snap' = IF fetch.ok THEN fetch.rows ELSE snap
    /\ helperMissing' = IF fetch.ok THEN FALSE ELSE helperMissing \/ snap = NoSnap
    /\ fetch' = IF fetchQueued THEN [NoFetch EXCEPT !.at = "asked"] ELSE NoFetch
    /\ fetchQueued' = FALSE
    /\ UNCHANGED <<cmd, pendingRemoval, checking, checkingTries, helperProbe, asks, due, misled>>

\* A removal of a site that is not there is an error.
CmdAnswered ==
    /\ cmd.at = "asked"
    /\ \E done \in {Answers, FALSE}, hangs \in BOOLEAN :
         LET ok == /\ done
                   /\ cmd.op = "add" => cmd.id \notin used
                   /\ cmd.op = "remove" => cmd.id \in sites
         IN  /\ cmd' = [cmd EXCEPT !.at = "answered", !.ok = ok /\ ~hangs]
             /\ sites' = CASE ok /\ cmd.op = "add" -> sites \cup {cmd.id}
                           [] ok /\ cmd.op = "remove" -> sites \ {cmd.id}
                           [] OTHER -> sites
             /\ used' = used \cup sites'
    /\ UNCHANGED <<snap, fetch, fetchQueued, pendingRemoval, checking, checkingTries, helperProbe,
                   helperMissing, asks, due, misled>>

\* Variant: the row goes whatever the answer was.
dropRowAlways(ok) == pendingRemoval # NoId /\ snap # NoSnap /\ pendingRemoval \in snap

\* dropRow, once the daemon has confirmed.
dropRow(ok) == ok /\ pendingRemoval # NoId /\ snap # NoSnap /\ pendingRemoval \in snap

CmdExited ==
    /\ cmd.at = "answered"
    /\ cmd' = NoCmd
    /\ IF dropRow(cmd.ok)
       THEN snap' = snap \ {pendingRemoval}
       ELSE UNCHANGED snap
    /\ pendingRemoval' = NoId
    /\ checking' = (checking /\ cmd.ok)
    /\ checkingTries' = IF checking' THEN checkingTries ELSE 0
    /\ refresh
    /\ due' = TRUE
    /\ misled' = FALSE
    /\ UNCHANGED <<helperMissing, asks>>

\* A probe that hung and was stopped by the watchdog is taken for one that found
\* nothing.
HelperProbeExited ==
    /\ helperProbe
    /\ helperProbe' = FALSE
    /\ \E found \in {helper, FALSE} :
         /\ helperMissing' = ~found
         /\ snap' = IF found THEN snap ELSE NoSnap
    /\ UNCHANGED <<fetch, fetchQueued, cmd, pendingRemoval, checking, checkingTries, asks, due, misled>>

----------------------------------------------------------------------------
(* The world around it. *)

\* The command line or an agent adds or removes a site.
OtherChange ==
    /\ changes < MaxChanges /\ up
    /\ changes' = changes + 1
    /\ \/ \E id \in sites : sites' = sites \ {id}
       \/ \E id \in Ids \ used : sites' = sites \cup {id}
    /\ used' = used \cup sites'
    /\ UNCHANGED <<helper, up, flips>>

\* The daemon starts or ends; the helper is built, or a new clone takes it away.
Flip ==
    /\ flips < MaxFlips
    /\ flips' = flips + 1
    /\ \/ up' = ~up /\ UNCHANGED helper
       \/ helper' = ~helper /\ UNCHANGED up
    /\ UNCHANGED <<sites, used, changes>>

Handlers == FetchExited \/ CmdExited \/ HelperProbeExited

PanelActs ==
    \/ Poll \/ refreshNow \/ OtherCommand \/ CheckTick
    \/ \E id \in Ids : removeSite(id)
    \/ FetchAnswered \/ Handlers

PanelNext ==
    \/ PanelActs /\ UNCHANGED <<world, sites, used>>
    \/ CmdAnswered /\ UNCHANGED world
    \/ (OtherChange \/ Flip) /\ UNCHANGED panel

\* Every process comes to an end, stopped by the watchdog if it hangs, and not
\* every fetch of a daemon that answers does; the timers fire.
PanelFairness ==
    /\ WF_panel(Poll) /\ WF_panel(CheckTick)
    /\ WF_panel(FetchAnswered) /\ SF_panel(FetchAnswered /\ fetch'.ok)
    /\ WF_panel(CmdAnswered)
    /\ WF_panel(FetchExited) /\ WF_panel(CmdExited) /\ WF_panel(HelperProbeExited)

PanelSpec == PanelInit /\ [][PanelNext]_panelVars
PanelFairSpec == PanelSpec /\ PanelFairness

----------------------------------------------------------------------------
\* After a command the panel always has a fetch under way, or to come, that will
\* see what the command did (fetchQueued's comment: "a fetch asked for right after
\* a change was simply lost").
AskIsKept == due => fetch.at = "asked" \/ fetchQueued

\* A row goes when a status says the site is gone or the daemon confirmed its
\* removal (removeSite's comment: "Not before it confirms"), except that a removal
\* refused for a command under way takes that command's success for its own.
RowGoesForCause ==
    [][\A id \in Ids :
         snap # NoSnap /\ id \in snap /\ snap' # NoSnap /\ id \notin snap' =>
            \/ fetch.ok /\ id \notin fetch.rows
            \/ cmd.ok /\ cmd.op = "remove" /\ cmd.id = id
            \/ misled]_panelVars

\* An old status in flight can bring a removed row back, but while the daemon
\* answers, a site that is gone goes from the panel for good.
RemovedRowGoes ==
    \A id \in Ids :
        <>[](id \notin sites /\ Answers) => <>[](snap = NoSnap \/ id \notin snap)
=============================================================================
