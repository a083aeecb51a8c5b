---------------------------- MODULE DesktopProofs ----------------------------
(***************************************************************************)
(* Proofs about the two parts of the desktop side, the shell service       *)
(* (Supervisor) and the panel (Panel).                                     *)
(*                                                                         *)
(* For every number of restarts allowed, and for any number of ends,       *)
(* hangs, toggles and builds, a stop is left alone and giving up names the *)
(* cause.  Both rest on who can still start a daemon: a probe only before  *)
(* the first one (Probing), a respawn only after a failure that was        *)
(* handled (Respawning).  Heard and Message follow the reason from stderr  *)
(* to the message, in either order of the two events.                      *)
(*                                                                         *)
(* For any sites, clicks and changes by others, the panel loses no fetch   *)
(* it was asked for and drops no row without cause.  The second rests on   *)
(* which command a removal to be confirmed waits for (Waiting).            *)
(***************************************************************************)
EXTENDS Supervisor, Panel, TLAPS

\* Probes are over when a daemon is started, and are made one at a time.
Probing ==
    /\ daemon # "off" \/ ended # "never" => probe = "off" /\ ~rebprobe
    /\ probe # "off" => ~rebprobe

\* Events still to be handled are those of a daemon that is gone.
Ending ==
    /\ exit # "none" => exit = ended /\ ended # "never"
    /\ stream # "none" => ended # "never"
    /\ daemon # "off" => Over

\* Only a failure is followed by a start.
Respawning ==
    /\ respawn => daemon = "off" /\ ended = "failed" /\ exit = "none"
    /\ ended = "clean" => daemon = "off"

\* The last reason was heard, or is about to be.
Heard == IF stream \in {"none", "nothing"} THEN exitReason = why ELSE stream = why

\* Once the exit is handled and no reason is to come, the message has the cause.
Message ==
    /\ restarts = maxRestarts /\ daemon = "off" /\ ~respawn /\ ended = "failed"
    /\ exit = "none" /\ stream \in {"none", "nothing"}
    => lastError = gaveUpMessage(why)

IInv == TypeOK /\ Probing /\ Ending /\ Respawning /\ Heard /\ Message

----------------------------------------------------------------------------
(* Types, in four parts. *)

Counters ==
    restarts \in 0..maxRestarts /\ builds \in 0..MaxBuilds /\ ends \in 0..MaxEnds

Flags == built \in BOOLEAN /\ rebprobe \in BOOLEAN /\ respawn \in BOOLEAN /\ other \in BOOLEAN

Places ==
    /\ probe \in {"off", "running", "reaped"}
    /\ daemon \in {"off", "starting", "up"}
    /\ exit \in {"none", "clean", "failed"}
    /\ ended \in {"never", "clean", "failed"}

Texts ==
    /\ stream \in Reasons \cup {"none"}
    /\ exitReason \in Reasons /\ why \in Reasons
    /\ lastError.text \in Reasons \cup {"notBuilt", "noAnswer"}

\* The type invariant taken apart, one part per kind of variable.
LEMMA TypeParts == TypeOK <=> Counters /\ Flags /\ Places /\ Texts
BY DEF TypeOK, Counters, Flags, Places, Texts

\* Only a failure counted against the ceiling adds to restarts.
LEMMA NextCounters ==
    ASSUME Counters, Places, [Next]_vars
    PROVE  Counters'
<1> USE SupervisorAssumption DEF Counters, Places
<1>1. CASE ProbeExited
  BY <1>1 DEF ProbeExited
<1>2. CASE Reprobe
  BY <1>2 DEF Reprobe
<1>3. CASE ProbeHangs
  BY <1>3 DEF ProbeHangs, End
<1>4. CASE Listen
  BY <1>4 DEF Listen
<1>5. CASE StartFails
  BY <1>5 DEF StartFails, Ended
<1>6. CASE DaemonEnds
  BY <1>6 DEF DaemonEnds, End, Ended
<1>7. CASE DaemonExited
  BY <1>7 DEF DaemonExited
<1>8. CASE StreamFinished
  BY <1>8 DEF StreamFinished
<1>9. CASE Respawn
  BY <1>9 DEF Respawn
<1>10. CASE Toggle
  BY <1>10 DEF Toggle, End
<1>11. CASE OtherEnds
  BY <1>11 DEF OtherEnds
<1>12. CASE Build
  BY <1>12 DEF Build
<1>13. CASE UNCHANGED vars
  BY <1>13 DEF vars
<1> QED BY <1>1, <1>2, <1>3, <1>4, <1>5, <1>6, <1>7, <1>8, <1>9, <1>10, <1>11, <1>12, <1>13 DEF Next

\* The timers and what is around stay flags.
LEMMA NextFlags ==
    ASSUME Flags, [Next]_vars
    PROVE  Flags'
BY DEF Flags, Next, vars, ProbeExited, Reprobe, ProbeHangs, Listen, StartFails, DaemonEnds, Ended,
       End, DaemonExited, StreamFinished, Respawn, Toggle, OtherEnds, Build

\* Processes and events take only the forms the handlers know.
LEMMA NextPlaces ==
    ASSUME Places, [Next]_vars
    PROVE  Places'
BY DEF Places, Next, vars, ProbeExited, Reprobe, ProbeHangs, Listen, StartFails, DaemonEnds, Ended,
       End, DaemonExited, StreamFinished, Respawn, Toggle, OtherEnds, Build

\* Reasons and messages come from stderr or from the service.
LEMMA NextTexts ==
    ASSUME Texts, [Next]_vars
    PROVE  Texts'
BY DEF Texts, Reasons, Says, gaveUpMessage, Next, vars, ProbeExited, Reprobe, ProbeHangs, Listen,
       StartFails, DaemonEnds, Ended,
       End, DaemonExited, StreamFinished, Respawn, Toggle, OtherEnds, Build

----------------------------------------------------------------------------
(* The parts that say more than a type. *)

\* No probe is made once a daemon was started.
LEMMA NextProbing ==
    ASSUME Probing, Ending, Respawning, [Next]_vars
    PROVE  Probing'
<1> USE DEF Probing, Ending, Respawning, Over
<1>1. CASE ProbeExited
  BY <1>1 DEF ProbeExited
<1>2. CASE Reprobe
  BY <1>2 DEF Reprobe
<1>3. CASE ProbeHangs
  BY <1>3 DEF ProbeHangs
<1>4. CASE Listen
  BY <1>4 DEF Listen
<1>5. CASE StartFails
  BY <1>5 DEF StartFails, Ended
<1>6. CASE DaemonEnds
  BY <1>6 DEF DaemonEnds, Ended
<1>7. CASE DaemonExited
  BY <1>7 DEF DaemonExited
<1>8. CASE StreamFinished
  BY <1>8 DEF StreamFinished
<1>9. CASE Respawn
  BY <1>9 DEF Respawn
<1>10. CASE Toggle
  BY <1>10 DEF Toggle
<1>11. CASE OtherEnds
  BY <1>11 DEF OtherEnds
<1>12. CASE Build
  BY <1>12 DEF Build
<1>13. CASE UNCHANGED vars
  BY <1>13 DEF vars
<1> QED BY <1>1, <1>2, <1>3, <1>4, <1>5, <1>6, <1>7, <1>8, <1>9, <1>10, <1>11, <1>12, <1>13 DEF Next

\* A daemon is started only when the end of the last one was handled.
LEMMA NextEnding ==
    ASSUME Probing, Ending, Respawning, [Next]_vars
    PROVE  Ending'
<1> USE DEF Probing, Ending, Respawning, Over
<1>1. CASE ProbeExited
  BY <1>1 DEF ProbeExited
<1>2. CASE Reprobe
  BY <1>2 DEF Reprobe
<1>3. CASE ProbeHangs
  BY <1>3 DEF ProbeHangs
<1>4. CASE Listen
  BY <1>4 DEF Listen
<1>5. CASE StartFails
  BY <1>5 DEF StartFails, Ended
<1>6. CASE DaemonEnds
  BY <1>6 DEF DaemonEnds, Ended
<1>7. CASE DaemonExited
  BY <1>7 DEF DaemonExited
<1>8. CASE StreamFinished
  BY <1>8 DEF StreamFinished
<1>9. CASE Respawn
  BY <1>9 DEF Respawn
<1>10. CASE Toggle
  BY <1>10 DEF Toggle
<1>11. CASE OtherEnds
  BY <1>11 DEF OtherEnds
<1>12. CASE Build
  BY <1>12 DEF Build
<1>13. CASE UNCHANGED vars
  BY <1>13 DEF vars
<1> QED BY <1>1, <1>2, <1>3, <1>4, <1>5, <1>6, <1>7, <1>8, <1>9, <1>10, <1>11, <1>12, <1>13 DEF Next

\* Only the handling of a failure leaves a start pending.
LEMMA NextRespawning ==
    ASSUME Probing, Ending, Respawning, Places, [Next]_vars
    PROVE  Respawning'
<1> USE DEF Probing, Ending, Respawning, Places, Over
<1>1. CASE ProbeExited
  BY <1>1 DEF ProbeExited
<1>2. CASE Reprobe
  BY <1>2 DEF Reprobe
<1>3. CASE ProbeHangs
  BY <1>3 DEF ProbeHangs
<1>4. CASE Listen
  BY <1>4 DEF Listen
<1>5. CASE StartFails
  BY <1>5 DEF StartFails, Ended
<1>6. CASE DaemonEnds
  BY <1>6 DEF DaemonEnds, Ended
<1>7. CASE DaemonExited
  BY <1>7 DEF DaemonExited
<1>8. CASE StreamFinished
  BY <1>8 DEF StreamFinished
<1>9. CASE Respawn
  BY <1>9 DEF Respawn
<1>10. CASE Toggle
  BY <1>10 DEF Toggle
<1>11. CASE OtherEnds
  BY <1>11 DEF OtherEnds
<1>12. CASE Build
  BY <1>12 DEF Build
<1>13. CASE UNCHANGED vars
  BY <1>13 DEF vars
<1> QED BY <1>1, <1>2, <1>3, <1>4, <1>5, <1>6, <1>7, <1>8, <1>9, <1>10, <1>11, <1>12, <1>13 DEF Next

\* What stderr says is what the service last heard.
LEMMA NextHeard ==
    ASSUME Ending, Heard, Texts, [Next]_vars
    PROVE  Heard'
<1> USE DEF Ending, Heard, Over, Texts, Reasons
<1>1. CASE ProbeExited
  BY <1>1 DEF ProbeExited
<1>2. CASE Reprobe
  BY <1>2 DEF Reprobe
<1>3. CASE ProbeHangs
  BY <1>3 DEF ProbeHangs
<1>4. CASE Listen
  BY <1>4 DEF Listen
<1>5. CASE StartFails
  BY <1>5 DEF StartFails, Ended
<1>6. CASE DaemonEnds
  BY <1>6 DEF DaemonEnds, Ended
<1>7. CASE DaemonExited
  BY <1>7 DEF DaemonExited
<1>8. CASE StreamFinished
  BY <1>8 DEF StreamFinished
<1>9. CASE Respawn
  BY <1>9 DEF Respawn
<1>10. CASE Toggle
  BY <1>10 DEF Toggle
<1>11. CASE OtherEnds
  BY <1>11 DEF OtherEnds
<1>12. CASE Build
  BY <1>12 DEF Build
<1>13. CASE UNCHANGED vars
  BY <1>13 DEF vars
<1> QED BY <1>1, <1>2, <1>3, <1>4, <1>5, <1>6, <1>7, <1>8, <1>9, <1>10, <1>11, <1>12, <1>13 DEF Next

\* The message is written by whichever of the two handlers comes last.
LEMMA NextMessage ==
    ASSUME Counters, Probing, Ending, Respawning, Heard, Message, [Next]_vars
    PROVE  Message'
<1> USE DEF Counters, Probing, Ending, Respawning, Heard, Message, Over, gaveUpMessage
<1>1. CASE ProbeExited
  BY <1>1 DEF ProbeExited
<1>2. CASE Reprobe
  BY <1>2 DEF Reprobe
<1>3. CASE ProbeHangs
  BY <1>3 DEF ProbeHangs
<1>4. CASE Listen
  BY <1>4 DEF Listen
<1>5. CASE StartFails
  BY <1>5, SMTT(60) DEF StartFails, Ended
<1>6. CASE DaemonEnds
  BY <1>6 DEF DaemonEnds, Ended
<1>7. CASE DaemonExited
  BY <1>7 DEF DaemonExited
<1>8. CASE StreamFinished
  BY <1>8 DEF StreamFinished
<1>9. CASE Respawn
  BY <1>9 DEF Respawn
<1>10. CASE Toggle
  BY <1>10 DEF Toggle
<1>11. CASE OtherEnds
  BY <1>11 DEF OtherEnds
<1>12. CASE Build
  BY <1>12 DEF Build
<1>13. CASE UNCHANGED vars
  BY <1>13 DEF vars
<1> QED BY <1>1, <1>2, <1>3, <1>4, <1>5, <1>6, <1>7, <1>8, <1>9, <1>10, <1>11, <1>12, <1>13 DEF Next

----------------------------------------------------------------------------
\* The shell service starts with a probe under way and no daemon.
LEMMA InitIInv == Init => IInv
<1> SUFFICES ASSUME Init PROVE IInv
  OBVIOUS
<1>1. Counters
  BY SupervisorAssumption DEF Init, Counters
<1>2. Flags /\ Places
  BY DEF Init, Flags, Places
<1>3. Texts
  BY DEF Init, Texts, Reasons, Says
<1>4. Probing /\ Ending /\ Respawning /\ Heard /\ Message
  BY DEF Init, Probing, Ending, Respawning, Heard, Message, Over
<1> QED BY <1>1, <1>2, <1>3, <1>4, TypeParts DEF IInv

\* Every callback, timer and turn of the daemon keeps the invariant.
LEMMA NextIInv == IInv /\ [Next]_vars => IInv'
<1> SUFFICES ASSUME IInv, [Next]_vars PROVE IInv'
  OBVIOUS
<1>1. Counters /\ Flags /\ Places /\ Texts
  BY TypeParts DEF IInv
<1>2. (Counters /\ Flags /\ Places /\ Texts)'
  BY <1>1, NextCounters, NextFlags, NextPlaces, NextTexts
<1>3. TypeOK'
  BY <1>2 DEF TypeOK, Counters, Flags, Places, Texts
<1>4. Probing' /\ Ending' /\ Respawning'
  BY <1>1, NextProbing, NextEnding, NextRespawning DEF IInv
<1>5. Heard' /\ Message'
  BY <1>1, NextHeard, NextMessage DEF IInv
<1> QED BY <1>3, <1>4, <1>5 DEF IInv

\* The inductive invariant holds in every state the shell service reaches.
LEMMA SpecIInv == Spec => []IInv
BY InitIInv, NextIInv, PTL DEF Spec

----------------------------------------------------------------------------
\* Whatever happens in whatever order, the daemon is restarted at most maxRestarts
\* times between two toggles, and events and messages are those of the code.
THEOREM SupervisorTypes == Spec => []TypeOK
<1>1. IInv => TypeOK
  BY DEF IInv
<1> QED BY <1>1, SpecIInv, PTL

\* When the service has given up it says so with the cause, whichever of the exit
\* and the end of stderr is handled last.
THEOREM SupervisorGaveUp == Spec => []GaveUpSaysWhy
<1>1. IInv => GaveUpSaysWhy
  BY DEF IInv, Message, GaveUpSaysWhy, GivenUp, Over
<1> QED BY <1>1, SpecIInv, PTL

\* No probe, timer or late event starts a daemon that was stopped cleanly.
THEOREM SupervisorCleanStays == Spec => CleanStaysDown
<1>1. IInv' => (ended = "clean" /\ ended' = "clean" => daemon' = "off")
  BY DEF IInv, Respawning
<1>2. IInv /\ IInv' /\ [Next]_vars
        => [ended = "clean" /\ ended' = "clean" => daemon' = "off"]_vars
  BY <1>1
<1> QED BY <1>2, SpecIInv, PTL DEF Spec, CleanStaysDown

----------------------------------------------------------------------------
(* The panel. *)

\* A command about a site names it.
Named == cmd.op \in {"add", "remove"} => cmd.id \in Ids

\* A removal to be confirmed is the command under way, or was refused for it.
Waiting ==
    /\ misled => cmd.at # "off"
    /\ pendingRemoval # NoId =>
         misled \/ (cmd.at # "off" /\ cmd.op = "remove" /\ cmd.id = pendingRemoval)

PanelInv == PanelTypeOK /\ Named /\ Waiting /\ AskIsKept

\* The fields of the two helper processes.
Helpers ==
    /\ fetch \in [at : {"off", "asked", "answered"}, rows : SUBSET Ids, ok : BOOLEAN]
    /\ cmd \in [at : {"off", "asked", "answered"}, op : {"none", "refresh", "add", "remove", "other"},
                id : Ids \cup {NoId}, ok : BOOLEAN]
    /\ pendingRemoval \in Ids \cup {NoId}
    /\ fetchQueued => fetch.at # "off"
    /\ Named

Rows == sites \subseteq used /\ used \subseteq Ids /\ snap \in (SUBSET Ids) \cup {NoSnap}

Switches ==
    /\ {helper, up} \subseteq BOOLEAN
    /\ {fetchQueued, checking, helperProbe, helperMissing, due} \subseteq BOOLEAN
    /\ misled \in BOOLEAN

Counts ==
    /\ checkingTries \in 0..maxTries
    /\ asks \in 0..MaxAsks /\ changes \in 0..MaxChanges /\ flips \in 0..MaxFlips

\* The type invariant of the panel taken apart.
LEMMA PanelParts == PanelTypeOK /\ Named <=> Helpers /\ Rows /\ Switches /\ Counts
BY DEF PanelTypeOK, Helpers, Rows, Switches, Counts

\* What a step of the panel and of what is around it can be.
PanelStep == PanelNext \/ UNCHANGED panelVars

\* Clicks, changes and tries are counted up to their bounds.
LEMMA NextCounts ==
    ASSUME Counts, PanelStep
    PROVE  Counts'
<1> USE PanelAssumption DEF Counts
<1>1. CASE Poll /\ UNCHANGED <<world, sites, used>>
  BY <1>1 DEF Poll, world
<1>2. CASE refreshNow /\ UNCHANGED <<world, sites, used>>
  BY <1>2 DEF refreshNow, Ask, world
<1>3. CASE OtherCommand /\ UNCHANGED <<world, sites, used>>
  BY <1>3 DEF OtherCommand, Ask, world
<1>4. CASE CheckTick /\ UNCHANGED <<world, sites, used>>
  <2>1. checkingTries' \in 0..maxTries
    <3>1. \/ checkingTries' = 0
          \/ checkingTries # maxTries /\ checkingTries' = checkingTries + 1
      BY <1>4, Zenon DEF CheckTick
    <3>2. checkingTries \in 0..maxTries /\ maxTries \in Nat
      OBVIOUS
    <3> QED BY <3>1, <3>2
  <2> QED BY <1>4, <2>1 DEF CheckTick, world
<1>5. CASE (\E id \in Ids : removeSite(id)) /\ UNCHANGED <<world, sites, used>>
  BY <1>5 DEF removeSite, Ask, world
<1>6. CASE FetchAnswered /\ UNCHANGED <<world, sites, used>>
  BY <1>6 DEF FetchAnswered, world
<1>7. CASE FetchExited /\ UNCHANGED <<world, sites, used>>
  BY <1>7 DEF FetchExited, world
<1>8. CASE CmdExited /\ UNCHANGED <<world, sites, used>>
  BY <1>8 DEF CmdExited, world
<1>9. CASE HelperProbeExited /\ UNCHANGED <<world, sites, used>>
  BY <1>9 DEF HelperProbeExited, world
<1>10. CASE CmdAnswered /\ UNCHANGED world
  BY <1>10 DEF CmdAnswered, world
<1>11. CASE OtherChange /\ UNCHANGED panel
  BY <1>11 DEF OtherChange, panel
<1>12. CASE Flip /\ UNCHANGED panel
  BY <1>12 DEF Flip, panel
<1>13. CASE UNCHANGED panelVars
  BY <1>13 DEF panelVars, panel, world
<1> QED BY <1>1, <1>2, <1>3, <1>4, <1>5, <1>6, <1>7, <1>8, <1>9, <1>10, <1>11, <1>12, <1>13 DEF
       PanelStep, PanelNext, PanelActs, Handlers

\* Flags stay flags.
LEMMA NextSwitches ==
    ASSUME Switches, Helpers, PanelStep
    PROVE  Switches'
<1> USE DEF Switches, Helpers
<1>1. CASE Poll /\ UNCHANGED <<world, sites, used>>
  BY <1>1 DEF Poll, refresh, NoFetch, world
<1>2. CASE refreshNow /\ UNCHANGED <<world, sites, used>>
  BY <1>2 DEF refreshNow, Ask, refresh, NoFetch, world
<1>3. CASE OtherCommand /\ UNCHANGED <<world, sites, used>>
  BY <1>3 DEF OtherCommand, Ask, world
<1>4. CASE CheckTick /\ UNCHANGED <<world, sites, used>>
  BY <1>4 DEF CheckTick, refresh, NoFetch, world
<1>5. CASE (\E id \in Ids : removeSite(id)) /\ UNCHANGED <<world, sites, used>>
  BY <1>5 DEF removeSite, Ask, world
<1>6. CASE FetchAnswered /\ UNCHANGED <<world, sites, used>>
  BY <1>6 DEF FetchAnswered, world
<1>7. CASE FetchExited /\ UNCHANGED <<world, sites, used>>
  BY <1>7 DEF FetchExited, NoFetch, world
<1>8. CASE CmdExited /\ UNCHANGED <<world, sites, used>>
  BY <1>8 DEF CmdExited, refresh, NoFetch, world
<1>9. CASE HelperProbeExited /\ UNCHANGED <<world, sites, used>>
  BY <1>9 DEF HelperProbeExited, world
<1>10. CASE CmdAnswered /\ UNCHANGED world
  BY <1>10 DEF CmdAnswered, world
<1>11. CASE OtherChange /\ UNCHANGED panel
  BY <1>11 DEF OtherChange, panel
<1>12. CASE Flip /\ UNCHANGED panel
  BY <1>12 DEF Flip, panel
<1>13. CASE UNCHANGED panelVars
  BY <1>13 DEF panelVars, panel, world
<1> QED BY <1>1, <1>2, <1>3, <1>4, <1>5, <1>6, <1>7, <1>8, <1>9, <1>10, <1>11, <1>12, <1>13 DEF
       PanelStep, PanelNext, PanelActs, Handlers

\* The helper processes keep their forms, and a command its site.
LEMMA NextHelpers ==
    ASSUME Helpers, Rows, Switches, PanelStep
    PROVE  Helpers'
<1> USE DEF Helpers, Named, Rows, Switches, Answers
<1>1. CASE Poll /\ UNCHANGED <<world, sites, used>>
  BY <1>1 DEF Poll, refresh, NoFetch, world
<1>2. CASE refreshNow /\ UNCHANGED <<world, sites, used>>
  BY <1>2 DEF refreshNow, Ask, refresh, NoFetch, Send, NoCmd, world
<1>3. CASE OtherCommand /\ UNCHANGED <<world, sites, used>>
  BY <1>3 DEF OtherCommand, Ask, Send, NoCmd, control, world
<1>4. CASE CheckTick /\ UNCHANGED <<world, sites, used>>
  BY <1>4 DEF CheckTick, refresh, NoFetch, world
<1>5. CASE (\E id \in Ids : removeSite(id)) /\ UNCHANGED <<world, sites, used>>
  <2>1. PICK id \in Ids : removeSite(id)
    BY <1>5
  <2>2. CASE cmd.at = "off"
    BY <2>1, <2>2 DEF removeSite, control, Send, NoCmd
  <2>3. CASE cmd.at # "off"
    BY <2>1, <2>3 DEF removeSite, control
  <2> QED BY <2>2, <2>3
<1>6. CASE FetchAnswered /\ UNCHANGED <<world, sites, used>>
  <2>1. PICK ok \in {Answers, FALSE} :
          fetch' = [at |-> "answered", rows |-> IF ok THEN sites ELSE {}, ok |-> ok]
    BY <1>6 DEF FetchAnswered
  <2>2. ok \in BOOLEAN /\ sites \in SUBSET Ids
    OBVIOUS
  <2>3. UNCHANGED <<cmd, pendingRemoval, fetchQueued>>
    BY <1>6 DEF FetchAnswered
  <2> QED BY <2>1, <2>2, <2>3
<1>7. CASE FetchExited /\ UNCHANGED <<world, sites, used>>
  BY <1>7 DEF FetchExited, NoFetch, world
<1>8. CASE CmdExited /\ UNCHANGED <<world, sites, used>>
  BY <1>8 DEF CmdExited, refresh, NoFetch, NoCmd, world
<1>9. CASE HelperProbeExited /\ UNCHANGED <<world, sites, used>>
  BY <1>9 DEF HelperProbeExited, world
<1>10. CASE CmdAnswered /\ UNCHANGED world
  BY <1>10 DEF CmdAnswered, world
<1>11. CASE OtherChange /\ UNCHANGED panel
  BY <1>11 DEF OtherChange, panel
<1>12. CASE Flip /\ UNCHANGED panel
  BY <1>12 DEF Flip, panel
<1>13. CASE UNCHANGED panelVars
  BY <1>13 DEF panelVars, panel, world
<1> QED BY <1>1, <1>2, <1>3, <1>4, <1>5, <1>6, <1>7, <1>8, <1>9, <1>10, <1>11, <1>12, <1>13 DEF
       PanelStep, PanelNext, PanelActs, Handlers

\* Only sites that were minted are in the daemon, and only ids in the rows.
LEMMA NextRows ==
    ASSUME Helpers, Rows, PanelStep
    PROVE  Rows'
<1> USE DEF Helpers, Named, Rows
<1>1. CASE Poll /\ UNCHANGED <<world, sites, used>>
  BY <1>1 DEF Poll, world
<1>2. CASE refreshNow /\ UNCHANGED <<world, sites, used>>
  BY <1>2 DEF refreshNow, Ask, world
<1>3. CASE OtherCommand /\ UNCHANGED <<world, sites, used>>
  BY <1>3 DEF OtherCommand, Ask, world
<1>4. CASE CheckTick /\ UNCHANGED <<world, sites, used>>
  BY <1>4 DEF CheckTick, world
<1>5. CASE (\E id \in Ids : removeSite(id)) /\ UNCHANGED <<world, sites, used>>
  BY <1>5 DEF removeSite, Ask, world
<1>6. CASE FetchAnswered /\ UNCHANGED <<world, sites, used>>
  BY <1>6 DEF FetchAnswered, world
<1>7. CASE FetchExited /\ UNCHANGED <<world, sites, used>>
  BY <1>7 DEF FetchExited, world
<1>8. CASE CmdExited /\ UNCHANGED <<world, sites, used>>
  BY <1>8 DEF CmdExited, dropRow, world
<1>9. CASE HelperProbeExited /\ UNCHANGED <<world, sites, used>>
  <2>1. snap' = snap \/ snap' = NoSnap
    BY <1>9 DEF HelperProbeExited
  <2>2. UNCHANGED <<sites, used>>
    BY <1>9
  <2> QED BY <2>1, <2>2 DEF NoSnap
<1>10. CASE CmdAnswered /\ UNCHANGED world
  BY <1>10 DEF CmdAnswered, world
<1>11. CASE OtherChange /\ UNCHANGED panel
  BY <1>11 DEF OtherChange, panel
<1>12. CASE Flip /\ UNCHANGED panel
  BY <1>12 DEF Flip, panel
<1>13. CASE UNCHANGED panelVars
  BY <1>13 DEF panelVars, panel, world
<1> QED BY <1>1, <1>2, <1>3, <1>4, <1>5, <1>6, <1>7, <1>8, <1>9, <1>10, <1>11, <1>12, <1>13 DEF
       PanelStep, PanelNext, PanelActs, Handlers

\* A removal waits for its own command, or was refused for another.
LEMMA NextWaiting ==
    ASSUME Helpers, Waiting, PanelStep
    PROVE  Waiting'
<1> USE DEF Helpers, Waiting
<1>1. CASE Poll /\ UNCHANGED <<world, sites, used>>
  BY <1>1 DEF Poll, world
<1>2. CASE refreshNow /\ UNCHANGED <<world, sites, used>>
  BY <1>2 DEF refreshNow, Ask, Send, NoCmd, world
<1>3. CASE OtherCommand /\ UNCHANGED <<world, sites, used>>
  BY <1>3 DEF OtherCommand, Ask, Send, NoCmd, control, world
<1>4. CASE CheckTick /\ UNCHANGED <<world, sites, used>>
  BY <1>4 DEF CheckTick, world
<1>5. CASE (\E id \in Ids : removeSite(id)) /\ UNCHANGED <<world, sites, used>>
  <2>1. PICK id \in Ids : removeSite(id)
    BY <1>5
  <2>2. CASE cmd.at = "off"
    BY <2>1, <2>2 DEF removeSite, control, Send, NoCmd
  <2>3. CASE cmd.at # "off"
    BY <2>1, <2>3 DEF removeSite, control
  <2> QED BY <2>2, <2>3
<1>6. CASE FetchAnswered /\ UNCHANGED <<world, sites, used>>
  BY <1>6 DEF FetchAnswered, world
<1>7. CASE FetchExited /\ UNCHANGED <<world, sites, used>>
  BY <1>7 DEF FetchExited, world
<1>8. CASE CmdExited /\ UNCHANGED <<world, sites, used>>
  BY <1>8 DEF CmdExited, NoCmd, world
<1>9. CASE HelperProbeExited /\ UNCHANGED <<world, sites, used>>
  BY <1>9 DEF HelperProbeExited, world
<1>10. CASE CmdAnswered /\ UNCHANGED world
  BY <1>10 DEF CmdAnswered, world
<1>11. CASE OtherChange /\ UNCHANGED panel
  BY <1>11 DEF OtherChange, panel
<1>12. CASE Flip /\ UNCHANGED panel
  BY <1>12 DEF Flip, panel
<1>13. CASE UNCHANGED panelVars
  BY <1>13 DEF panelVars, panel, world
<1> QED BY <1>1, <1>2, <1>3, <1>4, <1>5, <1>6, <1>7, <1>8, <1>9, <1>10, <1>11, <1>12, <1>13 DEF
       PanelStep, PanelNext, PanelActs, Handlers

\* After a command a fetch is under way or queued.
LEMMA NextAsk ==
    ASSUME Helpers, AskIsKept, PanelStep
    PROVE  AskIsKept'
<1> USE DEF Helpers, AskIsKept
<1>1. CASE Poll /\ UNCHANGED <<world, sites, used>>
  BY <1>1 DEF Poll, refresh, NoFetch, world
<1>2. CASE refreshNow /\ UNCHANGED <<world, sites, used>>
  BY <1>2 DEF refreshNow, Ask, refresh, NoFetch, world
<1>3. CASE OtherCommand /\ UNCHANGED <<world, sites, used>>
  BY <1>3 DEF OtherCommand, Ask, world
<1>4. CASE CheckTick /\ UNCHANGED <<world, sites, used>>
  BY <1>4 DEF CheckTick, refresh, NoFetch, world
<1>5. CASE (\E id \in Ids : removeSite(id)) /\ UNCHANGED <<world, sites, used>>
  BY <1>5 DEF removeSite, Ask, world
<1>6. CASE FetchAnswered /\ UNCHANGED <<world, sites, used>>
  BY <1>6 DEF FetchAnswered, world
<1>7. CASE FetchExited /\ UNCHANGED <<world, sites, used>>
  BY <1>7 DEF FetchExited, NoFetch, world
<1>8. CASE CmdExited /\ UNCHANGED <<world, sites, used>>
  BY <1>8 DEF CmdExited, refresh, NoFetch, world
<1>9. CASE HelperProbeExited /\ UNCHANGED <<world, sites, used>>
  BY <1>9 DEF HelperProbeExited, world
<1>10. CASE CmdAnswered /\ UNCHANGED world
  BY <1>10 DEF CmdAnswered, world
<1>11. CASE OtherChange /\ UNCHANGED panel
  BY <1>11 DEF OtherChange, panel
<1>12. CASE Flip /\ UNCHANGED panel
  BY <1>12 DEF Flip, panel
<1>13. CASE UNCHANGED panelVars
  BY <1>13 DEF panelVars, panel, world
<1> QED BY <1>1, <1>2, <1>3, <1>4, <1>5, <1>6, <1>7, <1>8, <1>9, <1>10, <1>11, <1>12, <1>13 DEF
       PanelStep, PanelNext, PanelActs, Handlers

----------------------------------------------------------------------------
\* The panel starts with its first fetch under way and nothing to remove.
LEMMA InitPanelInv == PanelInit => PanelInv
<1> SUFFICES ASSUME PanelInit PROVE PanelInv
  OBVIOUS
<1>1. Helpers
  BY DEF PanelInit, NoFetch, NoCmd, Helpers, Named
<1>2. Rows
  BY DEF PanelInit, Rows
<1>3. Switches
  BY DEF PanelInit, Switches
<1>4. Counts
  BY PanelAssumption DEF PanelInit, Counts
<1>5. Waiting /\ AskIsKept
  BY DEF PanelInit, Waiting, AskIsKept
<1> QED BY <1>1, <1>2, <1>3, <1>4, <1>5, PanelParts DEF PanelInv

\* Every handler, timer, click and change by others keeps the invariant.
LEMMA NextPanelInv == PanelInv /\ [PanelNext]_panelVars => PanelInv'
<1> SUFFICES ASSUME PanelInv, PanelStep PROVE PanelInv'
  BY DEF PanelStep
<1>1. Helpers /\ Rows /\ Switches /\ Counts /\ Waiting /\ AskIsKept
  BY PanelParts DEF PanelInv
<1>2. Helpers' /\ Rows' /\ Switches' /\ Counts'
  BY <1>1, NextHelpers, NextRows, NextSwitches, NextCounts
<1>3. PanelTypeOK' /\ Named'
  BY <1>2 DEF PanelTypeOK, Helpers, Rows, Switches, Counts
<1>4. Waiting' /\ AskIsKept'
  BY <1>1, NextWaiting, NextAsk
<1> QED BY <1>3, <1>4 DEF PanelInv

\* The inductive invariant holds in every state the panel reaches.
LEMMA SpecPanelInv == PanelSpec => []PanelInv
BY InitPanelInv, NextPanelInv, PTL DEF PanelSpec

----------------------------------------------------------------------------
\* Whatever answers come when, the panel's processes, rows and counters take only
\* the forms the handlers know: nothing is queued behind a fetch that does not run,
\* and tries never pass maxTries.
THEOREM PanelTypes == PanelSpec => []PanelTypeOK
<1>1. PanelInv => PanelTypeOK
  BY DEF PanelInv
<1> QED BY <1>1, SpecPanelInv, PTL

\* A status asked for after a command is never lost, whatever fetch was under way
\* when it was asked for.
THEOREM PanelKeepsAsk == PanelSpec => []AskIsKept
<1>1. PanelInv => AskIsKept
  BY DEF PanelInv
<1> QED BY <1>1, SpecPanelInv, PTL

\* No row goes without a status that lacks it or a confirmed removal, but for a
\* removal that was refused for the command under way.
THEOREM PanelRowsGoForCause == PanelSpec => RowGoesForCause
<1> DEFINE Cause == \A id \in Ids :
         snap # NoSnap /\ id \in snap /\ snap' # NoSnap /\ id \notin snap' =>
            \/ fetch.ok /\ id \notin fetch.rows
            \/ cmd.ok /\ cmd.op = "remove" /\ cmd.id = id
            \/ misled
<1>1. PanelInv /\ [PanelNext]_panelVars => Cause
  <2> SUFFICES ASSUME PanelInv, PanelStep, NEW id \in Ids,
                      snap # NoSnap, id \in snap, snap' # NoSnap, id \notin snap'
               PROVE  \/ fetch.ok /\ id \notin fetch.rows
                      \/ cmd.ok /\ cmd.op = "remove" /\ cmd.id = id
                      \/ misled
    BY DEF PanelStep
  <2>1. FetchExited \/ CmdExited \/ HelperProbeExited
    BY DEF PanelStep, PanelNext, PanelActs, Handlers, Poll, refreshNow, OtherCommand, CheckTick,
           removeSite, FetchAnswered, CmdAnswered, panelVars, panel
  <2>2. CASE FetchExited
    BY <2>2 DEF FetchExited
  <2>3. CASE CmdExited
    <3>1. cmd.ok /\ pendingRemoval # NoId /\ id = pendingRemoval
      BY <2>3 DEF CmdExited, dropRow
    <3> QED BY <3>1 DEF PanelInv, Waiting
  <2>4. CASE HelperProbeExited
    BY <2>4 DEF HelperProbeExited
  <2> QED BY <2>1, <2>2, <2>3, <2>4
<1>2. PanelInv /\ [PanelNext]_panelVars => [Cause]_panelVars
  BY <1>1
<1> QED BY <1>2, SpecPanelInv, PTL DEF PanelSpec, RowGoesForCause
=============================================================================
