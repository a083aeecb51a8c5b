-------------------------------- MODULE Engine --------------------------------
(***************************************************************************)
(* The alert engine (alerts/engine.go) around the evaluation of one watch  *)
(* (Evaluate): the goroutine that makes the passes, the requests that arm, *)
(* edit and disarm watches meanwhile, the file triggers.json, and the end  *)
(* of the process at any point of a pass.                                  *)
(*                                                                         *)
(* A request holds e.mu to the end of its save and is one step.  A pass    *)
(* holds it to evaluate, again to record each delivery and again to save,  *)
(* and holds nothing while an alarm is delivered, which takes up to a      *)
(* minute; these are its steps.  Snapshots come from the monitor and are   *)
(* arbitrary here.  No watch expires: Watch covers time.                   *)
(*                                                                         *)
(* The variables after disk's are history.                                 *)
(***************************************************************************)
EXTENDS Evaluate, Sequences, Functions

CONSTANTS
    Ids,          \* trigger ids, numbered in the order of arming
    Watches,      \* the terms clients arm and edit to
    InitWatches,  \* those in triggers.json at first start: id -> terms
    Worlds,       \* the snapshots the monitor gives
    MaxPasses,    \* passes of the engine
    MaxRequests,  \* requests of clients
    MaxFaults     \* ends of the process and failed writes of triggers.json

Now == 1

ASSUME EngineAssumption ==
    /\ Ids \subseteq Nat
    /\ DOMAIN InitWatches \subseteq Ids /\ IsFiniteSet(DOMAIN InitWatches)
    /\ \A id \in DOMAIN InitWatches : InitWatches[id] \in Watches
    /\ Watches \subseteq {w \in Terms : w.expiresAt >= Now}
    /\ Worlds \subseteq Samples
    /\ {MaxPasses, MaxRequests, MaxFaults} \subseteq Nat

VARIABLES
    triggers,    \* e.store.Triggers: id -> [w, rev, st]
    disk,        \* triggers.json: the same
    monitoring,  \* Store.Monitoring, behind awake()
    at,          \* where the pass is
    snap,        \* the snapshot it folds
    queue,       \* the alarms it has still to deliver
    failing,     \* how the delivery being recorded went
    passes, requests, faults,
    minted,      \* ids ever given out
    rung,        \* alarms fired since the process started
    tried,       \* alarms delivered, or not for all that was tried
    folded,      \* the samples each live revision has folded: id -> set
    told,        \* <<id, rev>> with a delivery recorded as done
    settled,     \* told, as of the last write of triggers.json
    missed,      \* the last write of triggers.json failed
    early,       \* <<id, rev>> a request saved before their alarm was delivered
    said         \* the last answer about a watch: its revision, 0 when gone

memory == <<triggers, at, snap, queue, failing, rung>>
history == <<tried, folded, told, settled, missed, early, said>>
counters == <<passes, requests, faults, minted>>
vars == <<memory, disk, monitoring, counters, history>>

Trigger == [w : Watches, rev : Nat \ {0}, st : States]
Alarm == [id : Ids, rev : Nat \ {0}, entry : Sites \cup {0}, pass : Nat \ {0}]

IsMap(f, S) == DOMAIN f \subseteq Ids /\ f \in [DOMAIN f -> S]
Put(f, id, v) == [x \in DOMAIN f \cup {id} |-> IF x = id THEN v ELSE f[x]]
Without(f, id) == [x \in DOMAIN f \ {id} |-> f[x]]

TypeOK ==
    /\ IsMap(triggers, Trigger)
    /\ IsMap(disk, Trigger)
    /\ monitoring \in BOOLEAN
    /\ at \in {"idle", "fold", "deliver", "record", "save"}
    /\ snap \in Worlds
    /\ queue \in Seq(Alarm)
    /\ failing \in BOOLEAN
    /\ passes \in 0..MaxPasses
    /\ requests \in 0..MaxRequests
    /\ faults \in 0..MaxFaults
    /\ minted \subseteq Ids
    /\ rung \subseteq Alarm
    /\ tried \subseteq Alarm
    /\ IsMap(folded, SUBSET Worlds)
    /\ settled \subseteq Ids \X Nat /\ told \subseteq Ids \X Nat
    /\ missed \in BOOLEAN
    /\ early \subseteq Ids \X Nat
    /\ IsMap(said, [sure : BOOLEAN, rev : Nat])

Init ==
    /\ triggers = [id \in DOMAIN InitWatches |-> [w |-> InitWatches[id], rev |-> 1, st |-> NewState]]
    /\ disk = triggers
    /\ monitoring = TRUE
    /\ at = "idle"
    /\ snap \in Worlds
    /\ queue = <<>>
    /\ failing = FALSE
    /\ passes = 0 /\ requests = 0 /\ faults = 0
    /\ minted = DOMAIN InitWatches
    /\ rung = {} /\ tried = {}
    /\ folded = [id \in DOMAIN InitWatches |-> {}]
    /\ told = {} /\ settled = {}
    /\ missed = FALSE
    /\ early = {}
    /\ said = <<>>

----------------------------------------------------------------------------
(* Writing triggers.json: whole and atomic, or not at all. *)

Written(ts) ==
    /\ disk' = ts
    /\ settled' = told
    /\ missed' = FALSE
    /\ UNCHANGED faults

NotWritten ==
    /\ faults < MaxFaults
    /\ faults' = faults + 1
    /\ missed' = TRUE
    /\ UNCHANGED <<disk, settled>>

----------------------------------------------------------------------------
(* The pass. *)

\* Pass to its sample: asleep means no pass.
Wake ==
    /\ at = "idle"
    /\ monitoring
    /\ passes < MaxPasses
    /\ passes' = passes + 1
    /\ snap' \in Worlds
    /\ at' = "fold"
    /\ UNCHANGED <<triggers, queue, failing, rung, disk, monitoring, requests, faults,
                   minted, history>>

\* Variant: only an alarm makes a pass worth saving.
sameStateByCount(a, b) == a.fireCount = b.fireCount

\* Everything but AwaySince, which moves with the text.
sameState(a, b) ==
    /\ a.primed = b.primed /\ a.ready = b.ready
    /\ a.fireCount = b.fireCount
    /\ a.number = b.number /\ a.text = b.text
    /\ a.seen = b.seen

Before(a, b) == a.id < b.id \/ (a.id = b.id /\ a.entry < b.entry)

\* The alarms of a pass, as a list in that order.
InOrder(alarms) ==
    CHOOSE q \in [1..Cardinality(alarms) -> alarms] :
        \A i, j \in DOMAIN q : i < j => Before(q[i], q[j])

\* Every trigger folds the snapshot; the alarms queue up in order.
FoldAll ==
    /\ at = "fold"
    /\ LET f       == [id \in DOMAIN triggers |->
                         Fold(triggers[id].w, triggers[id].st, snap, Now)]
           alarms  == UNION {{[id |-> id, rev |-> triggers[id].rev, entry |-> e, pass |-> passes] :
                                e \in f[id].fires} : id \in DOMAIN triggers}
           changed == \/ alarms # {}
                      \/ \E id \in DOMAIN triggers : ~sameState(triggers[id].st, f[id].st)
       IN  /\ triggers' = [id \in DOMAIN triggers |-> [triggers[id] EXCEPT !.st = f[id].st]]
           /\ queue' = InOrder(alarms)
           /\ rung' = rung \cup alarms
           /\ at' = IF alarms # {} THEN "deliver" ELSE IF changed THEN "save" ELSE "idle"
    /\ folded' = [id \in DOMAIN triggers |-> folded[id] \cup {snap}]
    /\ UNCHANGED <<snap, failing, disk, monitoring, counters,
                   tried, told, settled, missed, early, said>>

\* Variant: an alarm of a watch that is gone by now is dropped.
DeliverLive ==
    /\ at = "deliver"
    /\ at' = "record"
    /\ failing' \in BOOLEAN
    /\ tried' = IF Head(queue).id \in DOMAIN triggers THEN tried \cup {Head(queue)} ELSE tried
    /\ UNCHANGED <<triggers, snap, queue, rung, disk, monitoring, counters,
                   folded, told, settled, missed, early, said>>

\* dispatch, outside the lock: the watch was copied when it fired.
Deliver ==
    /\ at = "deliver"
    /\ at' = "record"
    /\ failing' \in BOOLEAN
    /\ tried' = tried \cup {Head(queue)}
    /\ UNCHANGED <<triggers, snap, queue, rung, disk, monitoring, counters,
                   folded, told, settled, missed, early, said>>

\* Variant: an alarm that failed stays in the queue.
RecordRetries ==
    /\ at = "record"
    /\ queue' = IF failing THEN queue ELSE Tail(queue)
    /\ at' = IF queue' = <<>> THEN "save" ELSE "deliver"
    /\ failing' = FALSE
    /\ UNCHANGED <<triggers, snap, rung, disk, monitoring, counters, history>>

\* dispatch, the lock taken again: the trigger is looked up by its id alone.
Record ==
    /\ at = "record"
    /\ LET a == Head(queue)
       IN  /\ triggers' = IF a.id \in DOMAIN triggers
                          THEN [triggers EXCEPT ![a.id].st.deliveryError = failing]
                          ELSE triggers
           /\ told' = IF failing THEN told ELSE told \cup {<<a.id, a.rev>>}
    /\ queue' = Tail(queue)
    /\ at' = IF queue' = <<>> THEN "save" ELSE "deliver"
    /\ failing' = FALSE
    /\ UNCHANGED <<snap, rung, disk, monitoring, counters,
                   tried, folded, settled, missed, early, said>>

\* A pass logs that it could not save, and ends.
SavePass ==
    /\ at = "save"
    /\ at' = "idle"
    /\ Written(triggers) \/ NotWritten
    /\ UNCHANGED <<triggers, snap, queue, failing, rung, monitoring, passes, requests, minted,
                   tried, folded, told, early, said>>

----------------------------------------------------------------------------
(* Requests, at any point of a pass. *)

Request ==
    /\ requests < MaxRequests
    /\ requests' = requests + 1
    /\ UNCHANGED <<at, snap, queue, failing, rung, passes, tried, told>>

\* Save after a request: an error is the answer, but the memory is not undone.
\* What a pass under way has folded is saved with it.
Answer(id, rev) ==
    \/ /\ Written(triggers')
       /\ said' = Put(said, id, [sure |-> TRUE, rev |-> rev])
       /\ early' = early \cup {<<a.id, a.rev>> : a \in Range(queue)}
    \/ /\ NotWritten
       /\ said' = Put(said, id, [sure |-> FALSE, rev |-> rev])
       /\ UNCHANGED early

\* The same watch, whoever it is for and however long.
Alike(v, w) ==
    [v EXCEPT !.standing = w.standing, !.expiresAt = w.expiresAt] = w

\* Store.Duplicate.  Params holds the bounds as pointers, and != on two of them
\* compares where they point, so no bounded watch ever equals another.
Duplicate(w) ==
    \E id \in DOMAIN triggers :
        /\ Alike(triggers[id].w, w)
        /\ w.op \notin {"crosses", "count"}

Arm ==
    /\ Request
    /\ \E w \in Watches, id \in Ids :
        /\ ~Duplicate(w)
        /\ id \notin minted /\ \A other \in Ids : other < id => other \in minted
        /\ minted' = minted \cup {id}
        /\ triggers' = Put(triggers, id, [w |-> w, rev |-> 1, st |-> NewState])
        /\ folded' = Put(folded, id, {})
        /\ Answer(id, 1)
    /\ UNCHANGED monitoring

\* Variant that counts the revisions down.
EditedRevDown(t, w) == [w |-> w, rev |-> t.rev - 1, st |-> NewState]

\* Variant: what the watch had learned survives the edit.
EditedKeepsState(t, w) == [w |-> w, rev |-> t.rev + 1, st |-> t.st]

\* New terms, the next revision, nothing learned.
Edited(t, w) == [w |-> w, rev |-> t.rev + 1, st |-> NewState]

Edit ==
    /\ Request
    /\ \E id \in DOMAIN triggers, w \in Watches :
        /\ triggers' = [triggers EXCEPT ![id] = Edited(@, w)]
        /\ folded' = [folded EXCEPT ![id] = {}]
        /\ Answer(id, triggers[id].rev + 1)
    /\ UNCHANGED <<monitoring, minted>>

\* Variant: it is left to the next pass to save.
DisarmUnsaved ==
    /\ Request
    /\ \E id \in DOMAIN triggers :
        /\ triggers' = Without(triggers, id)
        /\ folded' = Without(folded, id)
        /\ said' = Put(said, id, [sure |-> TRUE, rev |-> 0])
    /\ UNCHANGED <<monitoring, minted, faults, disk, settled, missed, early>>

Disarm ==
    /\ Request
    /\ \E id \in DOMAIN triggers :
        /\ triggers' = Without(triggers, id)
        /\ folded' = Without(folded, id)
        /\ Answer(id, 0)
    /\ UNCHANGED <<monitoring, minted>>

\* POST /api/monitoring, which the engine is not told of.
SetMonitoring ==
    /\ Request
    /\ monitoring' = ~monitoring
    /\ UNCHANGED <<triggers, disk, faults, minted, folded, settled, missed, early, said>>

\* The process ends, killed or stopped, wherever the pass is, and starts again.
Restart ==
    /\ faults < MaxFaults
    /\ faults' = faults + 1
    /\ triggers' = disk
    /\ at' = "idle"
    /\ queue' = <<>>
    /\ failing' = FALSE
    /\ rung' = {}
    /\ told' = settled
    /\ missed' = FALSE
    /\ folded' = [id \in DOMAIN disk |->
                    IF id \in DOMAIN folded /\ triggers[id].rev = disk[id].rev
                    THEN folded[id] ELSE Worlds]
    /\ UNCHANGED <<snap, disk, monitoring, passes, requests, minted, tried, settled, early, said>>

Step == Wake \/ FoldAll \/ Deliver \/ Record \/ SavePass

Next == Step \/ Arm \/ Edit \/ Disarm \/ SetMonitoring \/ Restart

Spec == Init /\ [][Next]_vars

\* The ticker fires, and a delivery is bounded by its deadlines.
FairSpec == Spec /\ WF_vars(Step)

----------------------------------------------------------------------------
\* Between passes triggers.json holds what the engine holds, whatever requests
\* came in the middle of the last pass, unless its last write failed.
AtRestPersisted == at = "idle" /\ ~missed => disk = triggers

\* No alarm is lost.  A pass that ended tried all of its own, though a watch was
\* edited or disarmed, monitoring switched off or another alarm failed meanwhile.
\* And what triggers.json counts as fired was tried, so that a process that ends
\* before a delivery rings again -- unless a request saved it in the meantime.
AlarmsTried ==
    /\ at = "idle" => rung \subseteq tried
    /\ \A id \in DOMAIN disk :
         LET here == {a \in tried : a.id = id /\ a.rev = disk[id].rev}
         IN  <<id, disk[id].rev>> \in early \/ disk[id].st.fireCount <= Cardinality(here)

\* What a client was told stays so: an armed or edited watch is there at the
\* revision named, a disarmed one does not come back, across every pass,
\* failure of the file and restart that follows.
AnswersStick ==
    \A id \in DOMAIN said :
        said[id].sure =>
            IF said[id].rev = 0 THEN id \notin DOMAIN triggers
            ELSE id \in DOMAIN triggers /\ triggers[id].rev = said[id].rev

\* The sample `after` has what the watch w waits for and `before` has not.
Happened(w, before, after) ==
    LET b == Reading(w, before)
        a == Reading(w, after)
    IN  CASE w.op \in {"crosses", "count"} -> ~Past(w, b) /\ Past(w, a)
          [] w.op = "becomes"              -> b # w.value /\ a = w.value
          [] w.op = "appears"              -> (a \ b) \cap w.where # {}
          [] w.op = "disappears"           -> (b \ a) \cap w.where # {}

\* A watch rings for what happened since it was armed or last edited: the same
\* revision has folded a sample in which it had not (Edit's comment: "the next
\* sample sets a new baseline").
BaselineFirst ==
    [][\A a \in rung' \ rung :
         \E before \in folded[a.id] : Happened(triggers[a.id].w, before, snap)]_vars

\* A one-shot whose alarm is recorded as delivered rings no more, as long as
\* that record was written before the process ended.
OneShotOver ==
    [][\A a \in rung' \ rung :
         triggers[a.id].w.standing \/ <<a.id, a.rev>> \notin told]_vars

\* A pass comes to an end.
PassEnds == at # "idle" ~> at = "idle"
=============================================================================
