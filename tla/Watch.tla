-------------------------------- MODULE Watch --------------------------------
(***************************************************************************)
(* One armed watch from arming to the end of time: the passes of the alert *)
(* engine fold one sample after another through it (Evaluate), the alarm   *)
(* of a pass is delivered or fails to be before the next pass, and the     *)
(* world moves as it likes between them.  The engine around it, with its   *)
(* store, its edits and its crashes, is Engine.                            *)
(*                                                                         *)
(* fires is what the last pass rang.  The variables after it are history:  *)
(* what a person reading the samples over the engine's shoulder would      *)
(* remember, computed without the trigger's state.                         *)
(***************************************************************************)
EXTENDS Evaluate

CONSTANTS
    Watches,    \* the terms a watch can be armed on
    Worlds,     \* the samples the world can give
    Horizon     \* the last instant

ASSUME WatchAssumption ==
    /\ Watches \subseteq Terms
    /\ Worlds \subseteq Samples
    /\ Horizon \in Nat \ {0}

VARIABLES
    w,          \* the terms
    st,         \* the trigger's State
    now,        \* the clock
    fires,      \* what the last pass rang
    pending,    \* an alarm is being delivered
    last,       \* the last evaluated sample, or none
    backed,     \* since the last alarm, a sample was clearly back
    left,       \* when the value last left its target, after the last alarm
    rungAt,     \* when it last rang
    failed      \* some delivery failed

vars == <<w, st, now, fires, pending, last, backed, left, rungAt, failed>>

NoSample == [watched |-> {}, down |-> {}, cert |-> {}, localFault |-> FALSE, none |-> TRUE]

Init ==
    /\ w \in Watches
    /\ st = NewState
    /\ now = 1
    /\ fires = {}
    /\ pending = FALSE
    /\ last = NoSample
    /\ backed = FALSE
    /\ left = NoTime
    /\ rungAt = NoTime
    /\ failed = FALSE

IsNumeric == w.op \in {"crosses", "count"}

\* One pass over one sample; the next is a tick later.
Pass ==
    /\ ~pending
    /\ now < Horizon
    /\ now' = now + 1
    /\ \E s \in Worlds :
         LET r      == Fold(w, st, s, now)
             looked == ~Spent(w, st, now)
             rang   == r.fires # {}
         IN  /\ st' = r.st
             /\ fires' = r.fires
             /\ pending' = rang
             /\ last' = IF looked THEN s ELSE last
             /\ backed' = IF rang THEN FALSE
                          ELSE backed \/ (looked /\ IsNumeric /\ Back(w, Reading(w, s)))
             /\ left' = IF rang THEN NoTime
                        ELSE IF /\ looked /\ w.op = "becomes" /\ last # NoSample
                                /\ Reading(w, last) = w.value /\ Reading(w, s) # w.value
                             THEN now ELSE left
             /\ rungAt' = IF rang THEN now ELSE rungAt
    /\ UNCHANGED <<w, failed>>

\* Monitoring is off: the pass returns at once.
Asleep ==
    /\ ~pending
    /\ now < Horizon
    /\ now' = now + 1
    /\ fires' = {}
    /\ UNCHANGED <<w, st, pending, last, backed, left, rungAt, failed>>

\* dispatch: how the delivery went is written to the trigger.
Record ==
    /\ pending
    /\ pending' = FALSE
    /\ \E ok \in BOOLEAN :
         /\ st' = [st EXCEPT !.deliveryError = ~ok]
         /\ failed' = (failed \/ ~ok)
    /\ UNCHANGED <<w, now, fires, last, backed, left, rungAt>>

Next == Pass \/ Asleep \/ Record

Spec == Init /\ [][Next]_vars

----------------------------------------------------------------------------
TypeOK ==
    /\ w \in Watches
    /\ st \in States
    /\ now \in 1..Horizon
    /\ fires \in SUBSET (Sites \cup {0})
    /\ pending \in BOOLEAN
    /\ last \in Worlds \cup {NoSample}
    /\ backed \in BOOLEAN
    /\ left \in 0..Horizon
    /\ rungAt \in 0..Horizon
    /\ failed \in BOOLEAN

\* A step that moves the clock is a pass, or one slept through, which neither
\* reads a sample nor rings.
Turn == now' # now
Looks == Turn /\ ~Spent(w, st, now)
Rings == Turn /\ fires' # {}

\* A number rings on exactly the samples that carry it past its bound, except
\* that after an alarm none counts until one sample was clearly back: the first
\* sample never rings, no crossing is missed and none is reported twice.
CrossingsRing ==
    [][Looks /\ IsNumeric =>
         (Rings <=> /\ last # NoSample
                    /\ ~Past(w, Reading(w, last)) /\ Past(w, Reading(w, last'))
                    /\ rungAt = NoTime \/ backed)]_vars

\* A becomes watch rings on exactly the returns to its value from an absence
\* that lasted hold, so that a flapping status rings once.
ReturnsRing ==
    [][Looks /\ w.op = "becomes" =>
         (Rings <=> /\ last # NoSample
                    /\ Reading(w, last) # w.value /\ Reading(w, last') = w.value
                    /\ rungAt = NoTime \/ (left # NoTime /\ now - left >= w.hold))]_vars

\* A standing watch on a list rings for every entry that came (or went) between
\* two samples and for no other; a one-shot for one of them.
ArrivalsRing ==
    [][Looks /\ w.op \in {"appears", "disappears"} =>
         LET before == Reading(w, last) \cap w.where
             after  == Reading(w, last') \cap w.where
             moved  == IF last = NoSample THEN {}
                       ELSE IF w.op = "appears" THEN after \ before ELSE before \ after
         IN  IF w.standing THEN fires' = moved
             ELSE fires' \subseteq moved /\ (moved # {} => Cardinality(fires') = 1)]_vars

\* As long as its alarms get through, a watch never rings past its expiry and a
\* one-shot never rings twice (Spent's comment: "can never fire again").
DeliveredIsOver ==
    [][Rings /\ ~failed => /\ now <= w.expiresAt
                           /\ w.standing \/ rungAt = NoTime]_vars

----------------------------------------------------------------------------
\* README.md:29-30: "If every site fails at the same instant at the transport
\* layer, that is recorded as a local fault and alerts nothing."
\* While the same sites stay down no watch on the outages rings because the
\* fault comes or goes.
FaultRingsNothing ==
    [][Turn /\ w.path \in {"sites.down", "sites.downList"} /\ last # NoSample
         /\ last'.down = last.down => fires' = {}]_vars
=============================================================================
