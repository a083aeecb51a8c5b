------------------------------ MODULE Evaluate ------------------------------
(***************************************************************************)
(* Evaluation of one watch against one sample (alerts/eval.go, the status  *)
(* of a trigger in alerts/alerts.go, the readings of alerts/catalogue.go), *)
(* as pure operators.                                                      *)
(*                                                                         *)
(* A sample is what the catalogue reads from the monitor's snapshot: which *)
(* sites are watched, down, or have a certificate problem, and whether the *)
(* machine is cut off.  A site stands for its list entry, whose identity   *)
(* is the site id; a filter is the set of sites it accepts.  Numbers are   *)
(* integers.  LastChangedAt, FiredAt and the texts of an alarm are left    *)
(* out: nothing reads them.                                                *)
(***************************************************************************)
EXTENDS Integers, FiniteSets

CONSTANTS
    Sites,    \* site ids, numbered in their sorted order
    Stamp     \* the timestamp each entry carries, for ages

ASSUME SitesAssumption == IsFiniteSet(Sites) /\ Sites \subseteq Nat
ASSUME StampAssumption == Stamp \in [Sites -> Nat]

NoTime == 0

Numbers == {"sites.down", "sites.watched", "sites.certExpiring"}
Texts == {"health.localFault"}
Lists == {"sites.downList", "sites.certProblems", "sites.all"}

Samples ==
    {s \in [watched : SUBSET Sites, down : SUBSET Sites, cert : SUBSET Sites,
            localFault : BOOLEAN] :
        s.down \subseteq s.watched /\ s.cert \subseteq s.watched}

----------------------------------------------------------------------------
(* The catalogue. *)

\* downList is empty during a local fault.
downList(s) == IF s.localFault THEN {} ELSE s.down

List(path, s) ==
    CASE path = "sites.downList"     -> downList(s)
      [] path = "sites.certProblems" -> s.cert
      [] path = "sites.all"          -> s.watched

Number(path, s) ==
    CASE path = "sites.down"         -> Cardinality(downList(s))
      [] path = "sites.watched"      -> Cardinality(s.watched)
      [] path = "sites.certExpiring" -> Cardinality(s.cert)

Text(path, s) == s.localFault

\* Which paths an operator takes (Leaf.Operators).
Accepts(path, op) ==
    \/ path \in Numbers /\ op = "crosses"
    \/ path \in Texts /\ op = "becomes"
    \/ path \in Lists /\ op \in {"appears", "disappears", "count", "ages"}

----------------------------------------------------------------------------
(* Triggers.  above, limit and margin are the bound and its re-arm margin, *)
(* value and hold belong to becomes, olderThan to ages.                    *)

SetOps == {"appears", "disappears", "ages"}

Terms ==
    {w \in [path : Numbers \cup Texts \cup Lists,
            op : {"crosses", "count", "becomes"} \cup SetOps,
            above : BOOLEAN, limit : Int, margin : Nat \ {0},
            value : BOOLEAN, hold : Nat \ {0}, olderThan : Nat \ {0},
            where : SUBSET Sites, standing : BOOLEAN, expiresAt : Nat] :
        Accepts(w.path, w.op)}

\* The State of a trigger that has learned nothing.  number and text are
\* LastValue, which holds one or the other.
NewState ==
    [ primed        |-> FALSE,
      ready         |-> FALSE,
      number        |-> 0,
      text          |-> FALSE,
      seen          |-> {},
      awaySince     |-> NoTime,
      fireCount     |-> 0,
      deliveryError |-> FALSE ]

States ==
    [ primed        : BOOLEAN,
      ready         : BOOLEAN,
      number        : Int,
      text          : BOOLEAN,
      seen          : SUBSET Sites,
      awaySince     : Nat,
      fireCount     : Nat,
      deliveryError : BOOLEAN ]

Status(w, st, now) ==
    CASE st.deliveryError                                   -> "delivery-failed"
      [] ~st.deliveryError /\ ~w.standing /\ st.fireCount > 0 -> "fired"
      [] OTHER -> IF now > w.expiresAt THEN "expired"
                  ELSE IF ~st.primed THEN "no-sample"
                  ELSE IF ~st.ready THEN "rearming"
                  ELSE "armed"

\* Variant: only time ends a watch.
SpentByTime(w, st, now) == Status(w, st, now) = "expired"

Spent(w, st, now) == Status(w, st, now) \in {"fired", "expired"}

----------------------------------------------------------------------------
(* The result of an evaluation: the state after it and the alarms, one per *)
(* entry for the set operators, {0} for the single alarm of the others.    *)

Result(st, fires) == [st |-> st, fires |-> fires]

\* Variant that undoes the count it should add to.
RingUncounted(st) == Result([st EXCEPT !.ready = FALSE, !.fireCount = @ - 1], {0})

\* Ring and disarm.
Ring(st) == Result([st EXCEPT !.ready = FALSE, !.fireCount = @ + 1], {0})

Quiet(st) == Result(st, {})

Past(w, v) == \/ w.above /\ v > w.limit
              \/ ~w.above /\ v < w.limit

\* Clearly back on the far side of the bound.
Back(w, v) == \/ w.above /\ v <= w.limit - w.margin
              \/ ~w.above /\ v >= w.limit + w.margin

\* Variant without hysteresis: any value that is not past the bound re-arms.
crossingRearmsAtBound(w, st, v) ==
    LET folded == [st EXCEPT !.number = v]
    IN  IF ~st.primed THEN Quiet([folded EXCEPT !.primed = TRUE, !.ready = TRUE])
        ELSE IF ~st.ready THEN Quiet([folded EXCEPT !.ready = ~Past(w, v)])
        ELSE IF ~Past(w, st.number) /\ Past(w, v) THEN Ring(folded)
        ELSE Quiet(folded)

\* The body of crosses and count.  The re-arming sample itself never fires.
crossing(w, st, v) ==
    LET folded == [st EXCEPT !.number = v]
    IN  IF ~st.primed THEN Quiet([folded EXCEPT !.primed = TRUE, !.ready = TRUE])
        ELSE IF ~st.ready THEN Quiet([folded EXCEPT !.ready = Back(w, v)])
        ELSE IF ~Past(w, st.number) /\ Past(w, v) THEN Ring(folded)
        ELSE Quiet(folded)

\* Variant that measures hold from the first absence ever.
evalBecomesOldAway(w, st, v, now) ==
    LET left   == st.text = w.value /\ v # w.value /\ st.awaySince = NoTime
        folded == [st EXCEPT !.text = v, !.awaySince = IF left THEN now ELSE @]
        ready  == \/ st.ready
                  \/ /\ st.text # w.value
                     /\ folded.awaySince # NoTime
                     /\ now - folded.awaySince >= w.hold
    IN  IF ~st.primed THEN Quiet([st EXCEPT !.text = v, !.primed = TRUE, !.ready = TRUE])
        ELSE IF ready /\ v = w.value /\ st.text # w.value THEN Ring(folded)
        ELSE Quiet([folded EXCEPT !.ready = ready])

\* It re-arms judged on the previous value: this sample may be the return.
evalBecomes(w, st, v, now) ==
    LET left   == st.text = w.value /\ v # w.value
        folded == [st EXCEPT !.text = v, !.awaySince = IF left THEN now ELSE @]
        ready  == \/ st.ready
                  \/ /\ st.text # w.value
                     /\ folded.awaySince # NoTime
                     /\ now - folded.awaySince >= w.hold
    IN  IF ~st.primed THEN Quiet([st EXCEPT !.text = v, !.primed = TRUE, !.ready = TRUE])
        ELSE IF ready /\ v = w.value /\ st.text # w.value THEN Ring(folded)
        ELSE Quiet([folded EXCEPT !.ready = ready])

\* The entries render every timestamp as text, and only a time is measured.
FieldKind(id) == "text"

agedOnly(ids, span, now) ==
    {id \in ids : FieldKind(id) = "time" /\ Stamp[id] # NoTime /\ now - Stamp[id] >= span}

\* Variant that never forgets an entry it has seen.
evalSetRemembers(w, st, ids, now) ==
    LET current == ids \cap w.where
        changed == IF w.op = "disappears" THEN st.seen \ current ELSE current \ st.seen
        fires   == IF w.standing THEN changed
                   ELSE {id \in changed : \A other \in changed : id <= other}
        folded  == [st EXCEPT !.seen = @ \cup current]
    IN  IF ~st.primed THEN Quiet([folded EXCEPT !.primed = TRUE, !.ready = TRUE])
        ELSE Result([folded EXCEPT !.fireCount = @ + Cardinality(fires)], fires)

\* Every entry is its own event; a one-shot stops after the first.
evalSet(w, st, ids, now) ==
    LET kept    == ids \cap w.where
        current == IF w.op = "ages" THEN agedOnly(kept, w.olderThan, now) ELSE kept
        changed == IF w.op = "disappears" THEN st.seen \ current ELSE current \ st.seen
        fires   == IF w.standing THEN changed
                   ELSE {id \in changed : \A other \in changed : id <= other}
        folded  == [st EXCEPT !.seen = current]
    IN  IF ~st.primed THEN Quiet([folded EXCEPT !.primed = TRUE, !.ready = TRUE])
        ELSE Result([folded EXCEPT !.fireCount = @ + Cardinality(fires)], fires)

\* What a watch reads of a sample: a number, a text or a set of entries.
Reading(w, s) ==
    CASE w.op = "crosses" -> Number(w.path, s)
      [] w.op = "count"   -> Cardinality(List(w.path, s) \cap w.where)
      [] w.op = "becomes" -> Text(w.path, s)
      [] w.op \in SetOps  -> List(w.path, s)

\* Evaluate.
Fold(w, st, s, now) ==
    CASE Spent(w, st, now)          -> Quiet(st)
      [] OTHER ->
           IF w.op \in {"crosses", "count"} THEN crossing(w, st, Reading(w, s))
           ELSE IF w.op = "becomes" THEN evalBecomes(w, st, Reading(w, s), now)
           ELSE evalSet(w, st, Reading(w, s), now)
=============================================================================
