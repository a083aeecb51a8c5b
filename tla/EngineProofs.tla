---------------------------- MODULE EngineProofs ----------------------------
(***************************************************************************)
(* For every set of watches and snapshots, and however many passes,        *)
(* requests, failed writes and restarts: the safety properties of the      *)
(* alert engine, state and action ones alike.                              *)
(*                                                                         *)
(* None of them is inductive.  IInv says of the memory what each says of   *)
(* the disk, and of the disk what each says of the memory, for a restart   *)
(* makes one the other; counts the alarms that wait beside those tried;    *)
(* and keeps revisions apart: nothing that was recorded for a watch names  *)
(* a revision that is still to come.                                       *)
(***************************************************************************)
EXTENDS Engine, FiniteSetTheorems, TLAPS

\* TypeOK, in parts.
Flags ==
    /\ monitoring \in BOOLEAN /\ failing \in BOOLEAN /\ missed \in BOOLEAN
    /\ at \in {"idle", "fold", "deliver", "record", "save"}

Sizes == passes \in 0..MaxPasses /\ requests \in 0..MaxRequests /\ faults \in 0..MaxFaults

Tables ==
    /\ IsMap(triggers, Trigger) /\ IsMap(disk, Trigger)
    /\ IsMap(folded, SUBSET Worlds)
    /\ IsMap(said, [sure : BOOLEAN, rev : Nat])

Alarms ==
    /\ snap \in Worlds /\ queue \in Seq(Alarm)
    /\ rung \subseteq Alarm /\ tried \subseteq Alarm

Records ==
    /\ minted \subseteq Ids
    /\ told \subseteq Ids \X Nat /\ settled \subseteq Ids \X Nat /\ early \subseteq Ids \X Nat

\* What exists is finite.
Finite ==
    /\ IsFiniteSet(DOMAIN triggers)
    /\ IsFiniteSet(DOMAIN disk)
    /\ IsFiniteSet(tried)

\* Alarms wait exactly while some are being delivered, and what waits, waits
\* in a list.
Waits ==
    /\ queue # <<>> <=> at \in {"deliver", "record"}
    /\ at = "record" => Head(queue) \in tried

\* An id that is somewhere was given out, so a new one is nowhere.
Given ==
    /\ DOMAIN folded = DOMAIN triggers
    /\ DOMAIN triggers \subseteq minted
    /\ DOMAIN disk \subseteq minted
    /\ \A p \in told \cup settled : p[1] \in minted
    /\ \A a \in Range(queue) : a.id \in minted

\* A trigger is at the newest of its revisions, and so is its copy on disk,
\* as of the write that put it there.
Newest ==
    /\ \A id \in DOMAIN disk \cap DOMAIN triggers : disk[id].rev <= triggers[id].rev
    /\ \A p \in told : p[1] \in DOMAIN triggers => p[2] <= triggers[p[1]].rev
    /\ \A p \in settled : p[1] \in DOMAIN disk => p[2] <= disk[p[1]].rev
    /\ \A a \in Range(queue) : a.id \in DOMAIN triggers => a.rev <= triggers[a.id].rev

\* Until the pass has folded, memory is what was last written.
Persisted == at \in {"idle", "fold"} /\ ~missed => disk = triggers

\* What a client was told holds in the memory, and on the disk.
Keeps(ts) ==
    \A id \in DOMAIN said :
        said[id].sure =>
            IF said[id].rev = 0 THEN id \notin DOMAIN ts
            ELSE id \in DOMAIN ts /\ ts[id].rev = said[id].rev

\* The alarms of one revision among a set of them.
Of(alarms, id, rev) == {a \in alarms : a.id = id /\ a.rev = rev}

\* Every alarm a table counts is among these, or was saved early.
Counted(ts, alarms) ==
    \A id \in DOMAIN ts :
        <<id, ts[id].rev>> \in early
            \/ ts[id].st.fireCount <= Cardinality(Of(alarms, id, ts[id].rev))

\* What rang was tried or waits, and none of it is of a pass to come.
Owed ==
    /\ rung \subseteq tried \cup Range(queue)
    /\ \A a \in tried \cup Range(queue) : a.pass <= passes /\ (at = "fold" => a.pass < passes)
    /\ at = "fold" => passes # 0

\* What a watch remembers is what it read of one of these samples.
Learned(w, st, samples) ==
    st.primed => \E s \in samples :
        /\ w.op \in {"crosses", "count"} => st.number = Reading(w, s)
        /\ w.op = "becomes" => st.text = Reading(w, s)
        /\ w.op \in {"appears", "disappears"} => st.seen = Reading(w, s) \cap w.where
        /\ w.op = "ages" => st.seen = {}

Baselines ==
    /\ \A id \in DOMAIN triggers : Learned(triggers[id].w, triggers[id].st, folded[id])
    /\ \A id \in DOMAIN disk : Learned(disk[id].w, disk[id].st, Worlds)
    /\ \A id \in DOMAIN disk \cap DOMAIN triggers :
          disk[id].rev = triggers[id].rev => Learned(disk[id].w, disk[id].st, folded[id])

\* A one-shot with a delivery on record has rung, and has no error to hide it.
Over(ts, done) ==
    \A id \in DOMAIN ts :
        ~ts[id].w.standing /\ <<id, ts[id].rev>> \in done =>
            ts[id].st.fireCount > 0 /\ ~ts[id].st.deliveryError

\* The alarm of a one-shot waits alone, and only until it is recorded.
Alone ==
    /\ \A id \in DOMAIN triggers :
          ~triggers[id].w.standing /\ <<id, triggers[id].rev>> \in told =>
              \A a \in Range(queue) : a.id # id
    /\ \A i \in DOMAIN queue :
          LET id == queue[i].id
          IN  id \in DOMAIN triggers /\ queue[i].rev = triggers[id].rev =>
                /\ triggers[id].st.fireCount > 0
                /\ ~triggers[id].w.standing =>
                       \A j \in DOMAIN queue \ {i} : queue[j].id # id

IInv ==
    /\ Flags /\ Sizes /\ Tables /\ Alarms /\ Records
    /\ Finite /\ Waits /\ Given /\ Newest
    /\ Persisted
    /\ Keeps(triggers) /\ Keeps(disk)
    /\ Counted(triggers, tried \cup Range(queue)) /\ Counted(disk, tried) /\ Owed
    /\ Baselines
    /\ Over(triggers, told) /\ Over(disk, settled) /\ Alone

----------------------------------------------------------------------------
(* One evaluation. *)

\* Two states that agree in every field are the same.
LEMMA SameFields ==
    ASSUME NEW x \in States, NEW y \in States,
           x.primed = y.primed, x.ready = y.ready, x.number = y.number, x.text = y.text,
           x.seen = y.seen, x.awaySince = y.awaySince, x.fireCount = y.fireCount,
           x.deliveryError = y.deliveryError
    PROVE  x = y
    BY DEF States

\* A number is remembered, counted when it rings, and rings on a crossing.
LEMMA CrossingFolds ==
    ASSUME NEW v \in Terms, NEW x \in States, NEW n \in Int,
           NEW r, r = crossing(v, x, n)
    PROVE  /\ r.st \in States
           /\ r.fires \in SUBSET {0}
           /\ r.st.primed /\ r.st.number = n
           /\ r.st.text = x.text /\ r.st.seen = x.seen /\ r.st.awaySince = x.awaySince
           /\ r.st.deliveryError = x.deliveryError
           /\ r.st.fireCount = IF r.fires = {} THEN x.fireCount ELSE x.fireCount + 1
           /\ r.fires # {} => x.primed /\ ~Past(v, x.number) /\ Past(v, n)
<1> DEFINE looked == [x EXCEPT !.number = n]
           after == [looked EXCEPT !.ready = FALSE, !.fireCount = @ + 1]
<1>1. /\ looked \in States /\ looked.number = n /\ looked.primed = x.primed
      /\ looked.ready = x.ready /\ looked.text = x.text /\ looked.seen = x.seen
      /\ looked.awaySince = x.awaySince /\ looked.fireCount = x.fireCount
      /\ looked.deliveryError = x.deliveryError /\ x.fireCount \in Nat
    BY DEF States
<1>2. Back(v, n) \in BOOLEAN
    BY DEF Back, Terms, States
<1>3. CASE x.primed /\ x.ready /\ ~Past(v, x.number) /\ Past(v, n)
    <2>1. r.st = after /\ r.fires = {0}
        BY <1>3 DEF crossing, Ring, Result
    <2>2. /\ after \in States /\ after.number = n /\ after.primed = x.primed
          /\ after.text = x.text /\ after.seen = x.seen /\ after.awaySince = x.awaySince
          /\ after.fireCount = x.fireCount + 1 /\ after.deliveryError = x.deliveryError
        <3> HIDE DEF looked
        <3>1. looked.fireCount + 1 \in Nat
            BY <1>1
        <3> QED BY <1>1, <3>1 DEF States
    <2> HIDE DEF after
    <2> QED BY <1>3, <2>1, <2>2
<1>4. CASE x.primed /\ x.ready /\ ~(~Past(v, x.number) /\ Past(v, n))
    <2>1. r.st = looked /\ r.fires = {}
        BY <1>4 DEF crossing, Quiet, Result
    <2> HIDE DEF looked
    <2> QED BY <1>1, <1>4, <2>1
<1>5. CASE ~x.primed
    <2> DEFINE y == [looked EXCEPT !.primed = TRUE, !.ready = TRUE]
    <2>1. r.st = y /\ r.fires = {}
        BY <1>5 DEF crossing, Quiet, Result
    <2>2. /\ y \in States /\ y.number = n /\ y.primed
          /\ y.text = x.text /\ y.seen = x.seen /\ y.awaySince = x.awaySince
          /\ y.fireCount = x.fireCount /\ y.deliveryError = x.deliveryError
        <3> HIDE DEF looked
        <3> QED BY <1>1 DEF States
    <2> HIDE DEF y
    <2> QED BY <2>1, <2>2
<1>6. CASE x.primed /\ ~x.ready
    <2> DEFINE y == [looked EXCEPT !.ready = Back(v, n)]
    <2>1. r.st = y /\ r.fires = {}
        BY <1>6 DEF crossing, Quiet, Result
    <2>2. /\ y \in States /\ y.number = n /\ y.primed = x.primed
          /\ y.text = x.text /\ y.seen = x.seen /\ y.awaySince = x.awaySince
          /\ y.fireCount = x.fireCount /\ y.deliveryError = x.deliveryError
        <3> HIDE DEF looked
        <3> QED BY <1>1, <1>2 DEF States
    <2> HIDE DEF y
    <2> QED BY <1>6, <2>1, <2>2
<1> QED BY <1>3, <1>4, <1>5, <1>6

\* A text is remembered, counted when it rings, and rings on its return.  What
\* moves the time it left at is only its leaving.
LEMMA BecomesFolds ==
    ASSUME NEW v \in Terms, NEW x \in States, NEW t \in BOOLEAN, NEW n \in Nat,
           NEW r, r = evalBecomes(v, x, t, n)
    PROVE  /\ r.st \in States
           /\ r.fires \in SUBSET {0}
           /\ r.st.primed /\ r.st.text = t
           /\ r.st.number = x.number /\ r.st.seen = x.seen
           /\ x.text = t => r.st.awaySince = x.awaySince
           /\ r.st.deliveryError = x.deliveryError
           /\ r.st.fireCount = IF r.fires = {} THEN x.fireCount ELSE x.fireCount + 1
           /\ r.fires # {} => x.primed /\ x.text # v.value /\ t = v.value
<1> DEFINE gone   == x.text = v.value /\ t # v.value
           looked == [x EXCEPT !.text = t, !.awaySince = IF gone THEN n ELSE @]
           ready  == \/ x.ready
                     \/ /\ x.text # v.value
                        /\ looked.awaySince # NoTime
                        /\ n - looked.awaySince >= v.hold
<1>1. /\ looked \in States /\ looked.text = t /\ looked.primed = x.primed
      /\ looked.number = x.number /\ looked.seen = x.seen
      /\ x.text = t => looked.awaySince = x.awaySince
      /\ looked.fireCount = x.fireCount
      /\ looked.deliveryError = x.deliveryError /\ x.fireCount \in Nat
    BY DEF States
<1>2. ready \in BOOLEAN
    BY DEF States
<1>3. CASE ~x.primed
    <2> DEFINE y == [x EXCEPT !.text = t, !.primed = TRUE, !.ready = TRUE]
    <2>1. r.st = y /\ r.fires = {}
        BY <1>3 DEF evalBecomes, Quiet, Result
    <2>2. /\ y \in States /\ y.text = t /\ y.primed /\ y.number = x.number /\ y.seen = x.seen
          /\ y.awaySince = x.awaySince /\ y.fireCount = x.fireCount
          /\ y.deliveryError = x.deliveryError
        BY DEF States
    <2> HIDE DEF y, looked
    <2> QED BY <2>1, <2>2
<1>4. CASE x.primed /\ ready /\ t = v.value /\ x.text # v.value
    <2> DEFINE y == [looked EXCEPT !.ready = FALSE, !.fireCount = @ + 1]
    <2>1. r.st = y /\ r.fires = {0}
        BY <1>4 DEF evalBecomes, Ring, Result
    <2>2. /\ y \in States /\ y.text = t /\ y.primed = x.primed /\ y.number = x.number
          /\ y.seen = x.seen /\ y.awaySince = looked.awaySince
          /\ y.fireCount = x.fireCount + 1 /\ y.deliveryError = x.deliveryError
        <3> HIDE DEF looked, ready
        <3>1. looked.fireCount + 1 \in Nat
            BY <1>1
        <3> QED BY <1>1, <3>1 DEF States
    <2> HIDE DEF y, looked, ready
    <2> QED BY <1>1, <1>4, <2>1, <2>2
<1>5. CASE x.primed /\ ~(ready /\ t = v.value /\ x.text # v.value)
    <2> DEFINE y == [looked EXCEPT !.ready = ready]
    <2>1. r.st = y /\ r.fires = {}
        BY <1>5 DEF evalBecomes, Quiet, Result
    <2>2. /\ y \in States /\ y.text = t /\ y.primed = x.primed /\ y.number = x.number
          /\ y.seen = x.seen /\ y.awaySince = looked.awaySince
          /\ y.fireCount = x.fireCount /\ y.deliveryError = x.deliveryError
        <3> HIDE DEF looked, ready
        <3> QED BY <1>1, <1>2 DEF States
    <2> HIDE DEF y, looked, ready
    <2> QED BY <1>1, <1>5, <2>1, <2>2
<1> HIDE DEF looked, ready
<1> QED BY <1>3, <1>4, <1>5

\* A set is remembered as far as the filter accepts it, and every entry that
\* rings is counted: those that came or went, or for a one-shot the first of them.
\* Nothing ages.
SetFolded(v, x, ids, r) ==
    /\ r.st \in States
    /\ r.fires \in SUBSET Sites
    /\ r.st.primed
    /\ r.st.seen = IF v.op = "ages" THEN {} ELSE ids \cap v.where
    /\ r.st.text = x.text /\ r.st.number = x.number /\ r.st.awaySince = x.awaySince
    /\ r.st.deliveryError = x.deliveryError
    /\ r.st.fireCount = x.fireCount + Cardinality(r.fires)
    /\ r.fires # {} => x.primed
    /\ x.primed => r.st.ready = x.ready
    /\ r.fires \subseteq IF v.op = "disappears" THEN x.seen \ r.st.seen
                                                ELSE r.st.seen \ x.seen
    /\ v.standing \/ \A a, b \in r.fires : a = b

\* What a watch of a set rings and remembers after one look.
LEMMA SetFolds ==
    ASSUME NEW v \in Terms, NEW x \in States, NEW ids \in SUBSET Sites, NEW n \in Nat,
           NEW r, r = evalSet(v, x, ids, n)
    PROVE  SetFolded(v, x, ids, r)
<1> DEFINE kept    == ids \cap v.where
           current == IF v.op = "ages" THEN agedOnly(kept, v.olderThan, n) ELSE kept
           changed == IF v.op = "disappears" THEN x.seen \ current ELSE current \ x.seen
           fires0  == IF v.standing THEN changed
                      ELSE {id \in changed : \A other \in changed : id <= other}
           looked  == [x EXCEPT !.seen = current]
<1>1. current = (IF v.op = "ages" THEN {} ELSE kept) /\ current \in SUBSET Sites
    BY DEF agedOnly, FieldKind
<1>2. changed \in SUBSET Sites
    BY <1>1 DEF States
<1>3. fires0 \in SUBSET Sites /\ fires0 \subseteq changed
    BY <1>2
<1>4. v.standing \/ \A a, b \in fires0 : a = b
    <2> HIDE DEF changed
    <2> QED BY <1>2, SitesAssumption
<1>5. /\ looked \in States /\ looked.seen = current /\ looked.primed = x.primed
      /\ looked.ready = x.ready /\ looked.number = x.number /\ looked.text = x.text
      /\ looked.awaySince = x.awaySince /\ looked.fireCount = x.fireCount
      /\ looked.deliveryError = x.deliveryError /\ x.fireCount \in Nat
    <2> HIDE DEF current
    <2> QED BY <1>1 DEF States
<1>6. Cardinality(fires0) \in Nat /\ Cardinality({}) = 0
    <2> HIDE DEF fires0
    <2>1. IsFiniteSet(fires0)
        BY <1>3, SitesAssumption, FS_Subset
    <2> QED BY <2>1, FS_CardinalityType, FS_EmptySet
<1>7. CASE ~x.primed
    <2> DEFINE y == [looked EXCEPT !.primed = TRUE, !.ready = TRUE]
    <2>1. r.st = y /\ r.fires = {}
        BY <1>7 DEF evalSet, Quiet, Result
    <2>2. /\ y \in States /\ y.seen = current /\ y.primed
          /\ y.number = x.number /\ y.text = x.text /\ y.awaySince = x.awaySince
          /\ y.fireCount = x.fireCount /\ y.deliveryError = x.deliveryError
        <3> HIDE DEF looked, current
        <3> QED BY <1>5 DEF States
    <2> HIDE DEF y, looked, fires0, changed, current
    <2> QED BY <1>1, <1>5, <1>6, <1>7, <2>1, <2>2 DEF SetFolded
<1>8. CASE x.primed
    <2> DEFINE k == Cardinality(fires0)
               y == [looked EXCEPT !.fireCount = @ + k]
    <2>1. r.st = y /\ r.fires = fires0
        BY <1>8 DEF evalSet, Result
    <2>2. /\ y \in States /\ y.seen = current /\ y.primed = x.primed /\ y.ready = x.ready
          /\ y.number = x.number /\ y.text = x.text /\ y.awaySince = x.awaySince
          /\ y.fireCount = x.fireCount + k /\ y.deliveryError = x.deliveryError
        <3> HIDE DEF looked, k, fires0, current
        <3>1. k \in Nat
            BY <1>6 DEF k
        <3> QED BY <1>5, <3>1 DEF States
    <2>3. r.fires \subseteq IF v.op = "disappears" THEN x.seen \ r.st.seen
                                                   ELSE r.st.seen \ x.seen
        <3> HIDE DEF y, looked, fires0, current
        <3> QED BY <1>3, <2>1, <2>2
    <2> HIDE DEF y, looked, fires0, changed, current
    <2> QED BY <1>1, <1>3, <1>4, <1>8, <2>1, <2>2, <2>3 DEF SetFolded
<1> QED BY <1>7, <1>8

\* A watch reads a number, a text or a set of sites, as its operator asks.
LEMMA ReadingTypes ==
    ASSUME NEW v \in Terms, NEW s \in Samples
    PROVE  /\ v.op \in {"crosses", "count"} => Reading(v, s) \in Nat
           /\ v.op = "becomes" => Reading(v, s) \in BOOLEAN
           /\ v.op \in SetOps => Reading(v, s) \in SUBSET Sites
           /\ v.op \in {"crosses", "count", "becomes"} \cup SetOps
<1>1. /\ s.watched \in SUBSET Sites /\ s.cert \in SUBSET Sites
      /\ downList(s) \in SUBSET Sites /\ s.localFault \in BOOLEAN
    BY DEF Samples, downList
<1>2. Accepts(v.path, v.op) /\ v.op \in {"crosses", "count", "becomes"} \cup SetOps
    BY DEF Terms
<1>3. \A S \in SUBSET Sites : Cardinality(S) \in Nat
    BY SitesAssumption, FS_Subset, FS_CardinalityType
<1>4. CASE v.op = "crosses"
    <2>1. v.path \in Numbers
        BY <1>2, <1>4 DEF Accepts
    <2>2. Number(v.path, s) \in Nat
        BY <2>1, <1>1, <1>3 DEF Number, Numbers
    <2> QED BY <2>2, <1>4 DEF Reading, SetOps
<1>5. v.op \in {"count"} \cup SetOps => List(v.path, s) \in SUBSET Sites
    <2>1. v.op \in {"count"} \cup SetOps => v.path \in Lists
        BY <1>2 DEF Accepts, SetOps
    <2> QED BY <2>1, <1>1 DEF List, Lists
<1>6. CASE v.op = "count"
    <2>1. Cardinality(List(v.path, s) \cap v.where) \in Nat
        BY <1>3, <1>5, <1>6
    <2> QED BY <2>1, <1>6 DEF Reading, SetOps
<1>7. CASE v.op = "becomes"
    BY <1>1, <1>7 DEF Reading, Text, SetOps
<1>8. CASE v.op \in SetOps
    BY <1>5, <1>8 DEF Reading, SetOps
<1> QED BY <1>2, <1>4, <1>6, <1>7, <1>8

\* What the evaluation of a watch does to its state, whatever it waits for.
Folds(v, x, s, r) ==
    /\ r.st \in States
    /\ r.fires \in SUBSET (Sites \cup {0})
    /\ r.st.deliveryError = x.deliveryError
    /\ r.st.fireCount = x.fireCount + Cardinality(r.fires)
    /\ ~v.standing => \A a, b \in r.fires : a = b
    /\ ~v.standing /\ x.fireCount > 0 /\ ~x.deliveryError => r.fires = {}
    /\ r.fires = {} /\ sameState(x, r.st) => r.st = x

\* A fold leaves behind what it has learned of the sample, on top of the samples
\* before, and rings only for what was otherwise in one of them.
Learns(v, x, s, r) ==
    \A samples :
        Learned(v, x, samples) =>
            /\ Learned(v, r.st, samples \cup {s})
            /\ r.fires # {} => \E before \in samples : Happened(v, before, s)

\* A watch with one entry only rings at most one alarm.
LEMMA NoneOrOne == \A S \in SUBSET {0} : Cardinality(S) = IF S = {} THEN 0 ELSE 1
<1> SUFFICES ASSUME NEW S \in SUBSET {0} PROVE Cardinality(S) = IF S = {} THEN 0 ELSE 1
    OBVIOUS
<1>1. S = {} \/ S = {0}
    OBVIOUS
<1> QED BY <1>1, FS_EmptySet, FS_Singleton

\* A threshold folds a sample, and rings for what an earlier one did not have.
LEMMA CrossingLearns ==
    ASSUME NEW v \in Terms, v.op \in {"crosses", "count"}, NEW x \in States, NEW s \in Samples,
           NEW r, r = crossing(v, x, Reading(v, s)),
           v.standing \/ x.fireCount = 0 \/ x.deliveryError
    PROVE  Folds(v, x, s, r) /\ Learns(v, x, s, r)
<1> DEFINE n == Reading(v, s)
<1>1. n \in Nat
    BY ReadingTypes
<1>2. /\ r.st \in States
      /\ r.fires \in SUBSET {0}
      /\ r.st.primed /\ r.st.number = n
      /\ r.st.text = x.text /\ r.st.seen = x.seen /\ r.st.awaySince = x.awaySince
      /\ r.st.deliveryError = x.deliveryError
      /\ r.st.fireCount = IF r.fires = {} THEN x.fireCount ELSE x.fireCount + 1
      /\ r.fires # {} => x.primed /\ ~Past(v, x.number) /\ Past(v, n)
    <2> HIDE DEF n
    <2>1. n \in Int
        BY <1>1
    <2>2. r = crossing(v, x, n)
        BY DEF n
    <2> QED BY <2>1, <2>2, CrossingFolds
<1>3. Folds(v, x, s, r)
    <2>1. r.st.fireCount = x.fireCount + Cardinality(r.fires)
        <3>1. x.fireCount \in Nat
            BY DEF States
        <3>2. Cardinality(r.fires) = IF r.fires = {} THEN 0 ELSE 1
            BY <1>2, NoneOrOne
        <3> QED BY <1>2, <3>1, <3>2
    <2>2. sameState(x, r.st) => r.st = x
        BY <1>2, SameFields DEF sameState
    <2>3. x.fireCount > 0 => x.fireCount # 0
        OBVIOUS
    <2> QED BY <1>2, <2>1, <2>2, <2>3 DEF Folds
<1>4. Learns(v, x, s, r)
    <2> SUFFICES ASSUME NEW samples, Learned(v, x, samples)
                 PROVE  /\ Learned(v, r.st, samples \cup {s})
                        /\ r.fires # {} => \E before \in samples : Happened(v, before, s)
        BY DEF Learns
    <2>1. Learned(v, r.st, samples \cup {s})
        BY <1>2 DEF Learned
    <2>2. ASSUME r.fires # {} PROVE \E before \in samples : Happened(v, before, s)
        <3>1. PICK before \in samples : x.number = Reading(v, before)
            BY <1>2, <2>2 DEF Learned
        <3>2. ~Past(v, Reading(v, before)) /\ Past(v, Reading(v, s))
            BY <1>2, <2>2, <3>1
        <3>3. Happened(v, before, s)
            BY <3>2 DEF Happened
        <3> QED BY <3>3
    <2> QED BY <2>1, <2>2
<1> QED BY <1>3, <1>4

\* A reading that becomes or leaves a value does so too.
LEMMA BecomesLearns ==
    ASSUME NEW v \in Terms, v.op = "becomes", NEW x \in States, NEW s \in Samples,
           NEW r, r = evalBecomes(v, x, Reading(v, s), Now),
           v.standing \/ x.fireCount = 0 \/ x.deliveryError
    PROVE  Folds(v, x, s, r) /\ Learns(v, x, s, r)
<1> DEFINE t == Reading(v, s)
<1>1. t \in BOOLEAN /\ Now \in Nat
    BY ReadingTypes DEF Now
<1>2. /\ r.st \in States
      /\ r.fires \in SUBSET {0}
      /\ r.st.primed /\ r.st.text = t
      /\ r.st.number = x.number /\ r.st.seen = x.seen
      /\ x.text = t => r.st.awaySince = x.awaySince
      /\ r.st.deliveryError = x.deliveryError
      /\ r.st.fireCount = IF r.fires = {} THEN x.fireCount ELSE x.fireCount + 1
      /\ r.fires # {} => x.primed /\ x.text # v.value /\ t = v.value
    <2> HIDE DEF t
    <2>1. r = evalBecomes(v, x, t, Now)
        BY DEF t
    <2> QED BY <1>1, <2>1, BecomesFolds
<1>3. Folds(v, x, s, r)
    <2>1. r.st.fireCount = x.fireCount + Cardinality(r.fires)
        <3>1. x.fireCount \in Nat
            BY DEF States
        <3>2. Cardinality(r.fires) = IF r.fires = {} THEN 0 ELSE 1
            BY <1>2, NoneOrOne
        <3> QED BY <1>2, <3>1, <3>2
    <2>2. sameState(x, r.st) => r.st = x
        BY <1>2, SameFields DEF sameState
    <2>3. x.fireCount > 0 => x.fireCount # 0
        OBVIOUS
    <2> QED BY <1>2, <2>1, <2>2, <2>3 DEF Folds
<1>4. Learns(v, x, s, r)
    <2> SUFFICES ASSUME NEW samples, Learned(v, x, samples)
                 PROVE  /\ Learned(v, r.st, samples \cup {s})
                        /\ r.fires # {} => \E before \in samples : Happened(v, before, s)
        BY DEF Learns
    <2>1. Learned(v, r.st, samples \cup {s})
        BY <1>2 DEF Learned
    <2>2. ASSUME r.fires # {} PROVE \E before \in samples : Happened(v, before, s)
        <3>1. PICK before \in samples : x.text = Reading(v, before)
            BY <1>2, <2>2 DEF Learned
        <3>2. Happened(v, before, s)
            BY <1>2, <2>2, <3>1 DEF Happened
        <3> QED BY <3>2
    <2> QED BY <2>1, <2>2
<1> QED BY <1>3, <1>4

\* A set of sites does so too.
LEMMA SetLearns ==
    ASSUME NEW v \in Terms, v.op \in SetOps, NEW x \in States, NEW s \in Samples,
           NEW r, r = evalSet(v, x, Reading(v, s), Now),
           v.standing \/ x.fireCount = 0 \/ x.deliveryError
    PROVE  Folds(v, x, s, r) /\ Learns(v, x, s, r)
<1> DEFINE ids == Reading(v, s)
<1>1. ids \in SUBSET Sites /\ Now \in Nat
    BY ReadingTypes DEF Now
<1>2. SetFolded(v, x, ids, r)
    <2> HIDE DEF ids
    <2>1. r = evalSet(v, x, ids, Now)
        BY DEF ids
    <2> QED BY <1>1, <2>1, SetFolds
<1>3. Folds(v, x, s, r)
    <2>1. sameState(x, r.st) => r.st = x
        BY <1>2, SameFields DEF sameState, SetFolded
    <2>2. x.fireCount > 0 => x.fireCount # 0
        OBVIOUS
    <2> QED BY <1>2, <2>1, <2>2 DEF Folds, SetFolded
<1>4. Learns(v, x, s, r)
    <2> SUFFICES ASSUME NEW samples, Learned(v, x, samples)
                 PROVE  /\ Learned(v, r.st, samples \cup {s})
                        /\ r.fires # {} => \E before \in samples : Happened(v, before, s)
        BY DEF Learns
    <2>1. Learned(v, r.st, samples \cup {s})
        BY <1>2 DEF Learned, SetOps, SetFolded
    <2>2. ASSUME r.fires # {} PROVE \E before \in samples : Happened(v, before, s)
        <3>1. PICK before \in samples :
                  /\ v.op \in {"appears", "disappears"} => x.seen = Reading(v, before) \cap v.where
                  /\ v.op = "ages" => x.seen = {}
            BY <1>2, <2>2 DEF Learned, SetFolded
        <3>2. v.op # "ages"
            BY <1>2, <2>2, <3>1 DEF SetFolded
        <3>3. CASE v.op = "appears"
            <4>1. (ids \ Reading(v, before)) \cap v.where # {}
                BY <1>2, <2>2, <3>1, <3>3 DEF SetFolded
            <4> QED BY <4>1, <3>3 DEF Happened
        <3>4. CASE v.op = "disappears"
            <4>1. (Reading(v, before) \ ids) \cap v.where # {}
                BY <1>2, <2>2, <3>1, <3>4 DEF SetFolded
            <4> QED BY <4>1, <3>4 DEF Happened
        <3> QED BY <3>2, <3>3, <3>4 DEF SetOps
    <2> QED BY <2>1, <2>2
<1> QED BY <1>3, <1>4

\* A watch that is over folds nothing; any other folds as its operator does.
LEMMA FoldFolds ==
    ASSUME NEW v \in Terms, NEW x \in States, NEW s \in Samples, NEW r, r = Fold(v, x, s, Now)
    PROVE  Folds(v, x, s, r) /\ Learns(v, x, s, r)
<1>1. CASE Spent(v, x, Now)
    <2>1. r.st = x /\ r.fires = {}
        BY <1>1 DEF Fold, Quiet, Result
    <2>2. Folds(v, x, s, r)
        BY <2>1, FS_EmptySet DEF Folds, States
    <2>3. Learns(v, x, s, r)
        BY <2>1 DEF Learns, Learned
    <2> QED BY <2>2, <2>3
<1>2. CASE ~Spent(v, x, Now)
    <2>1. v.standing \/ x.fireCount = 0 \/ x.deliveryError
        <3>1. ASSUME ~v.standing, x.fireCount # 0, ~x.deliveryError PROVE FALSE
            <4>1. x.fireCount > 0
                BY <3>1 DEF States
            <4>2. Status(v, x, Now) = "fired"
                BY <3>1, <4>1 DEF Status
            <4> QED BY <4>2, <1>2 DEF Spent
        <3> QED BY <3>1
    <2>2. CASE v.op \in {"crosses", "count"}
        <3>1. r = crossing(v, x, Reading(v, s))
            BY <1>2, <2>2 DEF Fold
        <3> QED BY <2>1, <2>2, <3>1, CrossingLearns
    <2>3. CASE v.op = "becomes"
        <3>1. r = evalBecomes(v, x, Reading(v, s), Now)
            BY <1>2, <2>3 DEF Fold
        <3> QED BY <2>1, <2>3, <3>1, BecomesLearns
    <2>4. CASE v.op \in SetOps
        <3>1. r = evalSet(v, x, Reading(v, s), Now)
            BY <1>2, <2>4 DEF Fold, SetOps
        <3> QED BY <2>1, <2>4, <3>1, SetLearns
    <2> QED BY <2>2, <2>3, <2>4, ReadingTypes
<1> QED BY <1>1, <1>2

----------------------------------------------------------------------------
(* The list of a pass. *)

\* Alarms that differ in their watch or their entry have one order, in which
\* each of them comes once.  (Each goes to its rank, the number of those not
\* after it.)
LEMMA OrderedOnce ==
    ASSUME NEW S, IsFiniteSet(S),
           \A a \in S : a.id \in Nat /\ a.entry \in Nat,
           \A a, b \in S : a.id = b.id /\ a.entry = b.entry => a = b
    PROVE  LET q == InOrder(S)
           IN  /\ q \in [1..Cardinality(S) -> S]
               /\ Range(q) = S
               /\ \A i, j \in DOMAIN q : q[i] = q[j] => i = j
<1> DEFINE n == Cardinality(S)
           upto(a) == {c \in S : ~Before(a, c)}
           rank == [a \in S |-> Cardinality(upto(a))]
           Is(q) == q \in [1..n -> S] /\ \A i, j \in DOMAIN q : i < j => Before(q[i], q[j])
<1>1. n \in Nat
    BY FS_CardinalityType
<1>2. \A a \in S : ~Before(a, a)
    BY DEF Before
<1>3. \A a, b \in S : a = b \/ Before(a, b) \/ Before(b, a)
    BY DEF Before
<1>4. \A a, b, c \in S : Before(a, b) /\ ~Before(a, c) => ~Before(b, c)
    BY DEF Before
<1>5. \A a, b \in S : Before(a, b) => ~Before(b, a)
    BY DEF Before
<1>6. \A a \in S : rank[a] \in 1..n
    <2> SUFFICES ASSUME NEW a \in S PROVE rank[a] \in 1..n
        OBVIOUS
    <2>1. a \in upto(a) /\ upto(a) \in SUBSET S
        BY <1>2
    <2> HIDE DEF upto
    <2>2. IsFiniteSet(upto(a)) /\ Cardinality(upto(a)) <= n
        BY <2>1, FS_Subset
    <2>3. Cardinality(upto(a)) \in Nat /\ Cardinality(upto(a)) # 0
        BY <2>1, <2>2, FS_CardinalityType, FS_EmptySet
    <2>4. rank[a] = Cardinality(upto(a))
        OBVIOUS
    <2> QED BY <1>1, <2>2, <2>3, <2>4
<1>7. \A a, b \in S : Before(a, b) => rank[a] < rank[b]
    <2> SUFFICES ASSUME NEW a \in S, NEW b \in S, Before(a, b) PROVE rank[a] < rank[b]
        OBVIOUS
    <2>1. upto(a) \in SUBSET upto(b)
        BY <1>4
    <2>2. b \in upto(b) /\ b \notin upto(a)
        BY <1>2
    <2>3. upto(b) \in SUBSET S
        OBVIOUS
    <2>4. rank[a] = Cardinality(upto(a)) /\ rank[b] = Cardinality(upto(b))
        OBVIOUS
    <2> HIDE DEF upto
    <2>5. IsFiniteSet(upto(b))
        BY <2>3, FS_Subset
    <2>6. Cardinality(upto(a)) <= Cardinality(upto(b)) /\ Cardinality(upto(a)) # Cardinality(upto(b))
        BY <2>1, <2>2, <2>5, FS_Subset
    <2> HIDE DEF rank
    <2>7. rank[a] \in 1..n /\ rank[b] \in 1..n
        BY <1>6
    <2> QED BY <1>1, <2>4, <2>6, <2>7
<1> HIDE DEF n
<1>8. \A i \in 1..n : \E a \in S : rank[a] = i
    <2>1. rank \in [S -> 1..n]
        BY <1>6
    <2> HIDE DEF rank
    <2>2. \A a, b \in S : rank[a] = rank[b] => a = b
        BY <1>1, <1>3, <1>6, <1>7
    <2>3. rank \in Injection(S, 1..n)
        BY <2>1, <2>2 DEF Injection, IsInjective
    <2>4. IsFiniteSet(1..n) /\ Cardinality(1..n) = n
        BY <1>1, FS_Interval
    <2>5. rank \in Surjection(S, 1..n)
        BY <2>3, <2>4, FS_Injection DEF n
    <2> QED BY <2>5 DEF Surjection
<1>9. \E q : Is(q)
    <2> DEFINE q == [i \in 1..n |-> CHOOSE a \in S : rank[a] = i]
    <2> HIDE DEF rank
    <2>1. \A i \in 1..n : q[i] \in S /\ rank[q[i]] = i
        BY <1>8
    <2>2. q \in [1..n -> S]
        BY <2>1
    <2>3. DOMAIN q = 1..n
        OBVIOUS
    <2> HIDE DEF q
    <2>4. ASSUME NEW i \in 1..n, NEW j \in 1..n, i < j PROVE Before(q[i], q[j])
        <3>1. q[i] # q[j]
            BY <1>1, <2>1, <2>4
        <3>2. ~Before(q[j], q[i])
            BY <1>1, <1>7, <2>1, <2>4
        <3> QED BY <1>3, <2>1, <3>1, <3>2
    <2>5. Is(q)
        BY <2>2, <2>3, <2>4
    <2> QED BY <2>5
<1> DEFINE q == InOrder(S)
<1>10. q = CHOOSE p \in [1..n -> S] : \A i, j \in DOMAIN p : i < j => Before(p[i], p[j])
    BY DEF InOrder, n
<1> HIDE DEF q
<1>11. Is(q)
    BY <1>9, <1>10
<1>12. \A i, j \in DOMAIN q : q[i] = q[j] => i = j
    <2>1. DOMAIN q = 1..n /\ \A i \in 1..n : q[i] \in S
        BY <1>11
    <2> SUFFICES ASSUME NEW i \in 1..n, NEW j \in 1..n, q[i] = q[j] PROVE i = j
        BY <2>1
    <2>2. ~(i < j)
        BY <1>2, <1>11, <2>1
    <2>3. ~(j < i)
        BY <1>2, <1>11, <2>1
    <2> QED BY <1>1, <2>2, <2>3
<1>13. Range(q) = S
    <2>1. q \in Injection(1..n, S)
        BY <1>11, <1>12 DEF Injection, IsInjective
    <2>2. IsFiniteSet(1..n) /\ Cardinality(1..n) = Cardinality(S)
        BY <1>1, FS_Interval DEF n
    <2>3. q \in Surjection(1..n, S)
        BY <2>1, <2>2, FS_Injection
    <2> QED BY <1>11, <2>3 DEF Surjection, Range
<1> QED BY <1>11, <1>12, <1>13 DEF q, n

\* A list is its first alarm and the rest.
LEMMA HeadAndTail ==
    ASSUME NEW S, NEW q \in Seq(S), q # <<>>
    PROVE  /\ Head(q) \in S /\ Tail(q) \in Seq(S)
           /\ Range(q) = {Head(q)} \cup Range(Tail(q))
           /\ 1 \in DOMAIN q /\ Head(q) = q[1]
           /\ \A i \in DOMAIN Tail(q) : i + 1 \in DOMAIN q /\ i + 1 # 1 /\ Tail(q)[i] = q[i + 1]
<1>1. Len(q) \in Nat /\ Len(q) # 0 /\ DOMAIN q = 1..Len(q)
    OBVIOUS
<1>2. Head(q) \in S /\ Tail(q) \in Seq(S) /\ Head(q) = q[1] /\ 1 \in DOMAIN q
    BY <1>1
<1>3. DOMAIN Tail(q) = 1..(Len(q) - 1)
    OBVIOUS
<1>4. \A i \in DOMAIN Tail(q) : i + 1 \in DOMAIN q /\ i + 1 # 1 /\ Tail(q)[i] = q[i + 1]
    BY <1>1, <1>3
<1>5. \A i \in DOMAIN q : i = 1 \/ (i - 1 \in DOMAIN Tail(q) /\ q[i] = Tail(q)[i - 1])
    BY <1>1, <1>3
<1>6. Range(q) = {Head(q)} \cup Range(Tail(q))
    BY <1>2, <1>4, <1>5 DEF Range
<1> QED BY <1>2, <1>4, <1>6

\* Nothing is in an empty queue.
LEMMA EmptyList == Range(<<>>) = {} /\ DOMAIN <<>> = {}
    BY DEF Range

----------------------------------------------------------------------------
(* The steps. *)

\* The type invariant, in the parts that the steps are proved for.
LEMMA TypeParts == TypeOK <=> Flags /\ Sizes /\ Tables /\ Alarms /\ Records
    BY DEF TypeOK, Flags, Sizes, Tables, Alarms, Records

\* The alarms there are have an id, a revision, an entry and a pass.
LEMMA AlarmTypes ==
    ASSUME Alarms
    PROVE  /\ Range(queue) \subseteq Alarm
           /\ \A a \in tried \cup Range(queue) :
                 a.id \in Ids /\ a.rev \in Nat \ {0} /\ a.entry \in Sites \cup {0} /\ a.pass \in Nat \ {0}
<1>1. \A i \in DOMAIN queue : queue[i] \in Alarm
    BY DEF Alarms
<1>2. Range(queue) \subseteq Alarm
    BY <1>1 DEF Range
<1>3. tried \subseteq Alarm
    BY DEF Alarms
<1> QED BY <1>2, <1>3 DEF Alarm

\* The triggers there are have terms, a revision and a state.
LEMMA TriggerTypes ==
    ASSUME Tables
    PROVE  /\ \A id \in DOMAIN triggers :
                 /\ triggers[id] \in Trigger /\ id \in Ids
                 /\ triggers[id].w \in Terms /\ triggers[id].rev \in Nat \ {0}
                 /\ triggers[id].st \in States /\ triggers[id].st.fireCount \in Nat
           /\ \A id \in DOMAIN disk :
                 /\ disk[id] \in Trigger /\ id \in Ids
                 /\ disk[id].w \in Terms /\ disk[id].rev \in Nat \ {0}
                 /\ disk[id].st \in States /\ disk[id].st.fireCount \in Nat
<1>1. \A t \in Trigger : /\ t.w \in Terms /\ t.rev \in Nat \ {0}
                         /\ t.st \in States /\ t.st.fireCount \in Nat
    <2>1. Watches \subseteq Terms
        BY EngineAssumption
    <2> QED BY <2>1 DEF Trigger, States
<1> QED BY <1>1 DEF Tables, IsMap

\* Of more alarms there are no fewer of each revision.
LEMMA MoreOf ==
    ASSUME NEW S, NEW T, S \subseteq T, IsFiniteSet(T), NEW id, NEW rev
    PROVE  /\ Cardinality(Of(S, id, rev)) <= Cardinality(Of(T, id, rev))
           /\ Cardinality(Of(S, id, rev)) \in Nat /\ Cardinality(Of(T, id, rev)) \in Nat
           /\ IsFiniteSet(Of(T, id, rev))
<1>1. Of(S, id, rev) \in SUBSET Of(T, id, rev) /\ Of(T, id, rev) \in SUBSET T
    BY DEF Of
<1>2. IsFiniteSet(Of(T, id, rev))
    BY <1>1, FS_Subset
<1> QED BY <1>1, <1>2, FS_Subset, FS_CardinalityType

\* What was learned from some samples was learned from more.
LEMMA MoreLearned ==
    ASSUME NEW w, NEW st, NEW S, NEW T, S \subseteq T, Learned(w, st, S)
    PROVE  Learned(w, st, T)
    BY DEF Learned

\* The bounds are numbers.
LEMMA Bounds == MaxPasses \in Nat /\ MaxRequests \in Nat /\ MaxFaults \in Nat
    BY EngineAssumption

\* A pass begins: what it is going to add is of a later pass than what there is.
LEMMA WakeInv == IInv /\ Wake => IInv'
<1> SUFFICES ASSUME IInv, Wake PROVE IInv'
    OBVIOUS
<1>same1. Flags' /\ Tables' /\ Alarms' /\ Records'
    BY DEF IInv, Wake, history, Flags, Tables, Alarms, Records
<1>same2. Finite' /\ Waits' /\ Given' /\ Newest'
    BY DEF IInv, Wake, history, Finite, Waits, Given, Newest
<1>same3. /\ Persisted' /\ (Keeps(triggers))' /\ (Keeps(disk))'
          /\ (Counted(triggers, tried \cup Range(queue)))'
    BY DEF IInv, Wake, history, Persisted, Keeps, Counted, Of
<1>same4. /\ (Counted(disk, tried))' /\ Baselines' /\ (Over(triggers, told))'
          /\ (Over(disk, settled))'
    BY DEF IInv, Wake, history, Counted, Of, Baselines, Over
<1>same5. Alone'
    BY DEF IInv, Wake, history, Alone
<1>Sizes. Sizes'
    BY Bounds DEF IInv, Wake, Sizes
<1>Owed. Owed'
    <2>1. \A a \in tried \cup Range(queue) : a.pass \in Nat /\ a.pass <= passes
        BY AlarmTypes DEF IInv, Owed
    <2>2. passes \in Nat /\ passes' = passes + 1 /\ UNCHANGED <<rung, tried, queue>>
        BY Bounds DEF IInv, Sizes, Wake, history
    <2>3. \A a \in tried \cup Range(queue) : a.pass < passes' /\ a.pass <= passes'
        BY <2>1, <2>2
    <2> QED BY <2>2, <2>3 DEF IInv, Owed
<1> QED BY <1>same1, <1>same2, <1>same3, <1>same4, <1>same5, <1>Sizes, <1>Owed DEF IInv

\* The first alarm is tried; it stays in the list until that is recorded.
LEMMA DeliverInv == IInv /\ Deliver => IInv'
<1> SUFFICES ASSUME IInv, Deliver PROVE IInv'
    OBVIOUS
<1> DEFINE a == Head(queue)
<1>h. /\ at = "deliver" /\ at' = "record" /\ tried' = tried \cup {a} /\ failing' \in BOOLEAN
      /\ UNCHANGED <<triggers, snap, queue, rung, disk, monitoring, counters,
                     folded, told, settled, missed, early, said>>
    BY DEF Deliver
<1>q. a \in Range(queue) /\ a \in Alarm
    <2>1. queue # <<>> /\ queue \in Seq(Alarm)
        BY <1>h DEF IInv, Waits, Alarms
    <2> QED BY <2>1, HeadAndTail
<1>t. tried' \cup Range(queue') = tried \cup Range(queue)
    BY <1>h, <1>q
<1> HIDE DEF a
<1>same1. Flags' /\ Sizes' /\ Tables' /\ Records'
    BY <1>h DEF IInv, counters, Flags, Sizes, Tables, Records
<1>same2. Given' /\ Newest' /\ Persisted' /\ (Keeps(triggers))'
    BY <1>h DEF IInv, counters, Given, Newest, Persisted, Keeps
<1>same3. (Keeps(disk))' /\ Baselines' /\ (Over(triggers, told))' /\ (Over(disk, settled))'
    BY <1>h DEF IInv, counters, Keeps, Baselines, Over
<1>same4. Alone'
    BY <1>h DEF IInv, counters, Alone
<1>Alarms. Alarms'
    BY <1>h, <1>q DEF IInv, Alarms
<1>Finite. Finite'
    <2>1. IsFiniteSet(tried')
        BY <1>h, FS_AddElement DEF IInv, Finite
    <2> QED BY <1>h, <2>1 DEF IInv, Finite
<1>Waits. Waits'
    BY <1>h DEF IInv, Waits, a
<1>CountedM. (Counted(triggers, tried \cup Range(queue)))'
    BY <1>h, <1>t DEF IInv, Counted, Of
<1>CountedD. (Counted(disk, tried))'
    <2>1. tried \subseteq tried' /\ IsFiniteSet(tried')
        BY <1>h, FS_AddElement DEF IInv, Finite
    <2> SUFFICES ASSUME NEW id \in DOMAIN disk
                 PROVE  <<id, disk[id].rev>> \in early
                            \/ disk[id].st.fireCount <= Cardinality(Of(tried', id, disk[id].rev))
        BY <1>h DEF Counted
    <2> DEFINE R == disk[id].rev
    <2>2. <<id, R>> \in early \/ disk[id].st.fireCount <= Cardinality(Of(tried, id, R))
        BY DEF IInv, Counted
    <2>3. Cardinality(Of(tried, id, R)) <= Cardinality(Of(tried', id, R))
          /\ Cardinality(Of(tried, id, R)) \in Nat /\ Cardinality(Of(tried', id, R)) \in Nat
        BY <2>1, MoreOf
    <2>4. disk[id].st.fireCount \in Nat
        BY TriggerTypes DEF IInv
    <2> QED BY <2>2, <2>3, <2>4
<1>Owed. Owed'
    <2>1. rung' = rung /\ passes' = passes /\ at' # "fold"
        BY <1>h DEF counters
    <2> QED BY <1>t, <2>1 DEF IInv, Owed
<1> QED BY <1>same1, <1>same2, <1>same3, <1>same4, <1>Alarms, <1>Finite, <1>Waits, <1>CountedM,
           <1>CountedD, <1>Owed DEF IInv

\* The engine is not told of the switch.
LEMMA SetMonitoringInv == IInv /\ SetMonitoring => IInv'
<1> SUFFICES ASSUME IInv, SetMonitoring PROVE IInv'
    OBVIOUS
<1>same1. Flags' /\ Tables' /\ Alarms' /\ Records'
    BY DEF IInv, SetMonitoring, Request, Flags, Tables, Alarms, Records
<1>same2. Finite' /\ Waits' /\ Given' /\ Newest'
    BY DEF IInv, SetMonitoring, Request, Finite, Waits, Given, Newest
<1>same3. /\ Persisted' /\ (Keeps(triggers))' /\ (Keeps(disk))'
          /\ (Counted(triggers, tried \cup Range(queue)))'
    BY DEF IInv, SetMonitoring, Request, Persisted, Keeps, Counted, Of
<1>same4. (Counted(disk, tried))' /\ Owed' /\ Baselines' /\ (Over(triggers, told))'
    BY DEF IInv, SetMonitoring, Request, Counted, Of, Owed, Baselines, Over
<1>same5. (Over(disk, settled))' /\ Alone'
    BY DEF IInv, SetMonitoring, Request, Over, Alone
<1>Sizes. Sizes'
    BY Bounds DEF IInv, SetMonitoring, Request, Sizes
<1> QED BY <1>same1, <1>same2, <1>same3, <1>same4, <1>same5, <1>Sizes DEF IInv

\* Nothing happens.
LEMMA StutterInv == IInv /\ UNCHANGED vars => IInv'
<1> SUFFICES ASSUME IInv, UNCHANGED vars PROVE IInv'
    OBVIOUS
<1>same1. Flags' /\ Sizes' /\ Tables' /\ Alarms'
    BY DEF IInv, vars, memory, history, counters, Flags, Sizes, Tables, Alarms
<1>same2. Records' /\ Finite' /\ Waits' /\ Given'
    BY DEF IInv, vars, memory, history, counters, Records, Finite, Waits, Given
<1>same3. Newest' /\ Persisted' /\ (Keeps(triggers))' /\ (Keeps(disk))'
    BY DEF IInv, vars, memory, history, counters, Newest, Persisted, Keeps
<1>same4. /\ (Counted(triggers, tried \cup Range(queue)))' /\ (Counted(disk, tried))' /\ Owed'
          /\ Baselines'
    BY DEF IInv, vars, memory, history, counters, Counted, Of, Owed, Baselines
<1>same5. (Over(triggers, told))' /\ (Over(disk, settled))' /\ Alone'
    BY DEF IInv, vars, memory, history, counters, Over, Alone
<1> QED BY <1>same1, <1>same2, <1>same3, <1>same4, <1>same5 DEF IInv

\* A pass ends unsaved.
LEMMA SaveFailsInv == IInv /\ SavePass /\ NotWritten => IInv'
<1> SUFFICES ASSUME IInv, SavePass, NotWritten PROVE IInv'
    OBVIOUS
<1>same1. Flags' /\ Tables' /\ Alarms' /\ Records'
    BY DEF IInv, SavePass, NotWritten, Flags, Tables, Alarms, Records
<1>same2. Finite' /\ Waits' /\ Given' /\ Newest'
    BY DEF IInv, SavePass, NotWritten, Finite, Waits, Given, Newest
<1>same3. /\ Persisted' /\ (Keeps(triggers))' /\ (Keeps(disk))'
          /\ (Counted(triggers, tried \cup Range(queue)))'
    BY DEF IInv, SavePass, NotWritten, Persisted, Keeps, Counted, Of
<1>same4. (Counted(disk, tried))' /\ Owed' /\ Baselines' /\ (Over(triggers, told))'
    BY DEF IInv, SavePass, NotWritten, Counted, Of, Owed, Baselines, Over
<1>same5. (Over(disk, settled))' /\ Alone'
    BY DEF IInv, SavePass, NotWritten, Over, Alone
<1>Sizes. Sizes'
    BY Bounds DEF IInv, SavePass, NotWritten, Sizes
<1> QED BY <1>same1, <1>same2, <1>same3, <1>same4, <1>same5, <1>Sizes DEF IInv

\* A pass ends saved: what held of the memory now holds of the disk, and no alarm waits.
LEMMA SaveInv == IInv /\ SavePass /\ Written(triggers) => IInv'
<1> SUFFICES ASSUME IInv, SavePass, Written(triggers) PROVE IInv'
    OBVIOUS
<1>h. /\ at = "save" /\ at' = "idle" /\ disk' = triggers /\ settled' = told /\ missed' = FALSE
      /\ UNCHANGED <<triggers, snap, queue, failing, rung, monitoring, passes, requests, minted,
                     tried, folded, told, early, said, faults>>
    BY DEF SavePass, Written
<1>q. queue = <<>> /\ Range(queue) = {}
    BY <1>h, EmptyList DEF IInv, Waits
<1>same1. Flags' /\ Sizes' /\ Tables' /\ Alarms'
    BY <1>h DEF IInv, Flags, Sizes, Tables, Alarms
<1>same2. Records' /\ Finite' /\ Waits' /\ Given'
    BY <1>h DEF IInv, Records, Finite, Waits, Given
<1>same3. /\ Persisted' /\ (Keeps(triggers))' /\ (Keeps(disk))'
          /\ (Counted(triggers, tried \cup Range(queue)))'
    BY <1>h DEF IInv, Persisted, Keeps, Counted, Of
<1>same4. Owed' /\ (Over(triggers, told))' /\ (Over(disk, settled))' /\ Alone'
    BY <1>h DEF IInv, Owed, Over, Alone
<1>Newest. Newest'
    <2>1. \A id \in DOMAIN triggers : triggers[id].rev <= triggers[id].rev
        BY TriggerTypes DEF IInv
    <2> QED BY <1>h, <2>1 DEF IInv, Newest
<1>CountedD. (Counted(disk, tried))'
    <2>1. tried \cup Range(queue) = tried
        BY <1>q
    <2> QED BY <1>h, <2>1 DEF IInv, Counted, Of
<1>Baselines. Baselines'
    <2>1. \A id \in DOMAIN triggers : folded[id] \subseteq Worlds
        BY DEF IInv, Tables, IsMap, Given
    <2>2. \A id \in DOMAIN triggers : Learned(triggers[id].w, triggers[id].st, Worlds)
        BY <2>1, MoreLearned DEF IInv, Baselines
    <2> QED BY <1>h, <2>2 DEF IInv, Baselines
<1> QED BY <1>same1, <1>same2, <1>same3, <1>same4, <1>Newest, <1>CountedD, <1>Baselines DEF IInv

\* The process ends and starts: the memory is what the disk holds, and the alarms that
\* waited are gone.
LEMMA RestartInv == IInv /\ Restart => IInv'
<1> SUFFICES ASSUME IInv, Restart PROVE IInv'
    OBVIOUS
<1>h. /\ faults < MaxFaults /\ faults' = faults + 1 /\ triggers' = disk /\ at' = "idle"
      /\ queue' = <<>> /\ failing' = FALSE /\ rung' = {} /\ told' = settled /\ missed' = FALSE
      /\ folded' = [id \in DOMAIN disk |->
                      IF id \in DOMAIN folded /\ triggers[id].rev = disk[id].rev
                      THEN folded[id] ELSE Worlds]
      /\ UNCHANGED <<snap, disk, monitoring, passes, requests, minted, tried, settled, early, said>>
    BY DEF Restart
<1>q. Range(queue') = {} /\ DOMAIN queue' = {} /\ queue' \in Seq(Alarm)
    BY <1>h, EmptyList
<1>same1. Flags' /\ Records' /\ Finite' /\ Waits'
    BY <1>h DEF IInv, Flags, Records, Finite, Waits
<1>same2. Persisted' /\ (Keeps(triggers))' /\ (Keeps(disk))' /\ (Counted(disk, tried))'
    BY <1>h DEF IInv, Persisted, Keeps, Counted, Of
<1>same3. (Over(triggers, told))' /\ (Over(disk, settled))'
    BY <1>h DEF IInv, Over
<1>Sizes. Sizes'
    BY <1>h, Bounds DEF IInv, Sizes
<1>Tables. Tables'
    <2>1. \A id \in DOMAIN disk : folded'[id] \in SUBSET Worlds
        BY <1>h DEF IInv, Tables, IsMap
    <2> QED BY <1>h, <2>1 DEF IInv, Tables, IsMap
<1>Alarms. Alarms'
    BY <1>h, <1>q DEF IInv, Alarms
<1>Given. Given'
    BY <1>h, <1>q DEF IInv, Given
<1>Newest. Newest'
    <2>1. \A id \in DOMAIN disk : disk[id].rev <= disk[id].rev
        BY TriggerTypes DEF IInv
    <2> QED BY <1>h, <1>q, <2>1 DEF IInv, Newest
<1>CountedM. (Counted(triggers, tried \cup Range(queue)))'
    <2>1. tried' \cup Range(queue') = tried
        BY <1>h, <1>q
    <2> QED BY <1>h, <2>1 DEF IInv, Counted, Of
<1>Owed. Owed'
    <2>1. tried' \cup Range(queue') = tried
        BY <1>h, <1>q
    <2> QED BY <1>h, <2>1 DEF IInv, Owed
<1>Baselines. Baselines'
    <2>1. ASSUME NEW id \in DOMAIN disk PROVE Learned(disk[id].w, disk[id].st, folded'[id])
        <3>1. CASE id \in DOMAIN folded /\ triggers[id].rev = disk[id].rev
            BY <1>h, <3>1 DEF IInv, Baselines, Given
        <3>2. CASE ~(id \in DOMAIN folded /\ triggers[id].rev = disk[id].rev)
            BY <1>h, <3>2 DEF IInv, Baselines
        <3> QED BY <3>1, <3>2
    <2> QED BY <1>h, <2>1 DEF IInv, Baselines
<1>Alone. Alone'
    BY <1>h, <1>q DEF IInv, Alone
<1> QED BY <1>same1, <1>same2, <1>same3, <1>Sizes, <1>Tables, <1>Alarms, <1>Given, <1>Newest,
           <1>CountedM, <1>Owed, <1>Baselines, <1>Alone DEF IInv

\* A delivery is recorded with whatever has the alarm's id by now: only its error
\* moves.
LEMMA RecordInv == IInv /\ Record => IInv'
<1> SUFFICES ASSUME IInv, Record PROVE IInv'
    OBVIOUS
<1> DEFINE a == Head(queue)
<1>h. /\ at = "record"
      /\ triggers' = IF a.id \in DOMAIN triggers
                     THEN [triggers EXCEPT ![a.id].st.deliveryError = failing] ELSE triggers
      /\ told' = IF failing THEN told ELSE told \cup {<<a.id, a.rev>>}
      /\ queue' = Tail(queue)
      /\ at' = IF queue' = <<>> THEN "save" ELSE "deliver"
      /\ failing' = FALSE
      /\ UNCHANGED <<snap, rung, disk, monitoring, passes, requests, faults, minted,
                     tried, folded, settled, missed, early, said>>
    BY DEF Record, counters
<1>q. /\ a \in Alarm /\ a \in tried /\ a \in Range(queue) /\ queue' \in Seq(Alarm)
      /\ Range(queue) = {a} \cup Range(queue')
      /\ 1 \in DOMAIN queue /\ a = queue[1]
      /\ \A i \in DOMAIN queue' : i + 1 \in DOMAIN queue /\ i + 1 # 1 /\ queue'[i] = queue[i + 1]
    <2>1. queue # <<>> /\ queue \in Seq(Alarm)
        BY <1>h DEF IInv, Waits, Alarms
    <2> QED BY <1>h, <2>1, HeadAndTail DEF IInv, Waits
<1>t. tried' \cup Range(queue') = tried \cup Range(queue)
    BY <1>h, <1>q
<1>a. a.id \in Ids /\ a.rev \in Nat
    BY <1>q DEF Alarm
<1> HIDE DEF a
<1>m. /\ DOMAIN triggers' = DOMAIN triggers
      /\ \A id \in DOMAIN triggers :
            /\ triggers'[id] \in Trigger
            /\ triggers'[id].w = triggers[id].w /\ triggers'[id].rev = triggers[id].rev
            /\ triggers'[id].st.primed = triggers[id].st.primed
            /\ triggers'[id].st.number = triggers[id].st.number
            /\ triggers'[id].st.text = triggers[id].st.text
            /\ triggers'[id].st.seen = triggers[id].st.seen
            /\ triggers'[id].st.fireCount = triggers[id].st.fireCount
            /\ triggers'[id].st.deliveryError =
                 IF id = a.id THEN failing ELSE triggers[id].st.deliveryError
    <2>1. failing \in BOOLEAN
        BY DEF IInv, Flags
    <2>2. DOMAIN triggers' = DOMAIN triggers
        BY <1>h
    <2> SUFFICES ASSUME NEW id \in DOMAIN triggers
                 PROVE  /\ triggers'[id] \in Trigger
                        /\ triggers'[id].w = triggers[id].w /\ triggers'[id].rev = triggers[id].rev
                        /\ triggers'[id].st.primed = triggers[id].st.primed
                        /\ triggers'[id].st.number = triggers[id].st.number
                        /\ triggers'[id].st.text = triggers[id].st.text
                        /\ triggers'[id].st.seen = triggers[id].st.seen
                        /\ triggers'[id].st.fireCount = triggers[id].st.fireCount
                        /\ triggers'[id].st.deliveryError =
                             IF id = a.id THEN failing ELSE triggers[id].st.deliveryError
        BY <2>2
    <2> DEFINE t == triggers[id]
    <2>3. t \in Trigger /\ t.st \in States
        BY TriggerTypes DEF IInv
    <2>4. CASE id = a.id
        <3> DEFINE u == [t EXCEPT !.st.deliveryError = failing]
        <3>1. triggers'[id] = u
            BY <1>h, <2>4
        <3> HIDE DEF t
        <3>2. u.w = t.w /\ u.rev = t.rev /\ u.st = [t.st EXCEPT !.deliveryError = failing]
              /\ u \in [w : {t.w}, rev : {t.rev}, st : {u.st}]
            BY <2>3 DEF Trigger
        <3> DEFINE s == t.st
        <3>3. u.st = [s EXCEPT !.deliveryError = failing] /\ s \in States
            BY <2>3, <3>2
        <3> HIDE DEF s
        <3> HIDE DEF u
        <3>4. /\ u.st \in States /\ u.st.primed = s.primed /\ u.st.number = s.number
              /\ u.st.text = s.text /\ u.st.seen = s.seen /\ u.st.fireCount = s.fireCount
              /\ u.st.deliveryError = failing
            BY <2>1, <3>3 DEF States
        <3>5. u \in Trigger
            BY <2>3, <3>2, <3>4 DEF Trigger
        <3> QED BY <2>4, <3>1, <3>2, <3>4, <3>5 DEF s, t
    <2>5. CASE id # a.id
        BY <1>h, <2>3, <2>5
    <2> QED BY <2>4, <2>5
<1>same1. Flags' /\ Sizes' /\ Waits' /\ Persisted'
    BY <1>h DEF IInv, Flags, Sizes, Waits, Persisted
<1>same2. (Keeps(disk))' /\ (Counted(disk, tried))' /\ (Over(disk, settled))'
    BY <1>h DEF IInv, Keeps, Counted, Of, Over
<1>Tables. Tables'
    BY <1>h, <1>m DEF IInv, Tables, IsMap
<1>Alarms. Alarms'
    BY <1>h, <1>q DEF IInv, Alarms
<1>Records. Records'
    BY <1>h, <1>a DEF IInv, Records
<1>Finite. Finite'
    BY <1>h, <1>m DEF IInv, Finite
<1>Given. Given'
    <2>1. a.id \in minted
        BY <1>q DEF IInv, Given
    <2>2. \A p \in told' : p[1] \in minted
        BY <1>h, <2>1 DEF IInv, Given
    <2>3. \A b \in Range(queue') : b.id \in minted
        BY <1>q DEF IInv, Given
    <2> QED BY <1>h, <1>m, <2>2, <2>3 DEF IInv, Given
<1>Newest. Newest'
    <2>1. a.id \in DOMAIN triggers => a.rev <= triggers[a.id].rev
        BY <1>q DEF IInv, Newest
    <2>2. \A p \in told' : p[1] \in DOMAIN triggers' => p[2] <= triggers'[p[1]].rev
        <3> SUFFICES ASSUME NEW p \in told', p[1] \in DOMAIN triggers PROVE p[2] <= triggers'[p[1]].rev
            BY <1>m
        <3>1. CASE p \in told
            BY <1>m, <3>1 DEF IInv, Newest
        <3>2. CASE p = <<a.id, a.rev>>
            BY <1>m, <2>1, <3>2
        <3> QED BY <1>h, <3>1, <3>2
    <2>3. \A b \in Range(queue') : b.id \in DOMAIN triggers' => b.rev <= triggers'[b.id].rev
        BY <1>q, <1>m DEF IInv, Newest
    <2>4. \A id \in DOMAIN disk \cap DOMAIN triggers' : disk[id].rev <= triggers'[id].rev
        BY <1>m DEF IInv, Newest
    <2>5. \A p \in settled : p[1] \in DOMAIN disk => p[2] <= disk[p[1]].rev
        BY DEF IInv, Newest
    <2> QED BY <1>h, <2>2, <2>3, <2>4, <2>5 DEF Newest
<1>KeepsM. (Keeps(triggers))'
    BY <1>h, <1>m DEF IInv, Keeps
<1>CountedM. (Counted(triggers, tried \cup Range(queue)))'
    BY <1>h, <1>m, <1>t DEF IInv, Counted, Of
<1>Owed. Owed'
    BY <1>h, <1>t DEF IInv, Owed
<1>Baselines. Baselines'
    <2>1. ASSUME NEW id \in DOMAIN triggers
          PROVE  Learned(triggers'[id].w, triggers'[id].st, folded[id])
        <3>1. Learned(triggers[id].w, triggers[id].st, folded[id])
            BY DEF IInv, Baselines
        <3> QED BY <1>m, <3>1 DEF Learned
    <2>2. \A id \in DOMAIN disk \cap DOMAIN triggers' :
             disk[id].rev = triggers'[id].rev => Learned(disk[id].w, disk[id].st, folded[id])
        BY <1>m DEF IInv, Baselines
    <2>3. \A id \in DOMAIN disk : Learned(disk[id].w, disk[id].st, Worlds)
        BY DEF IInv, Baselines
    <2> QED BY <1>h, <1>m, <2>1, <2>2, <2>3 DEF Baselines
<1>OverM. (Over(triggers, told))'
    <2> SUFFICES ASSUME NEW id \in DOMAIN triggers, ~triggers[id].w.standing,
                        <<id, triggers[id].rev>> \in told'
                 PROVE  triggers'[id].st.fireCount > 0 /\ ~triggers'[id].st.deliveryError
        BY <1>m DEF Over
    <2>1. CASE <<id, triggers[id].rev>> \in told
        <3>1. id # a.id
            BY <1>q, <2>1 DEF IInv, Alone
        <3>2. triggers[id].st.fireCount > 0 /\ ~triggers[id].st.deliveryError
            BY <2>1 DEF IInv, Over
        <3> QED BY <1>m, <3>1, <3>2
    <2>2. CASE <<id, triggers[id].rev>> = <<a.id, a.rev>> /\ ~failing
        <3>1. triggers[id].st.fireCount > 0
            BY <1>q, <2>2 DEF IInv, Alone
        <3> QED BY <1>m, <2>2, <3>1
    <2> QED BY <1>h, <2>1, <2>2
<1>Alone. Alone'
    <2>1. ASSUME NEW id \in DOMAIN triggers, ~triggers[id].w.standing,
                 <<id, triggers[id].rev>> \in told', NEW b \in Range(queue')
          PROVE  b.id # id
        <3>1. CASE <<id, triggers[id].rev>> \in told
            BY <1>q, <2>1, <3>1 DEF IInv, Alone
        <3>2. CASE <<id, triggers[id].rev>> = <<a.id, a.rev>>
            <4>1. \A j \in DOMAIN queue \ {1} : queue[j].id # id
                BY <1>q, <2>1, <3>2 DEF IInv, Alone
            <4>2. PICK i \in DOMAIN queue' : b = queue'[i]
                BY <2>1 DEF Range
            <4>3. i + 1 \in DOMAIN queue \ {1} /\ b = queue[i + 1]
                BY <1>q, <4>2
            <4> QED BY <4>1, <4>3
        <3> QED BY <1>h, <2>1, <3>1, <3>2
    <2>2. ASSUME NEW i \in DOMAIN queue', queue'[i].id \in DOMAIN triggers,
                 queue'[i].rev = triggers[queue'[i].id].rev
          PROVE  /\ triggers'[queue'[i].id].st.fireCount > 0
                 /\ ~triggers[queue'[i].id].w.standing =>
                       \A j \in DOMAIN queue' \ {i} : queue'[j].id # queue'[i].id
        <3> DEFINE k == i + 1
        <3>1. k \in DOMAIN queue /\ queue'[i] = queue[k]
            BY <1>q
        <3> HIDE DEF k
        <3>2. /\ triggers[queue[k].id].st.fireCount > 0
              /\ ~triggers[queue[k].id].w.standing =>
                    \A j \in DOMAIN queue \ {k} : queue[j].id # queue[k].id
            BY <2>2, <3>1 DEF IInv, Alone
        <3>3. triggers'[queue'[i].id].st.fireCount > 0
            BY <1>m, <2>2, <3>1, <3>2
        <3>4. ASSUME ~triggers[queue'[i].id].w.standing, NEW j \in DOMAIN queue' \ {i}
              PROVE  queue'[j].id # queue'[i].id
            <4>1. j + 1 \in DOMAIN queue /\ queue'[j] = queue[j + 1]
                BY <1>q
            <4>2. j \in Int /\ i \in Int
                BY <1>q
            <4>3. j + 1 # k
                BY <4>2 DEF k
            <4> QED BY <3>1, <3>2, <3>4, <4>1, <4>3
        <3> QED BY <3>3, <3>4
    <2> QED BY <1>m, <2>1, <2>2 DEF Alone
<1> QED BY <1>same1, <1>same2, <1>Tables, <1>Alarms, <1>Records, <1>Finite, <1>Given, <1>Newest,
           <1>KeepsM, <1>CountedM, <1>Owed, <1>Baselines, <1>OverM, <1>Alone DEF IInv

\* What a pass does to each trigger, and what it puts in the list.
Rings(id) == Fold(triggers[id].w, triggers[id].st, snap, Now)

IsNew(a) ==
    /\ a \in Alarm /\ a.id \in DOMAIN triggers
    /\ a.rev = triggers[a.id].rev /\ a.pass = passes /\ a.entry \in Rings(a.id).fires

Folded ==
    /\ at = "fold"
    /\ DOMAIN triggers' = DOMAIN triggers
    /\ triggers' = [id \in DOMAIN triggers |-> triggers'[id]]
    /\ folded' = [id \in DOMAIN triggers |-> folded'[id]]
    /\ \A id \in DOMAIN triggers :
          /\ triggers'[id] \in Trigger
          /\ triggers'[id].w = triggers[id].w /\ triggers'[id].rev = triggers[id].rev
          /\ triggers'[id].st = Rings(id).st
          /\ folded'[id] = folded[id] \cup {snap}
    /\ DOMAIN folded' = DOMAIN triggers
    /\ queue' \in Seq(Alarm)
    /\ \A a : a \in Range(queue') <=> IsNew(a)
    /\ \A i, j \in DOMAIN queue' : queue'[i] = queue'[j] => i = j
    /\ IsFiniteSet(Range(queue'))
    /\ queue' = <<>> <=> Range(queue') = {}
    /\ rung' = rung \cup Range(queue')
    /\ \/ at' = "deliver" /\ queue' # <<>>
       \/ at' = "save" /\ queue' = <<>>
       \/ /\ at' = "idle" /\ queue' = <<>>
          /\ \A id \in DOMAIN triggers : sameState(triggers[id].st, Rings(id).st)
    /\ UNCHANGED <<snap, failing, disk, monitoring, passes, requests, faults, minted,
                   tried, told, settled, missed, early, said>>

\* What a pass makes of one trigger, as promised by the operators.
LEMMA RingsFold ==
    ASSUME IInv, NEW id \in DOMAIN triggers
    PROVE  /\ Folds(triggers[id].w, triggers[id].st, snap, Rings(id))
           /\ Learns(triggers[id].w, triggers[id].st, snap, Rings(id))
<1>1. triggers[id].w \in Terms /\ triggers[id].st \in States
    BY TriggerTypes DEF IInv
<1>2. snap \in Samples
    BY EngineAssumption DEF IInv, Alarms
<1> DEFINE v == triggers[id].w
           x == triggers[id].st
           r == Rings(id)
<1>3. r = Fold(v, x, snap, Now)
    BY DEF Rings
<1> HIDE DEF v, x, r
<1>4. v \in Terms /\ x \in States
    BY <1>1 DEF v, x
<1>5. Folds(v, x, snap, r) /\ Learns(v, x, snap, r)
    BY <1>2, <1>3, <1>4, FoldFolds
<1> QED BY <1>5 DEF v, x, r

\* What a pass makes of all of them.
LEMMA FoldAllFolds ==
    ASSUME IInv, FoldAll PROVE Folded
<1> DEFINE alarms == UNION {{[id |-> id, rev |-> triggers[id].rev, entry |-> e, pass |-> passes] :
                               e \in Rings(id).fires} : id \in DOMAIN triggers}
           f == [id \in DOMAIN triggers |-> Rings(id)]
<1>1. /\ at = "fold"
      /\ triggers' = [id \in DOMAIN triggers |-> [triggers[id] EXCEPT !.st = f[id].st]]
      /\ queue' = InOrder(UNION {{[id |-> id, rev |-> triggers[id].rev, entry |-> e, pass |-> passes] :
                               e \in f[id].fires} : id \in DOMAIN triggers})
      /\ rung' = rung \cup UNION {{[id |-> id, rev |-> triggers[id].rev, entry |-> e, pass |-> passes] :
                               e \in f[id].fires} : id \in DOMAIN triggers}
      /\ at' = IF UNION {{[id |-> id, rev |-> triggers[id].rev, entry |-> e, pass |-> passes] :
                               e \in f[id].fires} : id \in DOMAIN triggers} # {} THEN "deliver"
               ELSE IF \/ UNION {{[id |-> id, rev |-> triggers[id].rev, entry |-> e, pass |-> passes] :
                               e \in f[id].fires} : id \in DOMAIN triggers} # {}
                       \/ \E id \in DOMAIN triggers : ~sameState(triggers[id].st, f[id].st)
                    THEN "save" ELSE "idle"
      /\ folded' = [id \in DOMAIN triggers |-> folded[id] \cup {snap}]
      /\ UNCHANGED <<snap, failing, disk, monitoring, passes, requests, faults, minted,
                     tried, told, settled, missed, early, said>>
    BY DEF FoldAll, counters, Rings
<1>2. UNION {{[id |-> id, rev |-> triggers[id].rev, entry |-> e, pass |-> passes] :
                               e \in f[id].fires} : id \in DOMAIN triggers} = alarms
      /\ \A id \in DOMAIN triggers : f[id] = Rings(id)
    OBVIOUS
<1> HIDE DEF alarms, f
<1>3. /\ triggers' = [id \in DOMAIN triggers |-> [triggers[id] EXCEPT !.st = Rings(id).st]]
      /\ queue' = InOrder(alarms) /\ rung' = rung \cup alarms
      /\ at' = IF alarms # {} THEN "deliver"
               ELSE IF \E id \in DOMAIN triggers : ~sameState(triggers[id].st, Rings(id).st)
                    THEN "save" ELSE "idle"
    BY <1>1, <1>2
<1>4. \A id \in DOMAIN triggers :
          /\ id \in Ids /\ triggers[id].rev \in Nat \ {0}
          /\ Rings(id).st \in States /\ Rings(id).fires \in SUBSET (Sites \cup {0})
    BY TriggerTypes, RingsFold DEF IInv, Folds
<1>5. passes \in Nat \ {0}
    BY <1>1, Bounds DEF IInv, Sizes, Owed
<1>6. \A a : a \in alarms <=> IsNew(a)
    <2>1. ASSUME NEW a \in alarms PROVE IsNew(a)
        <3>1. PICK id \in DOMAIN triggers : \E e \in Rings(id).fires :
                  a = [id |-> id, rev |-> triggers[id].rev, entry |-> e, pass |-> passes]
            BY <2>1 DEF alarms
        <3> PICK e \in Rings(id).fires :
                  a = [id |-> id, rev |-> triggers[id].rev, entry |-> e, pass |-> passes]
            BY <3>1
        <3>2. a.id = id /\ a.rev = triggers[id].rev /\ a.entry = e /\ a.pass = passes
            OBVIOUS
        <3>3. e \in Sites \cup {0}
            BY <1>4
        <3>4. a \in Alarm
            BY <1>4, <1>5, <3>3 DEF Alarm
        <3> QED BY <3>2, <3>4 DEF IsNew
    <2>2. ASSUME NEW a, IsNew(a) PROVE a \in alarms
        <3>1. a = [id |-> a.id, rev |-> triggers[a.id].rev, entry |-> a.entry, pass |-> passes]
            BY <2>2 DEF IsNew, Alarm
        <3>2. a.id \in DOMAIN triggers /\ a.entry \in Rings(a.id).fires
            BY <2>2 DEF IsNew
        <3> QED BY <3>1, <3>2 DEF alarms
    <2> QED BY <2>1, <2>2
<1>7. \A a \in alarms : a.id \in Nat /\ a.entry \in Nat
    <2>1. \A a \in alarms : a.id \in Ids /\ a.entry \in Sites \cup {0}
        BY <1>6 DEF IsNew, Alarm
    <2>2. Ids \subseteq Nat
        BY EngineAssumption
    <2>3. Sites \cup {0} \subseteq Nat
        BY SitesAssumption
    <2> QED BY <2>1, <2>2, <2>3, Zenon
<1>8. \A a, b \in alarms : a.id = b.id /\ a.entry = b.entry => a = b
    BY <1>6 DEF IsNew, Alarm
<1>9. IsFiniteSet(alarms)
    <2> DEFINE places == (DOMAIN triggers) \X (Sites \cup {0})
               place == [a \in alarms |-> <<a.id, a.entry>>]
    <2>1. IsFiniteSet(Sites \cup {0})
        BY SitesAssumption, FS_AddElement
    <2>2. IsFiniteSet(places)
        BY <2>1, FS_Product DEF IInv, Finite
    <2>3. \A a \in alarms : <<a.id, a.entry>> \in places
        BY <1>6 DEF IsNew, Alarm
    <2>4. place \in [alarms -> places]
        BY <2>3
    <2>5. \A a, b \in alarms : place[a] = place[b] => a = b
        BY <1>8
    <2> HIDE DEF places, place
    <2>6. place \in Injection(alarms, places)
        BY <2>4, <2>5 DEF Injection, IsInjective
    <2> QED BY <2>2, <2>6, FS_Injection
<1>10. /\ queue' \in [1..Cardinality(alarms) -> alarms]
       /\ Range(queue') = alarms
       /\ \A i, j \in DOMAIN queue' : queue'[i] = queue'[j] => i = j
    BY <1>3, <1>7, <1>8, <1>9, OrderedOnce
<1>11. queue' \in Seq(Alarm)
    <2>1. alarms \subseteq Alarm /\ Cardinality(alarms) \in Nat
        BY <1>6, <1>9, FS_CardinalityType DEF IsNew
    <2>2. queue' \in [1..Cardinality(alarms) -> Alarm]
        BY <1>10, <2>1
    <2> QED BY <2>1, <2>2
<1>12. queue' = <<>> <=> Range(queue') = {}
    <2>1. ASSUME Range(queue') = {} PROVE queue' = <<>>
        <3>1. Cardinality(alarms) = 0
            BY <1>10, <2>1, FS_EmptySet
        <3>2. Len(queue') = 0
            BY <1>10, <1>11, <3>1
        <3> QED BY <1>11, <3>2
    <2> QED BY <2>1, EmptyList
<1>13. \A id \in DOMAIN triggers :
          /\ triggers'[id] \in Trigger
          /\ triggers'[id].w = triggers[id].w /\ triggers'[id].rev = triggers[id].rev
          /\ triggers'[id].st = Rings(id).st
    <2> SUFFICES ASSUME NEW id \in DOMAIN triggers
                 PROVE  /\ triggers'[id] \in Trigger
                        /\ triggers'[id].w = triggers[id].w /\ triggers'[id].rev = triggers[id].rev
                        /\ triggers'[id].st = Rings(id).st
        OBVIOUS
    <2>1. triggers'[id] = [triggers[id] EXCEPT !.st = Rings(id).st] /\ Rings(id).st \in States
        BY <1>3, <1>4
    <2>2. triggers[id] \in Trigger
        BY TriggerTypes DEF IInv
    <2> QED BY <2>1, <2>2 DEF Trigger
<1>14. /\ DOMAIN triggers' = DOMAIN triggers /\ DOMAIN folded' = DOMAIN triggers
       /\ \A id \in DOMAIN triggers : folded'[id] = folded[id] \cup {snap}
       /\ triggers' = [id \in DOMAIN triggers |-> triggers'[id]]
       /\ folded' = [id \in DOMAIN triggers |-> folded'[id]]
    BY <1>1, <1>3
<1>15. \/ at' = "deliver" /\ queue' # <<>>
       \/ at' = "save" /\ queue' = <<>>
       \/ /\ at' = "idle" /\ queue' = <<>>
          /\ \A id \in DOMAIN triggers : sameState(triggers[id].st, Rings(id).st)
    BY <1>3, <1>10, <1>12
<1> QED BY <1>1, <1>3, <1>6, <1>9, <1>10, <1>11, <1>12, <1>13, <1>14, <1>15 DEF Folded

\* Every trigger folds the snapshot: its count goes up by its new alarms, which
\* are of this pass and so none of those before, and what it remembers is the snapshot.
LEMMA FoldAllInv == IInv /\ FoldAll => IInv'
<1> SUFFICES ASSUME IInv, FoldAll PROVE IInv'
    OBVIOUS
<1>f. Folded
    BY FoldAllFolds
<1>h. /\ at = "fold" /\ at' \in {"deliver", "save", "idle"}
      /\ DOMAIN triggers' = DOMAIN triggers /\ DOMAIN folded' = DOMAIN triggers
      /\ UNCHANGED <<snap, failing, disk, monitoring, passes, requests, faults, minted,
                     tried, told, settled, missed, early, said>>
    BY <1>f DEF Folded
<1>m. \A id \in DOMAIN triggers :
          /\ triggers'[id] \in Trigger
          /\ triggers'[id].w = triggers[id].w /\ triggers'[id].rev = triggers[id].rev
          /\ triggers'[id].st = Rings(id).st
    BY <1>f DEF Folded
<1>r. \A id \in DOMAIN triggers :
          /\ Folds(triggers[id].w, triggers[id].st, snap, Rings(id))
          /\ Learns(triggers[id].w, triggers[id].st, snap, Rings(id))
    BY RingsFold
<1>q. queue = <<>> /\ Range(queue) = {}
    BY <1>h, EmptyList DEF IInv, Waits
<1>n. \A a : a \in Range(queue') <=> IsNew(a)
    BY <1>f DEF Folded
<1>c. IsFiniteSet(Range(queue')) /\ Range(queue') \subseteq Alarm
    BY <1>f, <1>n DEF Folded, IsNew
<1>same1. Flags' /\ Sizes' /\ Records' /\ Finite'
    BY <1>h DEF IInv, Flags, Sizes, Records, Finite
<1>same2. (Keeps(disk))' /\ (Counted(disk, tried))' /\ (Over(disk, settled))'
    BY <1>h DEF IInv, Keeps, Counted, Of, Over
<1>Tables. Tables'
    <2>1. \A id \in DOMAIN triggers : folded'[id] \in SUBSET Worlds
        BY <1>f DEF Folded, IInv, Tables, IsMap, Given, Alarms
    <2> QED BY <1>f, <1>h, <1>m, <2>1 DEF Folded, IInv, Tables, IsMap
<1>Alarms. Alarms'
    <2>1. queue' \in Seq(Alarm) /\ rung' \subseteq Alarm
        BY <1>f, <1>c DEF Folded, IInv, Alarms
    <2> QED BY <1>h, <2>1 DEF IInv, Alarms
<1>Waits. Waits'
    BY <1>f DEF Folded, Waits
<1>Given. Given'
    <2>1. \A a \in Range(queue') : a.id \in minted
        BY <1>n DEF IsNew, IInv, Given
    <2> QED BY <1>h, <2>1 DEF IInv, Given
<1>Newest. Newest'
    <2>1. \A a \in Range(queue') : a.id \in DOMAIN triggers' => a.rev <= triggers'[a.id].rev
        <3> SUFFICES ASSUME NEW a \in Range(queue') PROVE a.rev <= triggers'[a.id].rev
            OBVIOUS
        <3>1. a.id \in DOMAIN triggers /\ a.rev = triggers[a.id].rev
            BY <1>n DEF IsNew
        <3>2. triggers[a.id].rev \in Nat
            BY <3>1, TriggerTypes DEF IInv
        <3> QED BY <1>m, <3>1, <3>2
    <2>2. \A id \in DOMAIN disk \cap DOMAIN triggers' : disk[id].rev <= triggers'[id].rev
        BY <1>h, <1>m DEF IInv, Newest
    <2>3. \A p \in told : p[1] \in DOMAIN triggers' => p[2] <= triggers'[p[1]].rev
        BY <1>h, <1>m DEF IInv, Newest
    <2>4. \A p \in settled : p[1] \in DOMAIN disk => p[2] <= disk[p[1]].rev
        BY DEF IInv, Newest
    <2> QED BY <1>h, <2>1, <2>2, <2>3, <2>4 DEF Newest
<1>Persisted. Persisted'
    <2> SUFFICES ASSUME at' = "idle", ~missed PROVE disk = triggers'
        BY <1>h DEF Persisted
    <2>1. disk = triggers
        BY <1>h DEF IInv, Persisted
    <2>2. /\ Range(queue') = {}
          /\ \A id \in DOMAIN triggers : sameState(triggers[id].st, Rings(id).st)
        BY <1>f, EmptyList DEF Folded
    <2>3. \A id \in DOMAIN triggers : triggers'[id] = triggers[id]
        <3> SUFFICES ASSUME NEW id \in DOMAIN triggers PROVE triggers'[id] = triggers[id]
            OBVIOUS
        <3>1. Rings(id).fires = {}
            <4> SUFFICES ASSUME NEW e \in Rings(id).fires PROVE FALSE
                OBVIOUS
            <4> DEFINE a == [id |-> id, rev |-> triggers[id].rev, entry |-> e, pass |-> passes]
            <4>1. e \in Sites \cup {0}
                BY <1>r DEF Folds
            <4>2. id \in Ids /\ triggers[id].rev \in Nat \ {0}
                BY TriggerTypes DEF IInv
            <4>3. passes \in Nat \ {0}
                BY <1>h, Bounds DEF IInv, Sizes, Owed
            <4>4. IsNew(a)
                BY <4>1, <4>2, <4>3 DEF IsNew, Alarm
            <4> QED BY <1>n, <2>2, <4>4
        <3>2. triggers'[id].st = triggers[id].st
            BY <1>m, <1>r, <2>2, <3>1 DEF Folds
        <3>3. triggers[id] \in Trigger
            BY TriggerTypes DEF IInv
        <3> QED BY <1>m, <3>2, <3>3 DEF Trigger
    <2>4. triggers = [id \in DOMAIN triggers |-> triggers[id]]
          /\ triggers' = [id \in DOMAIN triggers' |-> triggers'[id]]
        BY <1>f DEF Folded, IInv, Tables, IsMap
    <2> QED BY <1>h, <2>1, <2>3, <2>4
<1>KeepsM. (Keeps(triggers))'
    BY <1>h, <1>m DEF IInv, Keeps
<1>CountedM. (Counted(triggers, tried \cup Range(queue)))'
    <2> SUFFICES ASSUME NEW id \in DOMAIN triggers, <<id, triggers[id].rev>> \notin early
                 PROVE  triggers'[id].st.fireCount
                            <= Cardinality(Of(tried \cup Range(queue'), id, triggers[id].rev))
        BY <1>h, <1>m DEF Counted
    <2> DEFINE R == triggers[id].rev
               old == Of(tried, id, R)
               new == Of(Range(queue'), id, R)
               fires == Rings(id).fires
    <2>1. triggers[id].st.fireCount <= Cardinality(old)
        <3>1. tried \cup Range(queue) = tried
            BY <1>q
        <3> QED BY <3>1 DEF IInv, Counted
    <2>2. triggers'[id].st.fireCount = triggers[id].st.fireCount + Cardinality(fires)
          /\ fires \in SUBSET (Sites \cup {0})
        BY <1>m, <1>r DEF Folds
    <2>3. triggers[id].st.fireCount \in Nat /\ id \in Ids /\ R \in Nat \ {0}
        BY TriggerTypes DEF IInv
    <2>4. IsFiniteSet(old) /\ IsFiniteSet(new)
        BY <1>c, MoreOf DEF IInv, Finite
    <2>5. Of(tried \cup Range(queue'), id, R) = old \cup new
        BY DEF Of
    <2>6. old \cap new = {}
        <3> SUFFICES ASSUME NEW a \in old, a \in new PROVE FALSE
            OBVIOUS
        <3>1. a \in tried /\ a \in Range(queue')
            BY DEF Of
        <3>2. a.pass = passes
            BY <1>n, <3>1 DEF IsNew
        <3>3. a.pass < passes /\ a.pass \in Nat
            BY <1>h, <3>1, AlarmTypes DEF IInv, Owed
        <3> QED BY <3>2, <3>3
    <2>7. Cardinality(fires) = Cardinality(new) /\ Cardinality(new) \in Nat
        <3> DEFINE entry == [a \in new |-> a.entry]
        <3>1. \A a \in new : IsNew(a) /\ a.id = id /\ a.rev = R
            BY <1>n DEF Of
        <3>2. \A a \in new : a.entry \in fires
            BY <3>1 DEF IsNew
        <3>3. \A a, b \in new : a.entry = b.entry => a = b
            BY <3>1 DEF IsNew, Alarm
        <3>4. \A e \in fires : \E a \in new : a.entry = e
            <4> SUFFICES ASSUME NEW e \in fires PROVE \E a \in new : a.entry = e
                OBVIOUS
            <4> DEFINE a == [id |-> id, rev |-> R, entry |-> e, pass |-> passes]
            <4>1. passes \in Nat \ {0}
                BY <1>h, Bounds DEF IInv, Sizes, Owed
            <4>2. e \in Sites \cup {0}
                BY <2>2
            <4>3. IsNew(a)
                BY <2>3, <4>1, <4>2 DEF IsNew, Alarm
            <4>4. a \in new
                BY <1>n, <4>3 DEF Of
            <4> QED BY <4>4
        <3> HIDE DEF new, fires
        <3>5. entry \in Surjection(new, fires) /\ entry \in Injection(new, fires)
            BY <3>2, <3>3, <3>4 DEF Surjection, Injection, IsInjective
        <3> QED BY <2>4, <3>5, FS_Surjection, FS_CardinalityType
    <2> HIDE DEF old, new, fires
    <2>8. Cardinality(old \cup new) = Cardinality(old) + Cardinality(new)
        <3>1. Cardinality(old \cup new) = Cardinality(old) + Cardinality(new) - Cardinality(old \cap new)
            BY <2>4, FS_Union
        <3>2. Cardinality(old) \in Nat /\ Cardinality(old \cap new) = 0
            BY <2>4, <2>6, FS_CardinalityType, FS_EmptySet
        <3> QED BY <2>7, <3>1, <3>2
    <2>9. Cardinality(old) \in Nat
        BY <2>4, FS_CardinalityType
    <2>10. triggers'[id].st.fireCount <= Cardinality(old \cup new)
        BY <2>1, <2>2, <2>3, <2>7, <2>8, <2>9
    <2> QED BY <2>5, <2>10
<1>Owed. Owed'
    <2>1. rung' \subseteq tried \cup Range(queue')
        BY <1>f, <1>q DEF Folded, IInv, Owed
    <2>2. passes \in Nat
        BY Bounds DEF IInv, Sizes
    <2>3. \A a \in tried \cup Range(queue') : a.pass <= passes
        BY <1>n, <2>2 DEF IsNew, IInv, Owed
    <2> QED BY <1>h, <2>1, <2>3 DEF Owed
<1>Baselines. Baselines'
    <2>1. \A id \in DOMAIN triggers : folded'[id] = folded[id] \cup {snap}
        BY <1>f DEF Folded
    <2>2. \A id \in DOMAIN triggers : Learned(triggers'[id].w, triggers'[id].st, folded'[id])
        BY <1>m, <1>r, <2>1 DEF IInv, Baselines, Learns
    <2>3. ASSUME NEW id \in DOMAIN disk \cap DOMAIN triggers, disk[id].rev = triggers'[id].rev
          PROVE  Learned(disk[id].w, disk[id].st, folded'[id])
        <3>1. Learned(disk[id].w, disk[id].st, folded[id])
            BY <1>m, <2>3 DEF IInv, Baselines
        <3>2. folded[id] \subseteq folded'[id]
            BY <2>1
        <3> QED BY <3>1, <3>2, MoreLearned
    <2>4. \A id \in DOMAIN disk : Learned(disk[id].w, disk[id].st, Worlds)
        BY DEF IInv, Baselines
    <2> QED BY <1>h, <2>2, <2>3, <2>4 DEF Baselines
<1>OverM. (Over(triggers, told))'
    <2> SUFFICES ASSUME NEW id \in DOMAIN triggers, ~triggers[id].w.standing,
                        <<id, triggers[id].rev>> \in told
                 PROVE  triggers'[id].st.fireCount > 0 /\ ~triggers'[id].st.deliveryError
        BY <1>h, <1>m DEF Over
    <2>1. triggers[id].st.fireCount > 0 /\ ~triggers[id].st.deliveryError
        BY DEF IInv, Over
    <2>2. Rings(id).fires = {} /\ Cardinality(Rings(id).fires) = 0
        BY <1>r, <2>1, FS_EmptySet DEF Folds
    <2>3. triggers[id].st.fireCount \in Nat
        BY TriggerTypes DEF IInv
    <2>4. Rings(id).st.fireCount = triggers[id].st.fireCount
        <3>1. Rings(id).st.fireCount = triggers[id].st.fireCount + Cardinality(Rings(id).fires)
            BY <1>r DEF Folds
        <3> QED BY <2>2, <2>3, <3>1
    <2> QED BY <1>m, <1>r, <2>1, <2>4 DEF Folds
<1>Alone. Alone'
    <2>1. ASSUME NEW id \in DOMAIN triggers, ~triggers[id].w.standing,
                 <<id, triggers[id].rev>> \in told, NEW a \in Range(queue')
          PROVE  a.id # id
        <3>1. triggers[id].st.fireCount > 0 /\ ~triggers[id].st.deliveryError
            BY <2>1 DEF IInv, Over
        <3>2. Rings(id).fires = {}
            BY <1>r, <2>1, <3>1 DEF Folds
        <3> QED BY <1>n, <3>2 DEF IsNew
    <2>2. ASSUME NEW i \in DOMAIN queue'
          PROVE  LET id == queue'[i].id
                 IN  /\ triggers'[id].st.fireCount > 0
                     /\ ~triggers[id].w.standing => \A j \in DOMAIN queue' \ {i} : queue'[j].id # id
        <3> DEFINE a == queue'[i]
        <3>1. a \in Range(queue') /\ IsNew(a)
            BY <1>n DEF Range
        <3> HIDE DEF a
        <3>2. a.id \in DOMAIN triggers /\ a.entry \in Rings(a.id).fires
            BY <3>1 DEF IsNew
        <3>3. triggers'[a.id].st.fireCount > 0
            <4> DEFINE fires == Rings(a.id).fires
            <4>1. Rings(a.id).st.fireCount = triggers[a.id].st.fireCount + Cardinality(fires)
                  /\ fires \in SUBSET (Sites \cup {0})
                BY <1>r, <3>2 DEF Folds
            <4>2. fires # {}
                BY <3>2
            <4> HIDE DEF fires
            <4>3. IsFiniteSet(fires)
                BY <4>1, SitesAssumption, FS_AddElement, FS_Subset
            <4>4. Cardinality(fires) \in Nat /\ Cardinality(fires) # 0
                BY <4>2, <4>3, FS_CardinalityType, FS_EmptySet
            <4>5. triggers[a.id].st.fireCount \in Nat
                BY <3>2, TriggerTypes DEF IInv
            <4> QED BY <1>m, <3>2, <4>1, <4>4, <4>5
        <3>4. ASSUME ~triggers[a.id].w.standing, NEW j \in DOMAIN queue' \ {i}, queue'[j].id = a.id
              PROVE  FALSE
            <4> DEFINE b == queue'[j]
            <4>1. b \in Range(queue') /\ IsNew(b)
                BY <1>n DEF Range
            <4>2. b.entry = a.entry
                <5>1. b.entry \in Rings(a.id).fires
                    BY <3>4, <4>1 DEF IsNew
                <5> QED BY <1>r, <3>2, <3>4, <5>1 DEF Folds
            <4>3. a = b
                BY <3>1, <3>4, <4>1, <4>2 DEF IsNew, Alarm
            <4>4. i = j
                BY <1>f, <4>3 DEF Folded, a
            <4> QED BY <4>4
        <3> QED BY <3>3, <3>4 DEF a
    <2> QED BY <1>h, <1>m, <2>1, <2>2 DEF Alone
<1> QED BY <1>same1, <1>same2, <1>Tables, <1>Alarms, <1>Waits, <1>Given, <1>Newest,
           <1>Persisted, <1>KeepsM, <1>CountedM, <1>Owed, <1>Baselines, <1>OverM,
           <1>Alone DEF IInv

\* A list has finitely many alarms.
LEMMA ListIsFinite == ASSUME NEW S, NEW q \in Seq(S) PROVE IsFiniteSet(Range(q))
<1>1. Len(q) \in Nat /\ DOMAIN q = 1..Len(q)
    OBVIOUS
<1>2. IsFiniteSet(1..Len(q))
    BY <1>1, FS_Interval
<1>3. q \in [1..Len(q) -> Range(q)] /\ \A x \in Range(q) : \E i \in 1..Len(q) : q[i] = x
    BY <1>1 DEF Range
<1>4. q \in Surjection(1..Len(q), Range(q))
    BY <1>3 DEF Surjection
<1> QED BY <1>2, <1>4, FS_Surjection

\* What a request to arm, edit or disarm does to the watch id and to no other.
Asked(id) ==
    /\ UNCHANGED <<at, snap, queue, failing, rung, passes, tried, told, monitoring>>
    /\ requests < MaxRequests /\ requests' = requests + 1
    /\ id \in Ids /\ (id \in DOMAIN triggers \/ id \notin minted)
    /\ minted' = minted \cup {id}
    /\ IsMap(triggers', Trigger) /\ IsMap(folded', SUBSET Worlds)
    /\ DOMAIN folded' = DOMAIN triggers' /\ IsFiniteSet(DOMAIN triggers')
    /\ DOMAIN triggers' \ {id} = DOMAIN triggers \ {id}
    /\ \A x \in DOMAIN triggers \ {id} : triggers'[x] = triggers[x] /\ folded'[x] = folded[x]
    /\ id \in DOMAIN triggers' =>
          /\ triggers'[id].st = NewState /\ folded'[id] = {}
          /\ id \in DOMAIN triggers => triggers'[id].rev > triggers[id].rev
    /\ Answer(id, IF id \in DOMAIN triggers' THEN triggers'[id].rev ELSE 0)

\* A watch begins with nothing learned.
LEMMA NewStateTypes == NewState \in States /\ ~NewState.primed /\ NewState.fireCount = 0
    BY DEF NewState, States, NoTime

\* Arming is a request for one trigger.
LEMMA ArmAsks ==
    ASSUME IInv, Arm PROVE \E id \in Ids : Asked(id)
<1>1. PICK w \in Watches : \E id \in Ids :
        /\ id \notin minted
        /\ minted' = minted \cup {id}
        /\ triggers' = Put(triggers, id, [w |-> w, rev |-> 1, st |-> NewState])
        /\ folded' = Put(folded, id, {})
        /\ Answer(id, 1)
    BY DEF Arm
<1>2. PICK id \in Ids :
        /\ id \notin minted
        /\ minted' = minted \cup {id}
        /\ triggers' = Put(triggers, id, [w |-> w, rev |-> 1, st |-> NewState])
        /\ folded' = Put(folded, id, {})
        /\ Answer(id, 1)
    BY <1>1
<1> DEFINE t == [w |-> w, rev |-> 1, st |-> NewState]
<1>3. t \in Trigger /\ t.rev = 1 /\ t.st = NewState
    BY NewStateTypes DEF Trigger
<1> HIDE DEF t
<1>4. /\ DOMAIN triggers' = DOMAIN triggers \cup {id}
      /\ triggers' = [x \in DOMAIN triggers \cup {id} |-> IF x = id THEN t ELSE triggers[x]]
      /\ DOMAIN folded' = DOMAIN triggers \cup {id}
      /\ folded' = [x \in DOMAIN triggers \cup {id} |-> IF x = id THEN {} ELSE folded[x]]
    BY <1>2 DEF Put, t, IInv, Given
<1>5. IsMap(triggers', Trigger)
    BY <1>3, <1>4 DEF IInv, Tables, IsMap
<1>6. IsMap(folded', SUBSET Worlds)
    BY <1>4 DEF IInv, Tables, IsMap, Given
<1>7. IsFiniteSet(DOMAIN triggers')
    BY <1>4, FS_AddElement DEF IInv, Finite
<1>8. id \notin DOMAIN triggers
    BY <1>2 DEF IInv, Given
<1>9. Answer(id, triggers'[id].rev)
    BY <1>2, <1>3, <1>4
<1>10. UNCHANGED <<at, snap, queue, failing, rung, passes, tried, told, monitoring>>
       /\ requests < MaxRequests /\ requests' = requests + 1
    BY DEF Arm, Request
<1>11. id \in DOMAIN triggers' /\ triggers'[id] = t /\ folded'[id] = {}
       /\ DOMAIN triggers' \ {id} = DOMAIN triggers \ {id} /\ DOMAIN folded' = DOMAIN triggers'
       /\ \A x \in DOMAIN triggers \ {id} : triggers'[x] = triggers[x] /\ folded'[x] = folded[x]
    BY <1>4
<1>12. Asked(id)
    BY <1>2, <1>3, <1>5, <1>6, <1>7, <1>8, <1>9, <1>10, <1>11 DEF Asked
<1> QED BY <1>12

\* Editing is a request for one trigger.
LEMMA EditAsks ==
    ASSUME IInv, Edit PROVE \E id \in Ids : Asked(id)
<1>1. PICK id \in DOMAIN triggers : \E w \in Watches :
        /\ triggers' = [triggers EXCEPT ![id] = Edited(@, w)]
        /\ folded' = [folded EXCEPT ![id] = {}]
        /\ Answer(id, triggers[id].rev + 1)
    BY DEF Edit
<1>2. PICK w \in Watches :
        /\ triggers' = [triggers EXCEPT ![id] = Edited(@, w)]
        /\ folded' = [folded EXCEPT ![id] = {}]
        /\ Answer(id, triggers[id].rev + 1)
    BY <1>1
<1> DEFINE t == Edited(triggers[id], w)
<1>3. triggers[id].rev \in Nat /\ id \in Ids /\ id \in minted
    BY TriggerTypes DEF IInv, Given
<1>4. t \in Trigger /\ t.rev = triggers[id].rev + 1 /\ t.st = NewState
    BY <1>3, NewStateTypes DEF Trigger, Edited
<1> HIDE DEF t
<1>5. /\ DOMAIN triggers' = DOMAIN triggers /\ triggers' = [triggers EXCEPT ![id] = t]
      /\ DOMAIN folded' = DOMAIN triggers /\ folded' = [folded EXCEPT ![id] = {}]
    BY <1>2 DEF t, IInv, Given
<1>6. IsMap(triggers', Trigger)
    BY <1>4, <1>5 DEF IInv, Tables, IsMap
<1>7. IsMap(folded', SUBSET Worlds)
    BY <1>5 DEF IInv, Tables, IsMap, Given
<1>8. IsFiniteSet(DOMAIN triggers')
    BY <1>5 DEF IInv, Finite
<1>9. triggers'[id] = t /\ folded'[id] = {}
      /\ \A x \in DOMAIN triggers \ {id} : triggers'[x] = triggers[x] /\ folded'[x] = folded[x]
    BY <1>5 DEF IInv, Given
<1>10. Answer(id, triggers'[id].rev) /\ triggers'[id].rev > triggers[id].rev
    BY <1>2, <1>3, <1>4, <1>9
<1>11. UNCHANGED <<at, snap, queue, failing, rung, passes, tried, told, monitoring, minted>>
       /\ requests < MaxRequests /\ requests' = requests + 1
    BY DEF Edit, Request
<1>12. minted' = minted \cup {id}
    BY <1>3, <1>11
<1>13. Asked(id)
    BY <1>3, <1>4, <1>5, <1>6, <1>7, <1>8, <1>9, <1>10, <1>11, <1>12 DEF Asked
<1> QED BY <1>3, <1>13

\* Disarming is a request for one trigger.
LEMMA DisarmAsks ==
    ASSUME IInv, Disarm PROVE \E id \in Ids : Asked(id)
<1>1. PICK id \in DOMAIN triggers :
        /\ triggers' = Without(triggers, id)
        /\ folded' = Without(folded, id)
        /\ Answer(id, 0)
    BY DEF Disarm
<1>2. id \in Ids /\ id \in minted
    BY TriggerTypes DEF IInv, Given
<1>3. /\ DOMAIN triggers' = DOMAIN triggers \ {id}
      /\ triggers' = [x \in DOMAIN triggers \ {id} |-> triggers[x]]
      /\ DOMAIN folded' = DOMAIN triggers \ {id}
      /\ folded' = [x \in DOMAIN triggers \ {id} |-> folded[x]]
    BY <1>1 DEF Without, IInv, Given
<1>4. IsMap(triggers', Trigger) /\ IsMap(folded', SUBSET Worlds)
    BY <1>3 DEF IInv, Tables, IsMap, Given
<1>5. IsFiniteSet(DOMAIN triggers')
    BY <1>3, FS_RemoveElement DEF IInv, Finite
<1>6. UNCHANGED <<at, snap, queue, failing, rung, passes, tried, told, monitoring, minted>>
       /\ requests < MaxRequests /\ requests' = requests + 1
    BY DEF Disarm, Request
<1>7. minted' = minted \cup {id}
    BY <1>2, <1>6
<1>8. /\ DOMAIN triggers' \ {id} = DOMAIN triggers \ {id} /\ id \notin DOMAIN triggers'
      /\ \A x \in DOMAIN triggers \ {id} : triggers'[x] = triggers[x] /\ folded'[x] = folded[x]
    BY <1>3
<1>9. Asked(id)
    BY <1>1, <1>2, <1>3, <1>4, <1>5, <1>6, <1>7, <1>8 DEF Asked
<1> QED BY <1>2, <1>9

\* The revision a request makes is newer than any there is of it.
LEMMA AskedIsNewest ==
    ASSUME IInv, NEW id, Asked(id), id \in DOMAIN triggers'
    PROVE  /\ \A p \in told : p[1] = id => p[2] < triggers'[id].rev
           /\ \A a \in Range(queue) : a.id = id => a.rev < triggers'[id].rev
           /\ id \in DOMAIN disk => disk[id].rev < triggers'[id].rev
           /\ triggers'[id].rev \in Nat \ {0}
<1>1. triggers'[id] \in Trigger
    BY DEF Asked, IsMap
<1>2. triggers'[id].rev \in Nat \ {0}
    BY <1>1 DEF Trigger
<1>3. CASE id \in DOMAIN triggers
    <2>1. triggers[id].rev \in Nat /\ triggers[id].rev < triggers'[id].rev
        BY <1>2, <1>3, TriggerTypes DEF Asked, IInv
    <2>2. \A p \in told : p[2] \in Nat
        BY DEF IInv, Records
    <2>3. \A a \in Range(queue) : a.rev \in Nat
        BY AlarmTypes DEF IInv
    <2>4. \A p \in told : p[1] = id => p[2] < triggers'[id].rev
        <3>1. \A p \in told : p[1] = id => p[2] <= triggers[id].rev
            BY <1>3 DEF IInv, Newest
        <3> QED BY <1>2, <2>1, <2>2, <3>1
    <2>5. \A a \in Range(queue) : a.id = id => a.rev < triggers'[id].rev
        <3>1. \A a \in Range(queue) : a.id = id => a.rev <= triggers[id].rev
            BY <1>3 DEF IInv, Newest
        <3> QED BY <1>2, <2>1, <2>3, <3>1
    <2>6. id \in DOMAIN disk => disk[id].rev < triggers'[id].rev
        <3>1. id \in DOMAIN disk => disk[id].rev <= triggers[id].rev /\ disk[id].rev \in Nat
            BY <1>3, TriggerTypes DEF IInv, Newest
        <3> QED BY <1>2, <2>1, <3>1
    <2> QED BY <1>2, <2>4, <2>5, <2>6
<1>4. CASE id \notin DOMAIN triggers
    <2>1. id \notin minted
        BY <1>4 DEF Asked
    <2> QED BY <1>2, <2>1 DEF IInv, Given
<1> QED BY <1>3, <1>4

\* A request: its watch is new, or gone; every other is as it was; and the disk
\* holds what the memory does, or what it did.
LEMMA AskedInv == ASSUME IInv, NEW id, Asked(id) PROVE IInv'
<1>h. /\ UNCHANGED <<at, snap, queue, failing, rung, passes, tried, told, monitoring>>
      /\ id \in Ids /\ (id \in DOMAIN triggers \/ id \notin minted)
      /\ minted' = minted \cup {id}
      /\ DOMAIN folded' = DOMAIN triggers' /\ IsFiniteSet(DOMAIN triggers')
      /\ DOMAIN triggers' \ {id} = DOMAIN triggers \ {id}
      /\ \A x \in DOMAIN triggers \ {id} : triggers'[x] = triggers[x] /\ folded'[x] = folded[x]
      /\ id \in DOMAIN triggers' =>
            /\ triggers'[id].st = NewState /\ folded'[id] = {}
            /\ id \in DOMAIN triggers => triggers'[id].rev > triggers[id].rev
    BY DEF Asked
<1>n. id \in DOMAIN triggers' =>
          /\ \A p \in told : p[1] = id => p[2] < triggers'[id].rev
          /\ \A a \in Range(queue) : a.id = id => a.rev < triggers'[id].rev
          /\ id \in DOMAIN disk => disk[id].rev < triggers'[id].rev
          /\ triggers'[id].rev \in Nat \ {0}
    BY AskedIsNewest
<1>x. \A x \in DOMAIN triggers' : x = id \/ x \in DOMAIN triggers \ {id}
    BY <1>h
<1> DEFINE rev == IF id \in DOMAIN triggers' THEN triggers'[id].rev ELSE 0
<1>v. rev \in Nat /\ (rev = 0 <=> id \notin DOMAIN triggers')
    BY <1>n
<1>a. \/ /\ disk' = triggers' /\ settled' = told /\ missed' = FALSE /\ faults' = faults
         /\ said' = Put(said, id, [sure |-> TRUE, rev |-> rev])
         /\ early' = early \cup {<<a.id, a.rev>> : a \in Range(queue)}
      \/ /\ faults < MaxFaults /\ faults' = faults + 1 /\ missed' = TRUE
         /\ disk' = disk /\ settled' = settled /\ early' = early
         /\ said' = Put(said, id, [sure |-> FALSE, rev |-> rev])
    BY DEF Asked, Answer, Written, NotWritten
<1> HIDE DEF rev
<1>s. /\ DOMAIN said' = DOMAIN said \cup {id}
      /\ \A x \in DOMAIN said \ {id} : said'[x] = said[x]
      /\ said'[id].rev = rev /\ (said'[id].sure => disk' = triggers')
      /\ IsMap(said', [sure : BOOLEAN, rev : Nat])
    <2>1. PICK b \in BOOLEAN : /\ said' = Put(said, id, [sure |-> b, rev |-> rev])
                               /\ b => disk' = triggers'
        BY <1>a
    <2> DEFINE e == [sure |-> b, rev |-> rev]
    <2>2. e \in [sure : BOOLEAN, rev : Nat] /\ e.rev = rev /\ e.sure = b
        BY <1>v
    <2>3. said' = [x \in DOMAIN said \cup {id} |-> IF x = id THEN e ELSE said[x]]
        BY <2>1 DEF Put
    <2> HIDE DEF e
    <2>4. IsMap(said', [sure : BOOLEAN, rev : Nat])
        BY <1>h, <2>2, <2>3 DEF IInv, Tables, IsMap
    <2> QED BY <2>1, <2>2, <2>3, <2>4
<1>d. disk' = triggers' \/ disk' = disk
    BY <1>a
<1>e. early \subseteq early'
    BY <1>a
<1>t. Tables'
    <2>1. IsMap(triggers', Trigger) /\ IsMap(folded', SUBSET Worlds)
        BY DEF Asked
    <2>2. IsMap(disk', Trigger)
        BY <1>d, <2>1 DEF IInv, Tables
    <2> QED BY <1>s, <2>1, <2>2 DEF Tables
<1>same1. Flags' /\ Alarms' /\ Finite' /\ Waits'
    BY <1>h, <1>a DEF IInv, Flags, Alarms, Finite, Waits
<1>same2. Persisted' /\ Owed'
    BY <1>h, <1>a DEF IInv, Persisted, Owed
<1>Sizes. Sizes'
    BY <1>h, <1>a, Bounds DEF IInv, Sizes, Asked
<1>Tables. Tables'
    BY <1>t
<1>Records. Records'
    <2>1. \A a \in Range(queue) : <<a.id, a.rev>> \in Ids \X Nat
        BY AlarmTypes DEF IInv
    <2>2. early' \subseteq Ids \X Nat
        BY <1>a, <2>1 DEF IInv, Records
    <2> QED BY <1>h, <1>a, <2>2 DEF IInv, Records
<1>Given. Given'
    <2>1. DOMAIN triggers' \subseteq minted'
        BY <1>h, <1>x DEF IInv, Given
    <2>2. DOMAIN disk' \subseteq minted'
        BY <1>h, <1>d, <2>1 DEF IInv, Given
    <2>3. \A p \in told' \cup settled' : p[1] \in minted'
        BY <1>h, <1>a DEF IInv, Given
    <2> QED BY <1>h, <2>1, <2>2, <2>3 DEF IInv, Given
<1>Newest. Newest'
    <2>1. ASSUME NEW x \in DOMAIN triggers'
          PROVE  /\ \A p \in told : p[1] = x => p[2] <= triggers'[x].rev
                 /\ \A a \in Range(queue) : a.id = x => a.rev <= triggers'[x].rev
                 /\ x \in DOMAIN disk => disk[x].rev <= triggers'[x].rev
        <3>1. CASE x = id
            <4>1. \A p \in told : p[2] \in Nat
                BY DEF IInv, Records
            <4>2. \A a \in Range(queue) : a.rev \in Nat
                BY AlarmTypes DEF IInv
            <4>3. x \in DOMAIN disk => disk[x].rev \in Nat
                BY TriggerTypes DEF IInv
            <4> QED BY <1>n, <3>1, <4>1, <4>2, <4>3
        <3>2. CASE x \in DOMAIN triggers \ {id}
            <4>1. triggers'[x].rev = triggers[x].rev
                BY <1>h, <3>2
            <4> QED BY <3>2, <4>1 DEF IInv, Newest
        <3> QED BY <1>x, <3>1, <3>2
    <2>2. \A x \in DOMAIN triggers' : triggers'[x].rev \in Nat
        BY <1>t DEF Tables, IsMap, Trigger
    <2>3. \A x \in DOMAIN disk' \cap DOMAIN triggers' : disk'[x].rev <= triggers'[x].rev
        BY <1>d, <2>1, <2>2
    <2>4. \A p \in settled' : p[1] \in DOMAIN disk' => p[2] <= disk'[p[1]].rev
        <3>1. CASE disk' = triggers' /\ settled' = told
            BY <2>1, <3>1
        <3>2. CASE disk' = disk /\ settled' = settled
            BY <3>2 DEF IInv, Newest
        <3> QED BY <1>a, <3>1, <3>2
    <2> QED BY <1>h, <2>1, <2>3, <2>4 DEF Newest
<1>KeepsM. (Keeps(triggers))'
    <2> SUFFICES ASSUME NEW x \in DOMAIN said', said'[x].sure
                 PROVE  IF said'[x].rev = 0 THEN x \notin DOMAIN triggers'
                        ELSE x \in DOMAIN triggers' /\ triggers'[x].rev = said'[x].rev
        BY DEF Keeps
    <2>1. CASE x = id
        BY <1>s, <1>v, <2>1 DEF rev
    <2>2. CASE x # id
        <3>1. x \in DOMAIN said /\ said'[x] = said[x]
            BY <1>s, <2>2
        <3>2. x \in DOMAIN triggers' <=> x \in DOMAIN triggers
            BY <1>h, <2>2
        <3>3. x \in DOMAIN triggers => triggers'[x] = triggers[x]
            BY <1>h, <2>2
        <3> QED BY <3>1, <3>2, <3>3 DEF IInv, Keeps
    <2> QED BY <2>1, <2>2
<1>KeepsD. (Keeps(disk))'
    <2>1. CASE disk' = triggers'
        BY <1>KeepsM, <2>1 DEF Keeps
    <2>2. CASE disk' # triggers'
        <3>1. disk' = disk /\ ~said'[id].sure
            BY <1>d, <1>s, <2>2
        <3> QED BY <1>s, <3>1 DEF IInv, Keeps
    <2> QED BY <2>1, <2>2
<1>CountedM. (Counted(triggers, tried \cup Range(queue)))'
    <2> DEFINE alarms == tried \cup Range(queue)
    <2> SUFFICES ASSUME NEW x \in DOMAIN triggers', <<x, triggers'[x].rev>> \notin early'
                 PROVE  triggers'[x].st.fireCount <= Cardinality(Of(alarms, x, triggers'[x].rev))
        BY <1>h DEF Counted
    <2>1. CASE x = id
        <3>1. IsFiniteSet(Range(queue))
            BY ListIsFinite DEF IInv, Alarms
        <3>2. IsFiniteSet(alarms)
            BY <3>1, FS_Union DEF IInv, Finite
        <3>3. Cardinality(Of(alarms, x, triggers'[x].rev)) \in Nat
            BY <3>2, MoreOf
        <3>4. triggers'[x].st.fireCount = 0
            BY <1>h, <2>1, NewStateTypes
        <3> QED BY <3>3, <3>4
    <2>2. CASE x \in DOMAIN triggers \ {id}
        <3>1. triggers'[x] = triggers[x] /\ <<x, triggers[x].rev>> \notin early
            BY <1>e, <1>h, <2>2
        <3> QED BY <2>2, <3>1 DEF IInv, Counted
    <2> QED BY <1>x, <2>1, <2>2
<1>CountedD. (Counted(disk, tried))'
    <2>1. CASE disk' = disk /\ early' = early
        BY <1>h, <2>1 DEF IInv, Counted, Of
    <2>2. CASE disk' = triggers' /\ early' = early \cup {<<a.id, a.rev>> : a \in Range(queue)}
        <3> SUFFICES ASSUME NEW x \in DOMAIN triggers', <<x, triggers'[x].rev>> \notin early'
                     PROVE  triggers'[x].st.fireCount <= Cardinality(Of(tried, x, triggers'[x].rev))
            BY <1>h, <2>2 DEF Counted
        <3>1. \A a \in Range(queue) : ~(a.id = x /\ a.rev = triggers'[x].rev)
            BY <2>2
        <3>2. Of(tried \cup Range(queue), x, triggers'[x].rev) = Of(tried, x, triggers'[x].rev)
            BY <3>1 DEF Of
        <3> QED BY <1>h, <1>CountedM, <3>2 DEF Counted
    <2> QED BY <1>a, <2>1, <2>2
<1>Baselines. Baselines'
    <2>1. ASSUME NEW x \in DOMAIN triggers'
          PROVE  Learned(triggers'[x].w, triggers'[x].st, folded'[x])
        <3>1. CASE x = id
            <4>1. ~triggers'[x].st.primed
                BY <1>h, <3>1, NewStateTypes
            <4> QED BY <4>1 DEF Learned
        <3>2. CASE x \in DOMAIN triggers \ {id}
            <4>1. triggers'[x] = triggers[x] /\ folded'[x] = folded[x]
                BY <1>h, <3>2
            <4>2. Learned(triggers[x].w, triggers[x].st, folded[x])
                BY <3>2 DEF IInv, Baselines
            <4> QED BY <4>1, <4>2
        <3> QED BY <1>x, <3>1, <3>2
    <2>2. ASSUME NEW x \in DOMAIN triggers'
          PROVE  Learned(triggers'[x].w, triggers'[x].st, Worlds)
        <3>1. folded'[x] \subseteq Worlds
            BY <1>h, <1>t DEF Tables, IsMap
        <3> QED BY <2>1, <3>1, MoreLearned
    <2>3. CASE disk' = triggers'
        BY <2>1, <2>2, <2>3 DEF Baselines
    <2>4. CASE disk' = disk
        <3>1. ASSUME NEW x \in DOMAIN disk \cap DOMAIN triggers', disk[x].rev = triggers'[x].rev
              PROVE  Learned(disk[x].w, disk[x].st, folded'[x])
            <4>1. x # id
                <5>1. x = id => disk[x].rev < triggers'[x].rev /\ triggers'[x].rev \in Nat
                    BY <1>n
                <5> QED BY <3>1, <5>1
            <4>2. x \in DOMAIN triggers /\ triggers'[x] = triggers[x] /\ folded'[x] = folded[x]
                BY <1>h, <1>x, <4>1
            <4> QED BY <3>1, <4>2 DEF IInv, Baselines
        <3>2. \A x \in DOMAIN disk : Learned(disk[x].w, disk[x].st, Worlds)
            BY DEF IInv, Baselines
        <3> QED BY <2>1, <2>4, <3>1, <3>2 DEF Baselines
    <2> QED BY <1>d, <2>3, <2>4
<1>OverM. (Over(triggers, told))'
    <2> SUFFICES ASSUME NEW x \in DOMAIN triggers', ~triggers'[x].w.standing,
                        <<x, triggers'[x].rev>> \in told
                 PROVE  triggers'[x].st.fireCount > 0 /\ ~triggers'[x].st.deliveryError
        BY <1>h DEF Over
    <2>1. x # id
        <3>1. x = id => triggers'[x].rev < triggers'[x].rev /\ triggers'[x].rev \in Nat
            BY <1>n
        <3> QED BY <3>1
    <2>2. x \in DOMAIN triggers /\ triggers'[x] = triggers[x]
        BY <1>h, <1>x, <2>1
    <2> QED BY <2>2 DEF IInv, Over
<1>OverD. (Over(disk, settled))'
    <2>1. CASE disk' = triggers' /\ settled' = told
        BY <1>OverM, <1>h, <2>1 DEF Over
    <2>2. CASE disk' = disk /\ settled' = settled
        BY <2>2 DEF IInv, Over
    <2> QED BY <1>a, <2>1, <2>2
<1>Alone. Alone'
    <2>1. ASSUME NEW x \in DOMAIN triggers', ~triggers'[x].w.standing,
                 <<x, triggers'[x].rev>> \in told, NEW a \in Range(queue)
          PROVE  a.id # x
        <3>1. x # id
            <4>1. x = id => triggers'[x].rev < triggers'[x].rev /\ triggers'[x].rev \in Nat
                BY <1>n, <2>1
            <4> QED BY <4>1
        <3>2. x \in DOMAIN triggers /\ triggers'[x] = triggers[x]
            BY <1>h, <1>x, <3>1
        <3> QED BY <2>1, <3>2 DEF IInv, Alone
    <2>2. ASSUME NEW i \in DOMAIN queue, queue[i].id \in DOMAIN triggers',
                 queue[i].rev = triggers'[queue[i].id].rev
          PROVE  /\ triggers'[queue[i].id].st.fireCount > 0
                 /\ ~triggers'[queue[i].id].w.standing =>
                        \A j \in DOMAIN queue \ {i} : queue[j].id # queue[i].id
        <3>1. queue[i].id # id
            <4>1. queue[i] \in Range(queue)
                BY <2>2 DEF Range
            <4>2. queue[i].id = id => queue[i].rev < triggers'[id].rev /\ triggers'[id].rev \in Nat
                BY <1>n, <2>2, <4>1
            <4> QED BY <2>2, <4>2
        <3>2. queue[i].id \in DOMAIN triggers /\ triggers'[queue[i].id] = triggers[queue[i].id]
            BY <1>h, <1>x, <2>2, <3>1
        <3> QED BY <2>2, <3>2 DEF IInv, Alone
    <2> QED BY <1>h, <2>1, <2>2 DEF Alone
<1> QED BY <1>same1, <1>same2, <1>Sizes, <1>Tables, <1>Records, <1>Given, <1>Newest, <1>KeepsM,
           <1>KeepsD, <1>CountedM, <1>CountedD, <1>Baselines, <1>OverM, <1>OverD,
           <1>Alone DEF IInv

----------------------------------------------------------------------------
(* The theorems. *)

\* The first start.
LEMMA InitInv == Init => IInv
<1> SUFFICES ASSUME Init PROVE IInv
    OBVIOUS
<1>1. /\ DOMAIN triggers = DOMAIN InitWatches
      /\ triggers = [id \in DOMAIN InitWatches |-> [w |-> InitWatches[id], rev |-> 1, st |-> NewState]]
      /\ disk = triggers /\ folded = [id \in DOMAIN InitWatches |-> {}]
      /\ monitoring = TRUE /\ at = "idle" /\ snap \in Worlds /\ queue = <<>> /\ failing = FALSE
      /\ passes = 0 /\ requests = 0 /\ faults = 0 /\ minted = DOMAIN InitWatches
      /\ rung = {} /\ tried = {} /\ told = {} /\ settled = {} /\ missed = FALSE /\ early = {}
      /\ said = <<>>
    BY DEF Init
<1>2. /\ DOMAIN InitWatches \subseteq Ids /\ IsFiniteSet(DOMAIN InitWatches)
      /\ \A id \in DOMAIN InitWatches : InitWatches[id] \in Watches
    BY EngineAssumption
<1>3. \A id \in DOMAIN triggers : /\ triggers[id] \in Trigger
                                  /\ triggers[id].st = NewState /\ triggers[id].rev = 1
    BY <1>1, <1>2, NewStateTypes DEF Trigger
<1>4. Range(queue) = {} /\ DOMAIN queue = {} /\ queue \in Seq(Alarm) /\ DOMAIN said = {}
    BY <1>1, EmptyList
<1>5. Flags
    BY <1>1 DEF Flags
<1>6. Sizes
    BY <1>1, Bounds DEF Sizes
<1>7. Tables
    <2>1. IsMap(triggers, Trigger) /\ IsMap(disk, Trigger)
        BY <1>1, <1>2, <1>3 DEF IsMap
    <2>2. IsMap(folded, SUBSET Worlds)
        BY <1>1, <1>2 DEF IsMap
    <2>3. IsMap(said, [sure : BOOLEAN, rev : Nat])
        BY <1>1, <1>4 DEF IsMap
    <2> QED BY <2>1, <2>2, <2>3 DEF Tables
<1>8. Alarms /\ Records
    BY <1>1, <1>2, <1>4 DEF Alarms, Records
<1>9. Finite
    BY <1>1, <1>2, FS_EmptySet DEF Finite
<1>10. Waits
    BY <1>1 DEF Waits
<1>11. Given
    BY <1>1, <1>4 DEF Given
<1>12. Newest
    BY <1>1, <1>3, <1>4 DEF Newest
<1>13. Persisted /\ Keeps(triggers) /\ Keeps(disk)
    BY <1>1, <1>4 DEF Persisted, Keeps
<1>14. Counted(triggers, tried \cup Range(queue)) /\ Counted(disk, tried)
    <2>1. ASSUME NEW id \in DOMAIN triggers
          PROVE  triggers[id].st.fireCount <= Cardinality(Of({}, id, triggers[id].rev))
        <3>1. Of({}, id, triggers[id].rev) = {}
            BY DEF Of
        <3>2. Cardinality(Of({}, id, triggers[id].rev)) = 0
            BY <3>1, FS_EmptySet
        <3>3. triggers[id].st.fireCount = 0
            BY <1>3, NewStateTypes
        <3> QED BY <3>2, <3>3
    <2>2. tried \cup Range(queue) = {} /\ tried = {}
        BY <1>1, <1>4
    <2> QED BY <1>1, <2>1, <2>2 DEF Counted
<1>15. Owed
    BY <1>1, <1>4 DEF Owed
<1>16. Baselines
    BY <1>1, <1>3, NewStateTypes DEF Baselines, Learned
<1>17. Over(triggers, told) /\ Over(disk, settled) /\ Alone
    BY <1>1, <1>4 DEF Over, Alone
<1> QED BY <1>5, <1>6, <1>7, <1>8, <1>9, <1>10, <1>11, <1>12, <1>13, <1>14, <1>15, <1>16,
           <1>17 DEF IInv

\* Every step.
LEMMA StepInv == IInv /\ [Next]_vars => IInv'
<1> SUFFICES ASSUME IInv, [Next]_vars PROVE IInv'
    OBVIOUS
<1>1. CASE Wake
    BY <1>1, WakeInv
<1>2. CASE FoldAll
    BY <1>2, FoldAllInv
<1>3. CASE Deliver
    BY <1>3, DeliverInv
<1>4. CASE Record
    BY <1>4, RecordInv
<1>5. CASE SavePass
    BY <1>5, SaveInv, SaveFailsInv DEF SavePass
<1>6. CASE Arm
    BY <1>6, ArmAsks, AskedInv
<1>7. CASE Edit
    BY <1>7, EditAsks, AskedInv
<1>8. CASE Disarm
    BY <1>8, DisarmAsks, AskedInv
<1>9. CASE SetMonitoring
    BY <1>9, SetMonitoringInv
<1>10. CASE Restart
    BY <1>10, RestartInv
<1>11. CASE UNCHANGED vars
    BY <1>11, StutterInv
<1> QED BY <1>1, <1>2, <1>3, <1>4, <1>5, <1>6, <1>7, <1>8, <1>9, <1>10, <1>11 DEF Next, Step

\* The invariant holds in every reachable state.
LEMMA Invariance == Spec => []IInv
<1> QED BY InitInv, StepInv, PTL DEF Spec

\* The engine's memory, its file and what the clients were told are always of
\* the shape the code gives them.
THEOREM EngineTypes == Spec => []TypeOK
<1>1. IInv => TypeOK
    BY TypeParts DEF IInv
<1> QED BY <1>1, Invariance, PTL

\* Engine.Run: between passes triggers.json holds what the engine holds, however
\* requests came in the middle of the last pass, unless its last write failed.
THEOREM EngineAtRest == Spec => []AtRestPersisted
<1>1. IInv => AtRestPersisted
    BY DEF IInv, Persisted, AtRestPersisted
<1> QED BY <1>1, Invariance, PTL

\* A pass delivers all its alarms, and triggers.json never counts an alarm that
\* was neither tried nor saved by a request before its turn came.
THEOREM EngineTriesAlarms == Spec => []AlarmsTried
<1>1. ASSUME IInv PROVE AlarmsTried
    <2>1. ASSUME at = "idle" PROVE rung \subseteq tried
        <3>1. queue = <<>>
            BY <1>1, <2>1 DEF IInv, Waits
        <3>2. Range(queue) = {}
            BY <3>1, EmptyList
        <3> QED BY <1>1, <3>2 DEF IInv, Owed
    <2>2. \A id \in DOMAIN disk :
             <<id, disk[id].rev>> \in early
                \/ disk[id].st.fireCount <= Cardinality({a \in tried : a.id = id /\ a.rev = disk[id].rev})
        BY <1>1 DEF IInv, Counted, Of
    <2> QED BY <2>1, <2>2 DEF AlarmsTried
<1> QED BY <1>1, Invariance, PTL

\* What a client was told of a watch holds across passes, failed writes and
\* restarts.
THEOREM EngineAnswers == Spec => []AnswersStick
<1>1. IInv => AnswersStick
    BY DEF IInv, Keeps, AnswersStick
<1> QED BY <1>1, Invariance, PTL

\* Alarms are rung by a pass alone, and what it rings is new.
LEMMA OnlyPassesRing ==
    ASSUME IInv, [Next]_vars, NEW a \in rung' \ rung
    PROVE  FoldAll /\ IsNew(a)
<1>1. CASE FoldAll
    <2>1. a \in Range(queue')
        BY <1>1, FoldAllFolds DEF Folded
    <2> QED BY <1>1, <2>1, FoldAllFolds DEF Folded
<1>2. CASE ~FoldAll
    <2>1. rung' = rung \/ rung' = {}
        <3>1. Arm \/ Edit \/ Disarm \/ SetMonitoring => rung' = rung
            BY DEF Arm, Edit, Disarm, SetMonitoring, Request
        <3>2. Wake \/ Deliver \/ Record \/ SavePass => rung' = rung
            BY DEF Wake, Deliver, Record, SavePass
        <3>3. Restart => rung' = {}
            BY DEF Restart
        <3>4. UNCHANGED vars => rung' = rung
            BY DEF vars, memory
        <3> QED BY <1>2, <3>1, <3>2, <3>3, <3>4 DEF Next, Step
    <2> QED BY <2>1
<1> QED BY <1>1, <1>2

\* engine.go, Edit: "the next sample sets a new baseline".  A watch rings only for
\* what a sample folded at the same revision did not have.
THEOREM EngineBaselines == Spec => BaselineFirst
<1>1. ASSUME IInv, [Next]_vars
      PROVE  [\A a \in rung' \ rung :
                \E before \in folded[a.id] : Happened(triggers[a.id].w, before, snap)]_vars
    <2> SUFFICES ASSUME NEW a \in rung' \ rung
                 PROVE  \E before \in folded[a.id] : Happened(triggers[a.id].w, before, snap)
        OBVIOUS
    <2>1. a.id \in DOMAIN triggers /\ Rings(a.id).fires # {}
        BY <1>1, OnlyPassesRing DEF IsNew
    <2>2. Learned(triggers[a.id].w, triggers[a.id].st, folded[a.id])
        BY <1>1, <2>1 DEF IInv, Baselines
    <2>3. Learns(triggers[a.id].w, triggers[a.id].st, snap, Rings(a.id))
        BY <1>1, <2>1, RingsFold
    <2> QED BY <2>1, <2>2, <2>3 DEF Learns
<1> QED BY <1>1, Invariance, PTL DEF Spec, BaselineFirst

\* A one-shot with a delivery on record rings no more.
THEOREM EngineOneShots == Spec => OneShotOver
<1>1. ASSUME IInv, [Next]_vars
      PROVE  [\A a \in rung' \ rung :
                triggers[a.id].w.standing \/ <<a.id, a.rev>> \notin told]_vars
    <2> SUFFICES ASSUME NEW a \in rung' \ rung, ~triggers[a.id].w.standing, <<a.id, a.rev>> \in told
                 PROVE  FALSE
        OBVIOUS
    <2>1. a.id \in DOMAIN triggers /\ a.rev = triggers[a.id].rev /\ Rings(a.id).fires # {}
        BY <1>1, OnlyPassesRing DEF IsNew
    <2>2. triggers[a.id].st.fireCount > 0 /\ ~triggers[a.id].st.deliveryError
        BY <1>1, <2>1 DEF IInv, Over
    <2>3. Rings(a.id).fires = {}
        BY <1>1, <2>1, <2>2, RingsFold DEF Folds
    <2> QED BY <2>1, <2>3
<1> QED BY <1>1, Invariance, PTL DEF Spec, OneShotOver
=============================================================================
