----------------------------- MODULE WatchProofs -----------------------------
(***************************************************************************)
(* For every set of sites, watches and samples: the state of a watch stays *)
(* well typed, each operator rings on exactly what it was armed for, and a *)
(* watch whose alarms get through is over when it says it is.              *)
(*                                                                         *)
(* The properties compare the trigger's state with the history variables,  *)
(* so the invariant that carries them says how the two are related between *)
(* passes: Agrees for every watch, Returns for one on a text and Arrivals  *)
(* for one on a list.                                                      *)
(***************************************************************************)
EXTENDS Watch, FiniteSetTheorems, TLAPS

\* What the trigger remembers is what the observer does.
Agrees ==
    /\ st.primed <=> last # NoSample
    /\ IsNumeric /\ st.primed => st.number = Reading(w, last)
    /\ IsNumeric => (st.ready <=> st.primed /\ (rungAt = NoTime \/ backed))
    /\ st.fireCount = 0 <=> rungAt = NoTime
    /\ st.primed \/ rungAt = NoTime
    /\ st.deliveryError => failed

\* A watch on a text knows the last value, is armed until it first rings, and
\* remembers when the value left.
Returns ==
    w.op = "becomes" =>
        /\ st.primed => st.text = Reading(w, last)
        /\ st.ready => st.primed
        /\ st.primed /\ rungAt = NoTime => st.ready
        /\ rungAt # NoTime /\ st.text # w.value => left # NoTime /\ st.awaySince = left
        /\ rungAt # NoTime /\ st.ready => st.text # w.value /\ now - left >= w.hold

\* A watch on a list remembers the entries of the last sample it accepts.
Arrivals ==
    w.op \in {"appears", "disappears"} /\ st.primed => st.seen = Reading(w, last) \cap w.where

\* No sample of the world is the one that stands for "none yet".
LEMMA SamplesAreSamples == \A s \in Worlds : s \in Samples /\ s # NoSample
<1> SUFFICES ASSUME NEW s \in Worlds PROVE s \in Samples /\ s # NoSample
    OBVIOUS
<1>1. s \in Samples
    BY WatchAssumption
<1>2. s \in [watched : SUBSET Sites, down : SUBSET Sites, cert : SUBSET Sites,
             localFault : BOOLEAN]
    BY <1>1 DEF Samples
<1>3. DOMAIN s # DOMAIN NoSample
    <2>1. DOMAIN s = {"watched", "down", "cert", "localFault"}
        BY <1>2
    <2>2. "none" \in DOMAIN NoSample
        BY DEF NoSample
    <2> QED BY <2>1, <2>2
<1> QED BY <1>1, <1>3

\* A set of sites has a size.
LEMMA SizeOfSites == \A S \in SUBSET Sites : Cardinality(S) \in Nat
    BY SitesAssumption, FS_Subset, FS_CardinalityType

\* What a numeric watch reads is a number.
LEMMA NumericReading ==
    ASSUME NEW v \in Terms, v.op \in {"crosses", "count"}, NEW s \in Samples
    PROVE  Reading(v, s) \in Nat
<1>1. /\ s.watched \in SUBSET Sites /\ s.cert \in SUBSET Sites
      /\ downList(s) \in SUBSET Sites
    BY DEF Samples, downList
<1>2. Accepts(v.path, v.op)
    BY DEF Terms
<1>3. CASE v.op = "crosses"
    <2>1. v.path \in Numbers
        BY <1>2, <1>3 DEF Accepts
    <2>2. Number(v.path, s) \in Nat
        BY <2>1, <1>1, SizeOfSites DEF Number, Numbers
    <2> QED BY <2>2, <1>3 DEF Reading, SetOps
<1>4. CASE v.op = "count"
    <2>1. v.path \in Lists
        BY <1>2, <1>4 DEF Accepts
    <2>2. List(v.path, s) \in SUBSET Sites
        BY <2>1, <1>1 DEF List, Lists
    <2>3. Cardinality(List(v.path, s) \cap v.where) \in Nat
        BY <2>2, SizeOfSites
    <2> QED BY <2>3, <1>4 DEF Reading, SetOps
<1> QED BY <1>3, <1>4

\* What a watch on a list reads is a set of sites.
LEMMA SetReading ==
    ASSUME NEW v \in Terms, v.op \in SetOps, NEW s \in Samples
    PROVE  Reading(v, s) \in SUBSET Sites
<1>1. /\ s.watched \in SUBSET Sites /\ s.cert \in SUBSET Sites
      /\ downList(s) \in SUBSET Sites
    BY DEF Samples, downList
<1>2. v.path \in Lists
    BY DEF Terms, Accepts, SetOps
<1>3. List(v.path, s) \in SUBSET Sites
    BY <1>1, <1>2 DEF List, Lists
<1> QED BY <1>3 DEF Reading, SetOps

----------------------------------------------------------------------------
(* One evaluation. *)

\* crossing keeps the state well typed and rings on a crossing when ready.
LEMMA CrossingFolds ==
    ASSUME NEW v \in Terms, NEW x \in States, NEW n \in Int,
           NEW r, r = crossing(v, x, n)
    PROVE      /\ r.st \in States
               /\ r.fires \in SUBSET {0}
               /\ r.st.primed
               /\ r.st.number = n
               /\ r.st.deliveryError = x.deliveryError
               /\ r.st.fireCount = IF r.fires = {} THEN x.fireCount ELSE x.fireCount + 1
               /\ r.fires # {} <=> x.primed /\ x.ready /\ ~Past(v, x.number) /\ Past(v, n)
               /\ r.st.ready <=> (~x.primed \/ (x.ready /\ r.fires = {})
                                             \/ (~x.ready /\ Back(v, n)))
<1> DEFINE folded == [x EXCEPT !.number = n]
<1>1. folded \in States /\ folded.number = n /\ (folded.primed <=> x.primed)
      /\ (folded.ready <=> x.ready) /\ folded.fireCount = x.fireCount
      /\ folded.deliveryError = x.deliveryError /\ x.fireCount \in Nat
    BY DEF States
<1>2. Back(v, n) \in BOOLEAN /\ Past(v, n) \in BOOLEAN /\ Past(v, x.number) \in BOOLEAN
    BY DEF Back, Past, Terms, States
<1>3. CASE ~x.primed
    <2> DEFINE y == [folded EXCEPT !.primed = TRUE, !.ready = TRUE]
    <2>1. r.st = y /\ r.fires = {}
        BY <1>3 DEF crossing, Quiet, Result
    <2>2. y \in States /\ y.primed /\ y.ready /\ y.number = n
          /\ y.fireCount = x.fireCount /\ y.deliveryError = x.deliveryError
        <3> HIDE DEF folded
        <3> QED BY <1>1 DEF States
    <2> HIDE DEF y, folded
    <2> QED BY <1>1, <1>2, <1>3, <2>1, <2>2
<1>4. CASE x.primed /\ ~x.ready
    <2> DEFINE y == [folded EXCEPT !.ready = Back(v, n)]
    <2>1. r.st = y /\ r.fires = {}
        BY <1>4 DEF crossing, Quiet, Result
    <2>2. y \in States /\ (y.primed <=> x.primed) /\ (y.ready <=> Back(v, n)) /\ y.number = n
          /\ y.fireCount = x.fireCount /\ y.deliveryError = x.deliveryError
        <3> HIDE DEF folded
        <3> QED BY <1>1, <1>2 DEF States
    <2> HIDE DEF y, folded
    <2> QED BY <1>1, <1>2, <1>4, <2>1, <2>2
<1>5. CASE x.primed /\ x.ready /\ ~(~Past(v, x.number) /\ Past(v, n))
    <2>1. r.st = folded /\ r.fires = {}
        BY <1>5 DEF crossing, Quiet, Result
    <2> HIDE DEF folded
    <2> QED BY <1>1, <1>2, <1>5, <2>1
<1>6. CASE x.primed /\ x.ready /\ ~Past(v, x.number) /\ Past(v, n)
    <2> DEFINE y == [folded EXCEPT !.ready = FALSE, !.fireCount = @ + 1]
    <2>1. r.st = y /\ r.fires = {0}
        BY <1>6 DEF crossing, Ring, Result
    <2>2. y \in States /\ (y.primed <=> x.primed) /\ ~y.ready /\ y.number = n
          /\ y.fireCount = x.fireCount + 1 /\ y.deliveryError = x.deliveryError
        <3> HIDE DEF folded
        <3>1. folded.fireCount + 1 \in Nat
            BY <1>1
        <3> QED BY <1>1, <3>1 DEF States
    <2> HIDE DEF y, folded
    <2> QED BY <1>1, <1>2, <1>6, <2>1, <2>2
<1> QED BY <1>3, <1>4, <1>5, <1>6

\* evalBecomes keeps the state well typed and primed and counts what it rings.
LEMMA BecomesFolds ==
    ASSUME NEW v \in Terms, NEW x \in States, NEW t \in BOOLEAN, NEW n \in Nat,
           NEW r, r = evalBecomes(v, x, t, n)
    PROVE      /\ r.st \in States
               /\ r.fires \in SUBSET {0}
               /\ r.st.primed
               /\ r.st.deliveryError = x.deliveryError
               /\ r.st.fireCount = IF r.fires = {} THEN x.fireCount ELSE x.fireCount + 1
<1> DEFINE gone   == x.text = v.value /\ t # v.value
           folded == [x EXCEPT !.text = t, !.awaySince = IF gone THEN n ELSE @]
           ready  == \/ x.ready
                     \/ /\ x.text # v.value
                        /\ folded.awaySince # NoTime
                        /\ n - folded.awaySince >= v.hold
<1>1. folded \in States /\ (folded.primed <=> x.primed) /\ folded.fireCount = x.fireCount
      /\ folded.deliveryError = x.deliveryError /\ x.fireCount \in Nat
    BY DEF States
<1>2. ready \in BOOLEAN
    BY DEF States
<1>3. CASE ~x.primed
    <2> DEFINE y == [x EXCEPT !.text = t, !.primed = TRUE, !.ready = TRUE]
    <2>1. r.st = y /\ r.fires = {}
        BY <1>3 DEF evalBecomes, Quiet, Result
    <2>2. y \in States /\ y.primed /\ y.fireCount = x.fireCount
          /\ y.deliveryError = x.deliveryError
        BY DEF States
    <2> HIDE DEF y, folded
    <2> QED BY <2>1, <2>2
<1>4. CASE x.primed /\ ready /\ t = v.value /\ x.text # v.value
    <2> DEFINE y == [folded EXCEPT !.ready = FALSE, !.fireCount = @ + 1]
    <2>1. r.st = y /\ r.fires = {0}
        BY <1>4 DEF evalBecomes, Ring, Result
    <2>2. y \in States /\ (y.primed <=> x.primed) /\ y.fireCount = x.fireCount + 1
          /\ y.deliveryError = x.deliveryError
        <3> HIDE DEF folded, ready
        <3>1. folded.fireCount + 1 \in Nat
            BY <1>1
        <3> QED BY <1>1, <3>1 DEF States
    <2> HIDE DEF y, folded, ready
    <2> QED BY <1>4, <2>1, <2>2
<1>5. CASE x.primed /\ ~(ready /\ t = v.value /\ x.text # v.value)
    <2> DEFINE y == [folded EXCEPT !.ready = ready]
    <2>1. r.st = y /\ r.fires = {}
        BY <1>5 DEF evalBecomes, Quiet, Result
    <2>2. y \in States /\ (y.primed <=> x.primed) /\ y.fireCount = x.fireCount
          /\ y.deliveryError = x.deliveryError
        <3> HIDE DEF folded, ready
        <3> QED BY <1>1, <1>2 DEF States
    <2> HIDE DEF y, folded, ready
    <2> QED BY <1>5, <2>1, <2>2
<1> HIDE DEF folded, ready
<1> QED BY <1>3, <1>4, <1>5

\* evalSet does the same for the entries of a list, and counts iff it rings.
LEMMA SetFolds ==
    ASSUME NEW v \in Terms, v.op \in SetOps, NEW x \in States, NEW s \in Samples,
           NEW n \in Nat, NEW r, r = evalSet(v, x, Reading(v, s), n)
    PROVE      /\ r.st \in States
               /\ r.fires \in SUBSET Sites
               /\ r.st.primed
               /\ r.st.deliveryError = x.deliveryError
               /\ r.st.fireCount >= x.fireCount
               /\ r.st.fireCount = x.fireCount <=> r.fires = {}
<1> DEFINE kept    == Reading(v, s) \cap v.where
           current == IF v.op = "ages" THEN agedOnly(kept, v.olderThan, n) ELSE kept
           changed == IF v.op = "disappears" THEN x.seen \ current ELSE current \ x.seen
           fires0  == IF v.standing THEN changed
                      ELSE {id \in changed : \A other \in changed : id <= other}
           folded  == [x EXCEPT !.seen = current]
<1>1. current \in SUBSET Sites
    BY SetReading DEF agedOnly
<1>2. changed \in SUBSET Sites
    BY <1>1 DEF States
<1>3. fires0 \in SUBSET Sites
    BY <1>2
<1>4. folded \in States /\ (folded.primed <=> x.primed) /\ folded.fireCount = x.fireCount
      /\ folded.deliveryError = x.deliveryError
    BY <1>1 DEF States
<1>5. Cardinality(fires0) \in Nat /\ (Cardinality(fires0) = 0 <=> fires0 = {})
    <2> HIDE DEF fires0
    <2>1. IsFiniteSet(fires0)
        BY <1>3, SitesAssumption, FS_Subset
    <2> QED BY <2>1, FS_CardinalityType, FS_EmptySet
<1>6. CASE ~x.primed
    <2> DEFINE y == [folded EXCEPT !.primed = TRUE, !.ready = TRUE]
    <2>1. r.st = y /\ r.fires = {}
        BY <1>6 DEF evalSet, Quiet, Result
    <2>2. y \in States /\ y.primed /\ y.fireCount = x.fireCount
          /\ y.deliveryError = x.deliveryError /\ y.fireCount \in Nat
        <3> HIDE DEF folded
        <3> QED BY <1>4 DEF States
    <2> HIDE DEF y, folded
    <2> QED BY <2>1, <2>2
<1>7. CASE x.primed
    <2> DEFINE k == Cardinality(fires0)
               y == [folded EXCEPT !.fireCount = @ + k]
    <2>1. r.st = y /\ r.fires = fires0
        BY <1>7 DEF evalSet, Result
    <2>2. y \in States /\ (y.primed <=> x.primed) /\ y.fireCount = x.fireCount + k
          /\ y.deliveryError = x.deliveryError /\ x.fireCount \in Nat
        <3> HIDE DEF folded, k, fires0
        <3>1. k \in Nat
            BY <1>5 DEF k
        <3> QED BY <1>4, <3>1 DEF States
    <2> HIDE DEF y, folded, fires0
    <2> QED BY <1>3, <1>5, <1>7, <2>1, <2>2
<1> HIDE DEF folded, fires0
<1> QED BY <1>6, <1>7

\* What a watch on a text remembers of an evaluation, and when it rings.
LEMMA BecomesRemembers ==
    ASSUME NEW v \in Terms, NEW x \in States, NEW t \in BOOLEAN, NEW n \in Nat,
           NEW r, r = evalBecomes(v, x, t, n)
    PROVE  LET held == \/ x.ready
                       \/ x.text # v.value /\ x.awaySince # NoTime /\ n - x.awaySince >= v.hold
           IN  /\ r.st.text = t
               /\ r.st.awaySince = IF x.primed /\ x.text = v.value /\ t # v.value
                                   THEN n ELSE x.awaySince
               /\ r.fires # {} <=> x.primed /\ held /\ x.text # v.value /\ t = v.value
               /\ r.st.ready <=> ~x.primed \/ (held /\ r.fires = {})
<1> DEFINE held == \/ x.ready
                   \/ x.text # v.value /\ x.awaySince # NoTime /\ n - x.awaySince >= v.hold
           since  == IF x.text = v.value /\ t # v.value THEN n ELSE x.awaySince
           told   == [x EXCEPT !.text = t, !.awaySince = since]
           ready  == \/ x.ready
                     \/ /\ x.text # v.value
                        /\ told.awaySince # NoTime
                        /\ n - told.awaySince >= v.hold
<1>1. told.text = t /\ told.awaySince = since /\ (told.ready <=> x.ready) /\ told \in States
    <2>1. since \in Nat
        BY DEF States
    <2> HIDE DEF since
    <2> QED BY <2>1 DEF States
<1>2. ready <=> held
    <2> HIDE DEF told
    <2> QED BY <1>1
<1>3. held \in BOOLEAN
    BY DEF States
<1>4. CASE ~x.primed
    <2> DEFINE y == [x EXCEPT !.text = t, !.primed = TRUE, !.ready = TRUE]
    <2>1. r.st = y /\ r.fires = {}
        BY <1>4 DEF evalBecomes, Quiet, Result
    <2>2. y.text = t /\ y.awaySince = x.awaySince /\ y.ready
        BY DEF States
    <2> HIDE DEF y, told, held, ready
    <2> QED BY <1>4, <2>1, <2>2
<1>5. CASE x.primed /\ ready /\ t = v.value /\ x.text # v.value
    <2> DEFINE y == [told EXCEPT !.ready = FALSE, !.fireCount = @ + 1]
    <2>1. r.st = y /\ r.fires = {0}
        BY <1>5 DEF evalBecomes, Ring, Result
    <2>2. y.text = t /\ y.awaySince = since /\ ~y.ready
        <3> HIDE DEF told, since
        <3> QED BY <1>1 DEF States
    <2> HIDE DEF y, told, ready
    <2> QED BY <1>2, <1>3, <1>5, <2>1, <2>2
<1>6. CASE x.primed /\ ~(ready /\ t = v.value /\ x.text # v.value)
    <2> DEFINE y == [told EXCEPT !.ready = ready]
    <2>1. r.st = y /\ r.fires = {}
        BY <1>6 DEF evalBecomes, Quiet, Result
    <2>2. y.text = t /\ y.awaySince = since /\ (y.ready <=> ready)
        <3> HIDE DEF told, since, ready
        <3> QED BY <1>1 DEF States
    <2> HIDE DEF y, told, ready
    <2> QED BY <1>2, <1>3, <1>6, <2>1, <2>2
<1> HIDE DEF told, held, ready
<1> QED BY <1>4, <1>5, <1>6

\* Every nonempty set of sites has one first site: its initial segments are
\* finite, so one of them has no other below it.
LEMMA FirstSite ==
    ASSUME NEW X \in SUBSET Sites, X # {}
    PROVE  \E x \in X : {id \in X : \A other \in X : id <= other} = {x}
<1> DEFINE below(x) == {y \in X : y < x}
           segments == {below(x) : x \in X}
<1>1. IsWellFoundedOn(StrictSubsetOrdering(Sites), FiniteSubsetsOf(Sites))
    BY FS_StrictSubsetOrderingWellFounded
<1>2. segments \subseteq FiniteSubsetsOf(Sites) /\ segments # {}
    <2>1. \A x \in X : below(x) \in SUBSET Sites
        OBVIOUS
    <2>2. FiniteSubsetsOf(Sites) = SUBSET Sites
        BY SitesAssumption, FS_FiniteSubsetsOfFinite
    <2> HIDE DEF below
    <2> QED BY <2>1, <2>2
<1>3. PICK S \in segments : \A R \in segments : <<R, S>> \notin StrictSubsetOrdering(Sites)
    <2> HIDE DEF segments
    <2> QED BY <1>1, <1>2, WFMin
<1>4. PICK x \in X : S = below(x)
    OBVIOUS
<1>5. X \subseteq Nat
    BY SitesAssumption
<1>6. below(x) = {}
    <2> SUFFICES ASSUME NEW y \in X, y < x PROVE FALSE
        OBVIOUS
    <2>1. below(y) \subseteq below(x) /\ y \in below(x) /\ y \notin below(y)
        <3>1. x \in Nat /\ y \in Nat
            BY <1>5
        <3>2. \A z \in X : z < y => z < x
            BY <1>5, <3>1
        <3>3. below(y) \subseteq below(x)
            BY <3>2
        <3>4. ~(y < y)
            BY <3>1
        <3> QED BY <3>3, <3>4
    <2>2. below(y) \in SUBSET Sites /\ below(x) \in SUBSET Sites /\ below(y) \in segments
        OBVIOUS
    <2>3. <<below(y), below(x)>> \in StrictSubsetOrdering(Sites)
        <3> HIDE DEF below
        <3> QED BY <2>1, <2>2 DEF StrictSubsetOrdering
    <2> QED BY <1>3, <1>4, <2>2, <2>3
<1>7. \A other \in X : x <= other
    <2>1. \A other \in X : ~(other < x)
        BY <1>6
    <2> QED BY <1>5, <2>1
<1>8. \A id \in X : (\A other \in X : id <= other) => id = x
    BY <1>5, <1>7
<1> QED BY <1>7, <1>8

\* The entries that came or went between what a trigger on a list remembers and
\* a sample.
Moved(v, x, s) ==
    LET after == Reading(v, s) \cap v.where
    IN  IF ~x.primed THEN {}
        ELSE IF v.op = "appears" THEN after \ x.seen ELSE x.seen \ after

\* What a watch on a list remembers of an evaluation, and the entries it rings
\* for: all that came or went, or the first of them.
LEMMA SetRemembers ==
    ASSUME NEW v \in Terms, v.op \in {"appears", "disappears"}, NEW x \in States,
           NEW s \in Samples, NEW n \in Nat, NEW r, r = evalSet(v, x, Reading(v, s), n)
    PROVE  /\ r.st.seen = Reading(v, s) \cap v.where
           /\ v.standing => r.fires = Moved(v, x, s)
           /\ ~v.standing => r.fires \subseteq Moved(v, x, s)
           /\ ~v.standing /\ Moved(v, x, s) # {} => Cardinality(r.fires) = 1
<1> DEFINE after   == Reading(v, s) \cap v.where
           changed == IF v.op = "disappears" THEN x.seen \ after ELSE after \ x.seen
           first   == {id \in changed : \A other \in changed : id <= other}
           rung    == IF v.standing THEN changed ELSE first
           told    == [x EXCEPT !.seen = after]
<1>1. after \in SUBSET Sites /\ changed \in SUBSET Sites
    BY SetReading DEF SetOps, States
<1>2. told.seen = after /\ told \in States
    <2> HIDE DEF after
    <2> QED BY <1>1 DEF States
<1>3. changed # {} => Cardinality(first) = 1
    <2> HIDE DEF changed
    <2>1. changed # {} => \E y \in changed : first = {y}
        BY <1>1, FirstSite
    <2> HIDE DEF first
    <2> QED BY <2>1, FS_Singleton
<1>4. first \subseteq changed
    OBVIOUS
<1>5. CASE ~x.primed
    <2> DEFINE y == [told EXCEPT !.primed = TRUE, !.ready = TRUE]
    <2>1. r.st = y /\ r.fires = {}
        BY <1>5 DEF evalSet, Quiet, Result
    <2>2. y.seen = after
        <3> HIDE DEF told, after
        <3> QED BY <1>2 DEF States
    <2> HIDE DEF y, told
    <2> QED BY <1>5, <2>1, <2>2 DEF Moved
<1>6. CASE x.primed
    <2> DEFINE y == [told EXCEPT !.fireCount = @ + Cardinality(rung)]
    <2>1. r.st = y /\ r.fires = rung
        BY <1>6 DEF evalSet, Result
    <2>2. y.seen = after
        <3> HIDE DEF told, after, rung
        <3> QED BY <1>2 DEF States
    <2> HIDE DEF y, told, first
    <2> QED BY <1>3, <1>4, <1>6, <2>1, <2>2 DEF Moved
<1> QED BY <1>5, <1>6

----------------------------------------------------------------------------
(* The invariant. *)

IInv == TypeOK /\ Agrees /\ Returns /\ Arrivals

\* A watch as it is armed: nothing learned, nothing rung.
LEMMA InitHolds == Init => IInv
<1> SUFFICES ASSUME Init PROVE IInv
    OBVIOUS
<1>1. st \in States /\ ~st.primed /\ ~st.ready /\ st.fireCount = 0 /\ ~st.deliveryError
    BY DEF Init, NewState, States, NoTime
<1>2. TypeOK
    <2>1. 1 \in 1..Horizon /\ 0 \in 0..Horizon
        BY WatchAssumption
    <2> QED BY <1>1, <2>1 DEF Init, TypeOK, NoTime
<1>3. Agrees
    BY <1>1 DEF Init, Agrees, IsNumeric, NoTime
<1>4. Returns /\ Arrivals
    BY <1>1 DEF Init, Returns, Arrivals, NoTime
<1> QED BY <1>2, <1>3, <1>4 DEF IInv

\* What a pass makes of the trigger, whatever its operator.
LEMMA PassFolds ==
    ASSUME TypeOK, NEW s \in Worlds, NEW r, r = Fold(w, st, s, now), ~Spent(w, st, now)
    PROVE      /\ r.st \in States
               /\ r.fires \in SUBSET (Sites \cup {0})
               /\ r.st.primed
               /\ r.st.deliveryError = st.deliveryError
               /\ r.st.fireCount >= st.fireCount
               /\ r.st.fireCount = st.fireCount <=> r.fires = {}
<1>1. w \in Terms /\ st \in States /\ now \in Nat /\ s \in Samples
    BY SamplesAreSamples, WatchAssumption DEF TypeOK
<1>2. st.fireCount \in Nat /\ w.op \in {"crosses", "count", "becomes"} \cup SetOps
    BY <1>1 DEF States, Terms
<1>3. CASE IsNumeric
    <2>1. Reading(w, s) \in Int
        BY <1>1, <1>3, NumericReading DEF IsNumeric
    <2>2. r = crossing(w, st, Reading(w, s))
        BY <1>3 DEF Fold, IsNumeric
    <2> QED BY <1>1, <1>2, <2>1, <2>2, CrossingFolds
<1>4. CASE w.op = "becomes"
    <2>1. Reading(w, s) \in BOOLEAN
        <3>1. Reading(w, s) = s.localFault
            BY <1>4 DEF Reading, SetOps, Text
        <3> QED BY <3>1, <1>1 DEF Samples
    <2>2. r = evalBecomes(w, st, Reading(w, s), now)
        BY <1>4 DEF Fold
    <2>3.      /\ r.st \in States /\ r.fires \in SUBSET {0} /\ r.st.primed
               /\ r.st.deliveryError = st.deliveryError
               /\ r.st.fireCount = IF r.fires = {} THEN st.fireCount ELSE st.fireCount + 1
        BY <1>1, <2>1, <2>2, BecomesFolds
    <2>4. r.fires \in SUBSET (Sites \cup {0})
        BY <2>3
    <2>5. /\ r.st.fireCount >= st.fireCount
          /\ r.st.fireCount = st.fireCount <=> r.fires = {}
        <3>1. CASE r.fires = {}
            BY <1>2, <2>3, <3>1
        <3>2. CASE r.fires # {}
            BY <1>2, <2>3, <3>2
        <3> QED BY <3>1, <3>2
    <2> QED BY <2>3, <2>4, <2>5
<1>5. CASE w.op \in SetOps
    <2>1. r = evalSet(w, st, Reading(w, s), now)
        BY <1>5 DEF Fold, SetOps
    <2>2.      /\ r.st \in States /\ r.fires \in SUBSET Sites /\ r.st.primed
               /\ r.st.deliveryError = st.deliveryError
               /\ r.st.fireCount >= st.fireCount
               /\ r.st.fireCount = st.fireCount <=> r.fires = {}
        BY <1>1, <1>5, <2>1, SetFolds
    <2>3. r.fires \in SUBSET (Sites \cup {0})
        BY <2>2
    <2> QED BY <2>2, <2>3
<1> QED BY <1>2, <1>3, <1>4, <1>5 DEF IsNumeric

\* A pass over a spent watch changes nothing.
LEMMA SpentFolds ==
    ASSUME NEW s, Spent(w, st, now)
    PROVE  Fold(w, st, s, now) = [st |-> st, fires |-> {}]
    BY DEF Fold, Quiet, Result

\* Every step of the engine keeps the types.
LEMMA StepKeepsTypes == TypeOK /\ [Next]_vars => TypeOK'
<1> SUFFICES ASSUME TypeOK, [Next]_vars PROVE TypeOK'
    OBVIOUS
<1> USE WatchAssumption
<1>1. CASE Pass
    <2>1. PICK s \in Worlds :
             /\ st' = Fold(w, st, s, now).st
             /\ fires' = Fold(w, st, s, now).fires
             /\ pending' = (Fold(w, st, s, now).fires # {})
             /\ last' = IF ~Spent(w, st, now) THEN s ELSE last
             /\ backed' \in BOOLEAN
             /\ left' \in {NoTime, now, left}
             /\ rungAt' \in {now, rungAt}
        BY <1>1 DEF Pass, TypeOK
    <2>2. st' \in States /\ fires' \in SUBSET (Sites \cup {0})
        <3>1. CASE Spent(w, st, now)
            BY <2>1, <3>1, SpentFolds DEF TypeOK
        <3>2. CASE ~Spent(w, st, now)
            BY <2>1, <3>2, PassFolds
        <3> QED BY <3>1, <3>2
    <2>3. now' \in 1..Horizon /\ w' = w /\ failed' = failed
        BY <1>1 DEF Pass, TypeOK
    <2>4. left' \in 0..Horizon /\ rungAt' \in 0..Horizon
        BY <2>1 DEF TypeOK, NoTime
    <2>5. last' \in Worlds \cup {NoSample} /\ pending' \in BOOLEAN
        BY <2>1 DEF TypeOK
    <2> QED BY <2>1, <2>2, <2>3, <2>4, <2>5 DEF TypeOK
<1>2. CASE Asleep
    BY <1>2 DEF Asleep, TypeOK
<1>3. CASE Record
    <2>1. st' \in States /\ failed' \in BOOLEAN
        BY <1>3 DEF Record, TypeOK, States
    <2> QED BY <1>3, <2>1 DEF Record, TypeOK
<1>4. CASE UNCHANGED vars
    BY <1>4 DEF vars, TypeOK
<1> QED BY <1>1, <1>2, <1>3, <1>4 DEF Next

\* The state, the clock, what was rung and what was observed stay within their
\* types, whatever is watched: fireCount never goes below zero.
THEOREM WatchTypes == Spec => []TypeOK
<1>1. Init => TypeOK
    BY InitHolds DEF IInv
<1> QED BY <1>1, StepKeepsTypes, PTL DEF Spec

\* Every step keeps the trigger's state and the observer's in agreement.
LEMMA StepKeepsAgreement == IInv /\ [Next]_vars => Agrees'
<1> SUFFICES ASSUME TypeOK, Agrees, [Next]_vars PROVE Agrees'
    BY DEF IInv
<1>1. CASE Pass
    <2>1. PICK s \in Worlds :
             LET r      == Fold(w, st, s, now)
                 looked == ~Spent(w, st, now)
             IN  /\ st' = r.st
                 /\ fires' = r.fires
                 /\ last' = IF looked THEN s ELSE last
                 /\ backed' = IF r.fires # {} THEN FALSE
                              ELSE backed \/ (looked /\ IsNumeric /\ Back(w, Reading(w, s)))
                 /\ rungAt' = IF r.fires # {} THEN now ELSE rungAt
        BY <1>1 DEF Pass
    <2>2. w' = w /\ failed' = failed /\ now # NoTime
        BY <1>1 DEF Pass, TypeOK, NoTime
    <2>3. CASE Spent(w, st, now)
        <3>1. /\ st' = st /\ last' = last /\ rungAt' = rungAt
              /\ backed' <=> backed
            BY <2>1, <2>3, SpentFolds DEF TypeOK
        <3> QED BY <2>2, <3>1 DEF Agrees, IsNumeric
    <2>4. CASE ~Spent(w, st, now)
        <3> DEFINE r == Fold(w, st, s, now)
        <3>1. /\ r.st \in States /\ r.st.primed
              /\ r.st.deliveryError = st.deliveryError
              /\ r.st.fireCount >= st.fireCount
              /\ r.st.fireCount = st.fireCount <=> r.fires = {}
            BY <2>4, PassFolds
        <3>2. st' = r.st /\ fires' = r.fires /\ last' = s
              /\ rungAt' = (IF r.fires # {} THEN now ELSE rungAt)
            BY <2>1, <2>4
        <3>3. backed' = IF r.fires # {} THEN FALSE
                        ELSE backed \/ (IsNumeric /\ Back(w, Reading(w, s)))
            BY <2>1, <2>4
        <3>4. st'.fireCount = 0 <=> rungAt' = NoTime
            <4>1. st.fireCount \in Nat /\ r.st.fireCount \in Nat
                BY <3>1 DEF TypeOK, States
            <4>2. CASE r.fires = {}
                BY <3>1, <3>2, <4>2 DEF Agrees
            <4>3. CASE r.fires # {}
                BY <2>2, <3>1, <3>2, <4>1, <4>3
            <4> QED BY <4>2, <4>3
        <3>5. (st'.primed <=> last' # NoSample) /\ (st'.primed \/ rungAt' = NoTime)
            BY <3>1, <3>2, SamplesAreSamples
        <3>6. st'.deliveryError => failed'
            BY <2>2, <3>1, <3>2 DEF Agrees
        <3>7. /\ IsNumeric /\ st'.primed => st'.number = Reading(w, last')
              /\ IsNumeric => (st'.ready <=> st'.primed /\ (rungAt' = NoTime \/ backed'))
            <4> SUFFICES ASSUME IsNumeric
                         PROVE  /\ st'.number = Reading(w, s)
                                /\ st'.ready <=> rungAt' = NoTime \/ backed'
                BY <3>1, <3>2
            <4>1. w \in Terms /\ st \in States /\ Reading(w, s) \in Int
                BY SamplesAreSamples, WatchAssumption, NumericReading DEF TypeOK, IsNumeric
            <4>2. r = crossing(w, st, Reading(w, s))
                BY <2>4 DEF Fold, IsNumeric
            <4> HIDE DEF r
            <4>3. /\ r.st.number = Reading(w, s)
                  /\ r.fires # {} => st.primed /\ st.ready
                  /\ r.st.ready <=> (~st.primed \/ (st.ready /\ r.fires = {})
                                       \/ (~st.ready /\ Back(w, Reading(w, s))))
                BY <4>1, <4>2, CrossingFolds
            <4>4. (st.ready <=> st.primed /\ (rungAt = NoTime \/ backed))
                  /\ (st.primed \/ rungAt = NoTime)
                BY DEF Agrees
            <4>5. CASE r.fires = {}
                <5>1. backed' <=> backed \/ Back(w, Reading(w, s))
                    BY <3>3, <4>5
                <5>2. rungAt' = rungAt
                    BY <3>2, <4>5
                <5> QED BY <3>2, <4>3, <4>4, <4>5, <5>1, <5>2
            <4>6. CASE r.fires # {}
                BY <2>2, <3>2, <3>3, <4>3, <4>4, <4>6
            <4> QED BY <4>5, <4>6
        <3> QED BY <2>2, <3>4, <3>5, <3>6, <3>7 DEF Agrees, IsNumeric, Reading
    <2> QED BY <2>3, <2>4
<1>2. CASE Asleep
    BY <1>2 DEF Asleep, Agrees, IsNumeric, Reading
<1>3. CASE Record
    <2>1. PICK ok \in BOOLEAN : /\ st' = [st EXCEPT !.deliveryError = ~ok]
                                /\ failed' = (failed \/ ~ok)
        BY <1>3 DEF Record
    <2>2. w' = w /\ last' = last /\ backed' = backed /\ rungAt' = rungAt
        BY <1>3 DEF Record
    <2>3. /\ st'.primed <=> st.primed
          /\ st'.ready <=> st.ready
          /\ st'.number = st.number /\ st'.fireCount = st.fireCount
        BY <2>1 DEF TypeOK, States
    <2>4. st'.deliveryError => failed'
        BY <2>1 DEF TypeOK, States
    <2> QED BY <2>2, <2>3, <2>4 DEF Agrees, IsNumeric, Reading
<1>4. CASE UNCHANGED vars
    BY <1>4 DEF vars, Agrees, IsNumeric, Reading
<1> QED BY <1>1, <1>2, <1>3, <1>4 DEF Next

\* Every step keeps what a watch on a text knows of its value: while it may
\* ring the value is away, and has been for hold since the last alarm.
LEMMA StepKeepsReturns == IInv /\ [Next]_vars => Returns'
<1> SUFFICES ASSUME TypeOK, Agrees, Returns, [Next]_vars, (w.op = "becomes")'
             PROVE  (/\ st.primed => st.text = Reading(w, last)
                     /\ st.ready => st.primed
                     /\ st.primed /\ rungAt = NoTime => st.ready
                     /\ rungAt # NoTime /\ st.text # w.value
                           => left # NoTime /\ st.awaySince = left
                     /\ rungAt # NoTime /\ st.ready
                           => st.text # w.value /\ now - left >= w.hold)'
    BY DEF IInv, Returns
<1>1. w' = w /\ w.op = "becomes" /\ w \in Terms /\ w.hold \in Nat /\ w.value \in BOOLEAN
    BY WatchAssumption DEF TypeOK, Terms, Next, Pass, Asleep, Record, vars
<1>2. st \in States /\ now \in Nat /\ now # NoTime /\ left \in Nat
    BY WatchAssumption DEF TypeOK, NoTime
<1>3. CASE Pass
    <2>1. PICK s \in Worlds :
             LET r      == Fold(w, st, s, now)
                 looked == ~Spent(w, st, now)
             IN  /\ st' = r.st
                 /\ last' = IF looked THEN s ELSE last
                 /\ left' = IF r.fires # {} THEN NoTime
                            ELSE IF /\ looked /\ w.op = "becomes" /\ last # NoSample
                                    /\ Reading(w, last) = w.value /\ Reading(w, s) # w.value
                                 THEN now ELSE left
                 /\ rungAt' = IF r.fires # {} THEN now ELSE rungAt
        BY <1>3 DEF Pass
    <2>2. now' = now + 1
        BY <1>3 DEF Pass
    <2>3. CASE Spent(w, st, now)
        <3>1. st' = st /\ last' = last /\ rungAt' = rungAt /\ left' = left
            BY <2>1, <2>3, SpentFolds
        <3>2. now - left >= w.hold => now' - left' >= w.hold
            BY <1>1, <1>2, <2>2, <3>1
        <3> QED BY <1>1, <3>1, <3>2 DEF Returns
    <2>4. CASE ~Spent(w, st, now)
        <3> DEFINE t == Reading(w, s)
                   r == Fold(w, st, s, now)
                   held == \/ st.ready
                           \/ /\ st.text # w.value /\ st.awaySince # NoTime
                              /\ now - st.awaySince >= w.hold
        <3>1. t \in BOOLEAN
            <4>1. t = s.localFault
                BY <1>1 DEF Reading, SetOps, Text
            <4> QED BY <4>1, SamplesAreSamples DEF Samples
        <3>2. r = evalBecomes(w, st, t, now)
            BY <1>1, <2>4 DEF Fold
        <3>3. /\ st' = r.st /\ last' = s
              /\ left' = IF r.fires # {} THEN NoTime
                         ELSE IF /\ last # NoSample /\ Reading(w, last) = w.value /\ t # w.value
                              THEN now ELSE left
              /\ rungAt' = IF r.fires # {} THEN now ELSE rungAt
            BY <1>1, <2>1, <2>4
        <3> HIDE DEF t, r
        <3>4. r.st.primed
            BY <1>1, <1>2, <3>1, <3>2, BecomesFolds
        <3>5. /\ r.st.text = t
              /\ r.st.awaySince = IF st.primed /\ st.text = w.value /\ t # w.value
                                  THEN now ELSE st.awaySince
              /\ r.fires # {} <=> st.primed /\ held /\ st.text # w.value /\ t = w.value
              /\ r.st.ready <=> ~st.primed \/ (held /\ r.fires = {})
            BY <1>1, <1>2, <3>1, <3>2, BecomesRemembers
        <3>6. Reading(w, last)' = t
            BY <1>1, <3>3 DEF t, Reading
        <3>7. /\ st.primed => st.text = Reading(w, last)
              /\ st.primed /\ rungAt = NoTime => st.ready
              /\ rungAt # NoTime /\ st.text # w.value => left # NoTime /\ st.awaySince = left
              /\ rungAt # NoTime /\ st.ready => st.text # w.value /\ now - left >= w.hold
              /\ st.primed <=> last # NoSample
              /\ st.primed \/ rungAt = NoTime
            BY <1>1 DEF Returns, Agrees
        <3>8. CASE r.fires # {}
            <4>1. st'.text = w.value /\ ~st'.ready /\ rungAt' # NoTime /\ st'.primed
                BY <1>2, <3>3, <3>4, <3>5, <3>8
            <4> QED BY <1>1, <3>3, <3>5, <3>6, <4>1
        <3>9. CASE r.fires = {}
            <4>1. rungAt' = rungAt
                BY <3>3, <3>9
            <4>2. st.primed /\ rungAt = NoTime => st'.ready
                BY <3>3, <3>5, <3>7, <3>9
            <4>3. ~st.primed => st'.ready
                BY <3>3, <3>5
            <4>4. ASSUME rungAt # NoTime, t # w.value
                  PROVE  left' # NoTime /\ st'.awaySince = left'
                BY <1>2, <3>3, <3>5, <3>7, <3>9, <4>4
            <4>5. ASSUME rungAt # NoTime, st'.ready
                  PROVE  t # w.value /\ now' - left' >= w.hold
                <5>1. st.primed /\ held
                    BY <3>3, <3>5, <3>7, <4>5
                <5>2. st.text # w.value /\ now - left >= w.hold
                    BY <3>7, <4>5, <5>1
                <5>3. t # w.value
                    BY <3>5, <3>9, <5>1, <5>2
                <5>4. left' = left
                    BY <3>3, <3>7, <3>9, <5>1, <5>2
                <5>5. now' - left' >= w.hold
                    BY <1>1, <1>2, <2>2, <5>2, <5>4
                <5> QED BY <5>3, <5>5
            <4> QED BY <1>1, <3>3, <3>4, <3>5, <3>6, <3>7, <4>1, <4>2, <4>3, <4>4, <4>5
        <3> QED BY <3>8, <3>9
    <2> QED BY <2>3, <2>4
<1>4. CASE Asleep
    <2>1. /\ now' = now + 1 /\ st' = st /\ last' = last /\ left' = left
          /\ rungAt' = rungAt
        BY <1>4 DEF Asleep
    <2>2. now - left >= w.hold => now' - left' >= w.hold
        BY <1>1, <1>2, <2>1
    <2> QED BY <1>1, <2>1, <2>2 DEF Returns, Reading
<1>5. CASE Record
    <2>1. PICK ok \in BOOLEAN : st' = [st EXCEPT !.deliveryError = ~ok]
        BY <1>5 DEF Record
    <2>2. now' = now /\ last' = last /\ left' = left /\ rungAt' = rungAt
        BY <1>5 DEF Record
    <2>3. /\ st'.primed <=> st.primed
          /\ st'.ready <=> st.ready
          /\ st'.text = st.text /\ st'.awaySince = st.awaySince
        BY <2>1 DEF TypeOK, States
    <2> QED BY <1>1, <2>2, <2>3 DEF Returns, Reading
<1>6. CASE UNCHANGED vars
    BY <1>1, <1>6 DEF vars, Returns, Reading
<1> QED BY <1>3, <1>4, <1>5, <1>6 DEF Next

\* Every step keeps the entries a watch on a list remembers those of the last
\* sample.
LEMMA StepKeepsArrivals == IInv /\ [Next]_vars => Arrivals'
<1> SUFFICES ASSUME TypeOK, Agrees, Arrivals, [Next]_vars,
                    (w.op \in {"appears", "disappears"} /\ st.primed)'
             PROVE  (st.seen = Reading(w, last) \cap w.where)'
    BY DEF IInv, Arrivals
<1>1. /\ w' = w /\ w.op \in {"appears", "disappears"} /\ w \in Terms
      /\ w.op \in SetOps /\ ~IsNumeric /\ w.op # "becomes"
    BY WatchAssumption DEF TypeOK, Terms, Next, Pass, Asleep, Record, vars, SetOps, IsNumeric
<1>2. st \in States /\ now \in Nat
    BY WatchAssumption DEF TypeOK
<1>3. CASE Pass
    <2>1. PICK s \in Worlds : /\ st' = Fold(w, st, s, now).st
                              /\ last' = IF ~Spent(w, st, now) THEN s ELSE last
        BY <1>3 DEF Pass
    <2>2. CASE Spent(w, st, now)
        BY <1>1, <2>1, <2>2, SpentFolds DEF Arrivals, Reading
    <2>3. CASE ~Spent(w, st, now)
        <3>1. Fold(w, st, s, now) = evalSet(w, st, Reading(w, s), now)
            BY <1>1, <2>3 DEF Fold, IsNumeric
        <3>2. st'.seen = Reading(w, s) \cap w.where
            <4> DEFINE r == Fold(w, st, s, now)
            <4>1. r = evalSet(w, st, Reading(w, s), now) /\ s \in Samples
                BY <3>1, SamplesAreSamples
            <4> HIDE DEF r
            <4>2. r.st.seen = Reading(w, s) \cap w.where
                BY <1>1, <1>2, <4>1, SetRemembers
            <4> QED BY <2>1, <4>2 DEF r
        <3>3. Reading(w, last)' = Reading(w, s)
            BY <1>1, <2>1, <2>3 DEF Reading
        <3> QED BY <1>1, <3>2, <3>3
    <2> QED BY <2>2, <2>3
<1>4. CASE Asleep
    BY <1>1, <1>4 DEF Asleep, Arrivals, Reading
<1>5. CASE Record
    <2>1. PICK ok \in BOOLEAN : st' = [st EXCEPT !.deliveryError = ~ok]
        BY <1>5 DEF Record
    <2>2. st'.primed = st.primed /\ st'.seen = st.seen
        BY <2>1 DEF TypeOK, States
    <2> QED BY <1>1, <1>5, <2>2 DEF Record, Arrivals, Reading
<1>6. CASE UNCHANGED vars
    BY <1>1, <1>6 DEF vars, Arrivals, Reading
<1> QED BY <1>3, <1>4, <1>5, <1>6 DEF Next

\* The inductive invariant holds in every state an armed watch reaches.
LEMMA Invariance == Spec => []IInv
<1>1. IInv /\ [Next]_vars => IInv'
    BY StepKeepsTypes, StepKeepsAgreement, StepKeepsReturns, StepKeepsArrivals DEF IInv
<1> QED BY <1>1, InitHolds, PTL DEF Spec

----------------------------------------------------------------------------
(* What a watch promises. *)

\* A watch on a number, or on how many entries a list has, rings on exactly its
\* crossings, re-armed by one sample clearly back and by nothing else, for every
\* bound and margin.
THEOREM CrossingsAreRung == Spec => CrossingsRing
<1> DEFINE Crossed ==
        Looks /\ IsNumeric =>
             (Rings <=> /\ last # NoSample
                        /\ ~Past(w, Reading(w, last)) /\ Past(w, Reading(w, last'))
                        /\ rungAt = NoTime \/ backed)
<1>1. IInv /\ [Next]_vars => [Crossed]_vars
    <2> SUFFICES ASSUME TypeOK, Agrees, Next, Looks, IsNumeric
                 PROVE  Rings <=> /\ last # NoSample
                                  /\ ~Past(w, Reading(w, last)) /\ Past(w, Reading(w, last'))
                                  /\ rungAt = NoTime \/ backed
        BY DEF IInv
    <2>1. CASE Pass
        <3>1. ~Spent(w, st, now) /\ now' # now
            BY DEF Looks, Turn
        <3>2. PICK s \in Worlds : fires' = Fold(w, st, s, now).fires /\ last' = s
            BY <2>1, <3>1 DEF Pass
        <3>3. w \in Terms /\ st \in States /\ Reading(w, s) \in Int
            BY SamplesAreSamples, WatchAssumption, NumericReading DEF TypeOK, IsNumeric
        <3>4. Fold(w, st, s, now) = crossing(w, st, Reading(w, s))
            BY <3>1 DEF Fold, IsNumeric
        <3>5. fires' # {} <=> st.primed /\ st.ready
                              /\ ~Past(w, st.number) /\ Past(w, Reading(w, s))
            BY <3>2, <3>3, <3>4, CrossingFolds
        <3> QED BY <3>1, <3>2, <3>5 DEF Agrees, Rings, Turn
    <2>2. CASE Asleep
        BY <2>2 DEF Asleep, Rings
    <2>3. CASE Record
        BY <2>3 DEF Record, Looks, Turn
    <2> QED BY <2>1, <2>2, <2>3 DEF Next
<1> QED BY <1>1, Invariance, PTL DEF Spec, CrossingsRing

\* A watch on a text rings on exactly the returns to its value from an absence
\* that lasted hold, however often the value flaps in between.
THEOREM ReturnsAreRung == Spec => ReturnsRing
<1> DEFINE Returned ==
        Looks /\ w.op = "becomes" =>
             (Rings <=> /\ last # NoSample
                        /\ Reading(w, last) # w.value /\ Reading(w, last') = w.value
                        /\ rungAt = NoTime \/ (left # NoTime /\ now - left >= w.hold))
<1>1. IInv /\ [Next]_vars => [Returned]_vars
    <2> SUFFICES ASSUME TypeOK, Agrees, Returns, Next, Looks, w.op = "becomes"
                 PROVE  Rings <=> /\ last # NoSample
                                  /\ Reading(w, last) # w.value /\ Reading(w, last') = w.value
                                  /\ rungAt = NoTime \/ (left # NoTime /\ now - left >= w.hold)
        BY DEF IInv
    <2>1. CASE Pass
        <3>1. ~Spent(w, st, now) /\ now' # now
            BY DEF Looks, Turn
        <3>2. PICK s \in Worlds : fires' = Fold(w, st, s, now).fires /\ last' = s
            BY <2>1, <3>1 DEF Pass
        <3> DEFINE held == \/ st.ready
                           \/ /\ st.text # w.value /\ st.awaySince # NoTime
                              /\ now - st.awaySince >= w.hold
        <3>3. w \in Terms /\ st \in States /\ now \in Nat /\ Reading(w, s) \in BOOLEAN
            <4>1. Reading(w, s) = s.localFault
                BY DEF Reading, SetOps, Text
            <4> QED BY <4>1, SamplesAreSamples, WatchAssumption DEF TypeOK, Samples
        <3>4. Fold(w, st, s, now) = evalBecomes(w, st, Reading(w, s), now)
            BY <3>1 DEF Fold
        <3>5. fires' # {} <=> st.primed /\ held /\ st.text # w.value
                              /\ Reading(w, s) = w.value
            BY <3>2, <3>3, <3>4, BecomesRemembers
        <3>6. ASSUME st.primed, st.text # w.value
              PROVE  held <=> rungAt = NoTime \/ (left # NoTime /\ now - left >= w.hold)
            BY <3>6 DEF Returns
        <3>7. (st.primed <=> last # NoSample) /\ (st.primed => st.text = Reading(w, last))
            BY DEF Returns, Agrees
        <3> HIDE DEF held
        <3> QED BY <3>1, <3>2, <3>5, <3>6, <3>7 DEF Rings, Turn
    <2>2. CASE Asleep
        BY <2>2 DEF Asleep, Looks, Rings, Turn, Agrees
    <2>3. CASE Record
        BY <2>3 DEF Record, Looks, Turn
    <2> QED BY <2>1, <2>2, <2>3 DEF Next
<1> QED BY <1>1, Invariance, PTL DEF Spec, ReturnsRing

\* A standing watch on a list rings for exactly the entries that came (or went)
\* between two samples, a one-shot for one of them, and neither for what was
\* there when it was armed.
THEOREM ArrivalsAreRung == Spec => ArrivalsRing
<1> DEFINE Came ==
        Looks /\ w.op \in {"appears", "disappears"} =>
             LET before == Reading(w, last) \cap w.where
                 after  == Reading(w, last') \cap w.where
                 moved  == IF last = NoSample THEN {}
                           ELSE IF w.op = "appears" THEN after \ before ELSE before \ after
             IN  IF w.standing THEN fires' = moved
                 ELSE fires' \subseteq moved /\ (moved # {} => Cardinality(fires') = 1)
<1>1. IInv /\ [Next]_vars => [Came]_vars
    <2> SUFFICES ASSUME TypeOK, Agrees, Arrivals, Next, Looks,
                        w.op \in {"appears", "disappears"}
                 PROVE  Came
        BY DEF IInv
    <2>1. CASE Pass
        <3>1. ~Spent(w, st, now) /\ now' # now
            BY DEF Looks, Turn
        <3>2. PICK s \in Worlds : fires' = Fold(w, st, s, now).fires /\ last' = s
            BY <2>1, <3>1 DEF Pass
        <3>3. w \in Terms /\ st \in States /\ now \in Nat /\ s \in Samples
            BY SamplesAreSamples, WatchAssumption DEF TypeOK
        <3>4. Fold(w, st, s, now) = evalSet(w, st, Reading(w, s), now)
            BY <3>1 DEF Fold
        <3> DEFINE after == Reading(w, s) \cap w.where
                   known == Moved(w, st, s)
        <3>5. IF w.standing THEN fires' = known
              ELSE fires' \subseteq known /\ (known # {} => Cardinality(fires') = 1)
            <4> DEFINE r == Fold(w, st, s, now)
            <4>1. r = evalSet(w, st, Reading(w, s), now) /\ fires' = r.fires
                BY <3>2, <3>4
            <4> HIDE DEF r
            <4>2. /\ w.standing => r.fires = known
                  /\ ~w.standing => r.fires \subseteq known
                  /\ ~w.standing /\ known # {} => Cardinality(r.fires) = 1
                BY <3>3, <4>1, SetRemembers
            <4> HIDE DEF known
            <4> QED BY <4>1, <4>2
        <3>6. (st.primed <=> last # NoSample)
              /\ (st.primed => st.seen = Reading(w, last) \cap w.where)
            BY DEF Arrivals, Agrees
        <3>7. known = IF last = NoSample THEN {}
                      ELSE IF w.op = "appears" THEN after \ (Reading(w, last) \cap w.where)
                      ELSE (Reading(w, last) \cap w.where) \ after
            BY <3>6 DEF Moved
        <3> HIDE DEF known
        <3> QED BY <3>2, <3>5, <3>7
    <2>2. CASE Asleep
        BY <2>2 DEF Asleep, Looks, Rings, Turn, Agrees
    <2>3. CASE Record
        BY <2>3 DEF Record, Looks, Turn
    <2> QED BY <2>1, <2>2, <2>3 DEF Next
<1> QED BY <1>1, Invariance, PTL DEF Spec, ArrivalsRing

\* Until a delivery fails, no watch rings past its expiry and no one-shot rings
\* a second time.
THEOREM OneShotsAreOver == Spec => DeliveredIsOver
<1> DEFINE Over == Rings /\ ~failed => /\ now <= w.expiresAt
                                       /\ w.standing \/ rungAt = NoTime
<1>1. IInv /\ [Next]_vars => [Over]_vars
    <2> SUFFICES ASSUME TypeOK, Agrees, Next, Rings, ~failed
                 PROVE  now <= w.expiresAt /\ (w.standing \/ rungAt = NoTime)
        BY DEF IInv
    <2>1. CASE Pass
        <3>1. PICK s \in Worlds : fires' = Fold(w, st, s, now).fires
            BY <2>1 DEF Pass
        <3>2. ~Spent(w, st, now)
            BY <3>1, SpentFolds DEF Rings
        <3>3. ~st.deliveryError /\ (st.fireCount = 0 <=> rungAt = NoTime)
            BY DEF Agrees
        <3>4. st.fireCount \in Nat /\ w.expiresAt \in Nat /\ now \in Nat
            BY WatchAssumption DEF TypeOK, States, Terms
        <3>5. w.standing \/ ~(st.fireCount > 0)
            BY <3>2, <3>3 DEF Spent, Status
        <3>6. now <= w.expiresAt
            BY <3>2, <3>3, <3>4, <3>5 DEF Spent, Status
        <3> QED BY <3>3, <3>4, <3>5, <3>6
    <2>2. CASE Asleep
        BY <2>2 DEF Asleep, Rings
    <2>3. CASE Record
        BY <2>3 DEF Record, Rings, Turn
    <2> QED BY <2>1, <2>2, <2>3 DEF Next
<1> QED BY <1>1, Invariance, PTL DEF Spec, DeliveredIsOver
=============================================================================
