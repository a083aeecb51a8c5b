-------------------------- MODULE SiteHistoryProofs --------------------------
(***************************************************************************)
(* Proofs about SiteHistory: for every set of addresses, nameservers and   *)
(* dates and every length of the history, a site is down exactly after two *)
(* misses in a row and says since when, its readings never contradict each *)
(* other, and a registration's warning goes away only with a renewal.      *)
(*                                                                         *)
(* Down is rebuilt from Up, Probed and Fails, so none of the properties is *)
(* inductive.  Tied says what each of those fields means to an observer    *)
(* who only saw the probes, Explained that a certificate which failed left *)
(* its reason behind; the days left of an expiry only shrink as the clock  *)
(* moves on, whatever the length of a day.                                 *)
(***************************************************************************)
EXTENDS SiteHistory, TLAPS

Tied ==
    /\ site.fails = misses
    /\ site.probed <=> (wasUp \/ misses > 0)
    /\ site.up <=> (wasUp /\ misses < failuresBeforeDown)
    /\ ~wasUp => site.stateSince = NoTime
    /\ wasUp /\ misses >= failuresBeforeDown => site.stateSince = onset

\* A chain that did not verify left an error behind.
Explained == site.certChecked /\ ~site.certValid => site.certError

IInv == TypeOK /\ Tied /\ Explained

Times == Dates \cup 0..Horizon
Records == SiteStates({"url"}, Addrs, Servers, Times)

----------------------------------------------------------------------------
(* What folding one answer in does to a record. *)

\* MoreFails counts one more, up to the cap, which is past two.
LEMMA MoreFailsCounts ==
    ASSUME NEW n \in 0..FailCap
    PROVE  /\ MoreFails(n) \in 0..FailCap
           /\ MoreFails(n) > 0
           /\ MoreFails(n) >= 2 <=> n >= 1
BY SiteStateAssumption DEF MoreFails, failuresBeforeDown

\* A record stays one, and changes only in the four fields of the first tier.
LEMMA ReachFolds ==
    ASSUME NEW s \in Records, NEW r, NEW n \in 1..Horizon
    PROVE  LET t       == applyReach(s, r, Expect, n)
               healthy == ReachUp(r, Expect)
           IN  /\ t \in Records
               /\ t.probed = TRUE
               /\ t.fails = IF healthy THEN 0 ELSE MoreFails(s.fails)
               /\ t.up <=> healthy \/ (s.up /\ t.fails < failuresBeforeDown)
               /\ t.stateSince = IF \/ healthy /\ (~s.up \/ ~s.probed)
                                    \/ /\ ~healthy /\ t.fails >= failuresBeforeDown
                                       /\ s.up \/ ~s.probed
                                 THEN n ELSE s.stateSince
<1> DEFINE healthy == ReachUp(r, Expect)
           fails   == IF healthy THEN 0 ELSE MoreFails(s.fails)
           up      == healthy \/ (s.up /\ fails < failuresBeforeDown)
           verdict == \/ healthy /\ (~s.up \/ ~s.probed)
                      \/ ~healthy /\ fails >= failuresBeforeDown /\ (s.up \/ ~s.probed)
           since   == IF verdict THEN n ELSE s.stateSince
<1>1. applyReach(s, r, Expect, n) =
        [s EXCEPT !.probed = TRUE, !.fails = fails, !.up = up, !.stateSince = since]
  BY DEF applyReach
<1>2. fails \in 0..FailCap
  <2>1. s.fails \in 0..FailCap
    BY DEF Records, SiteStates
  <2> QED BY <2>1, MoreFailsCounts, SiteStateAssumption
<1>3. up \in BOOLEAN
  OBVIOUS
<1>4. since \in Times
  <2>1. n \in Times
    BY SiteHistoryAssumption DEF Times
  <2>2. s.stateSince \in Times
    BY DEF Records, SiteStates
  <2> QED BY <2>1, <2>2
<1> HIDE DEF fails, up, since
<1>5. [s EXCEPT !.probed = TRUE, !.fails = fails, !.up = up, !.stateSince = since] \in Records
  BY <1>2, <1>3, <1>4 DEF Records, SiteStates
<1>6. LET t == applyReach(s, r, Expect, n)
      IN t.probed = TRUE /\ t.fails = fails /\ t.up = up /\ t.stateSince = since
  BY <1>1 DEF Records, SiteStates
<1> QED BY <1>1, <1>5, <1>6 DEF fails, up, since

\* The other tiers leave those four fields alone.
LEMMA OthersFold ==
    ASSUME NEW s \in Records
    PROVE  /\ \A h \in DnsAnswers : LET t == applyDNS(s, h)
                                    IN  /\ t \in Records
                                        /\ t.probed = s.probed /\ t.fails = s.fails
                                        /\ t.up = s.up /\ t.stateSince = s.stateSince
           /\ \A c \in CertAnswers : LET t == applyTLS(s, c)
                                     IN  /\ t \in Records
                                         /\ t.probed = s.probed /\ t.fails = s.fails
                                         /\ t.up = s.up /\ t.stateSince = s.stateSince
           /\ \A d \in DomainAnswers : LET t == applyDomain(s, d)
                                       IN  /\ t \in Records
                                           /\ t.probed = s.probed /\ t.fails = s.fails
                                           /\ t.up = s.up /\ t.stateSince = s.stateSince
<1>1. ASSUME NEW h \in DnsAnswers
      PROVE  LET t == applyDNS(s, h)
             IN  /\ t \in Records
                 /\ t.probed = s.probed /\ t.fails = s.fails
                 /\ t.up = s.up /\ t.stateSince = s.stateSince
  <2>1. h.addrs \in SUBSET Addrs /\ h.ns \in SUBSET Servers
    BY DEF DnsAnswers, DnsAnswer
  <2> DEFINE nsRead == ~h.nsErr /\ h.ns # {}
             moved  == s.addressChanged \/ (s.addrs # {} /\ s.addrs # h.addrs)
             nsNew  == s.nsChanged \/ (nsRead /\ s.ns # {} /\ s.ns # h.ns)
             ns     == IF nsRead THEN h.ns ELSE s.ns
  <2>2. applyDNS(s, h) = IF h.err THEN s
                         ELSE [s EXCEPT !.addressChanged = moved, !.addrs = h.addrs,
                                        !.nsChanged = nsNew, !.ns = ns]
    BY DEF applyDNS
  <2>3. moved \in BOOLEAN /\ nsNew \in BOOLEAN
    OBVIOUS
  <2>4. ns \in SUBSET Servers
    BY <2>1 DEF Records, SiteStates
  <2> DEFINE t == [s EXCEPT !.addressChanged = moved, !.addrs = h.addrs,
                            !.nsChanged = nsNew, !.ns = ns]
  <2> HIDE DEF moved, nsNew, ns, nsRead
  <2>5. t \in Records
    BY <2>1, <2>3, <2>4 DEF Records, SiteStates
  <2>6. /\ t.probed = s.probed /\ t.fails = s.fails
        /\ t.up = s.up /\ t.stateSince = s.stateSince
    BY DEF Records, SiteStates
  <2> QED BY <2>2, <2>5, <2>6
<1>2. ASSUME NEW c \in CertAnswers
      PROVE  LET t == applyTLS(s, c)
             IN  /\ t \in Records
                 /\ t.probed = s.probed /\ t.fails = s.fails
                 /\ t.up = s.up /\ t.stateSince = s.stateSince
  <2>1. c.valid \in BOOLEAN /\ c.covers \in BOOLEAN /\ c.notAfter \in Times
    BY DEF CertAnswers, CertAnswer, Times
  <2> QED BY <2>1 DEF applyTLS, Records, SiteStates
<1>3. ASSUME NEW d \in DomainAnswers
      PROVE  LET t == applyDomain(s, d)
             IN  /\ t \in Records
                 /\ t.probed = s.probed /\ t.fails = s.fails
                 /\ t.up = s.up /\ t.stateSince = s.stateSince
  <2>1. d.expires \in Times
    BY SiteHistoryAssumption DEF DomainAnswers, DomainAnswer, Times, NoTime
  <2> QED BY <2>1 DEF applyDomain, Records, SiteStates
<1> QED BY <1>1, <1>2, <1>3

\* Only the third tier touches the certificate, and it explains a bad chain.
LEMMA CertFolds ==
    ASSUME NEW s \in Records, s.certChecked /\ ~s.certValid => s.certError
    PROVE  /\ \A r : LET t == applyReach(s, r, Expect, now)
                     IN  t.certChecked /\ ~t.certValid => t.certError
           /\ \A h : LET t == applyDNS(s, h)
                     IN  t.certChecked /\ ~t.certValid => t.certError
           /\ \A c \in CertAnswers : LET t == applyTLS(s, c)
                                     IN  t.certChecked /\ ~t.certValid => t.certError
           /\ \A d : LET t == applyDomain(s, d)
                     IN  t.certChecked /\ ~t.certValid => t.certError
<1>1. \A r : LET t == applyReach(s, r, Expect, now)
             IN  t.certChecked /\ ~t.certValid => t.certError
  BY DEF applyReach, Records, SiteStates
<1>2. \A h : LET t == applyDNS(s, h)
             IN  t.certChecked /\ ~t.certValid => t.certError
  BY DEF applyDNS, Records, SiteStates
<1>3. \A c \in CertAnswers : LET t == applyTLS(s, c)
                             IN  t.certChecked /\ ~t.certValid => t.certError
  BY DEF applyTLS, Records, SiteStates, CertAnswers, CertAnswer
<1>4. \A d : LET t == applyDomain(s, d)
             IN  t.certChecked /\ ~t.certValid => t.certError
  BY DEF applyDomain, Records, SiteStates
<1> QED BY <1>1, <1>2, <1>3, <1>4

----------------------------------------------------------------------------
(* The invariant. *)

\* A record that was never probed.
LEMMA InitIInv == Init => IInv
<1> SUFFICES ASSUME Init PROVE IInv
  OBVIOUS
<1>1. site \in Records
  BY SiteStateAssumption, SiteHistoryAssumption
     DEF Init, NewSite, Records, SiteStates, Times, NoTime
<1>2. TypeOK
  <2>1. now = 1 /\ misses = 0 /\ onset = 0 /\ wasUp = FALSE
    BY DEF Init, NoTime
  <2>2. now \in 1..Horizon /\ onset \in 0..Horizon
    BY <2>1, SiteHistoryAssumption
  <2>3. misses \in 0..FailCap
    BY <2>1, SiteStateAssumption
  <2>4. wasUp \in BOOLEAN
    BY <2>1
  <2> QED BY <1>1, <2>2, <2>3, <2>4 DEF TypeOK, Records, Times
<1>3. Tied
  <2>1. /\ site.fails = 0 /\ site.probed = FALSE /\ site.up = FALSE
        /\ site.stateSince = NoTime
    BY DEF Init, NewSite
  <2> QED BY <2>1 DEF Tied, Init
<1>4. Explained
  BY DEF Init, NewSite, Explained
<1> QED BY <1>2, <1>3, <1>4 DEF IInv

\* Each tier, at any time and with any answer, keeps the record tied to what
\* was observed.
LEMMA NextIInv == IInv /\ [Next]_vars => IInv'
<1> SUFFICES ASSUME IInv, [Next]_vars PROVE IInv'
  OBVIOUS
<1>0. site \in Records /\ misses \in 0..FailCap /\ now \in 1..Horizon /\ wasUp \in BOOLEAN
  BY DEF IInv, TypeOK, Records, Times
<1>1. CASE ReachRound
  <2>1. PICK r \in ReachAnswers :
          /\ site' = applyReach(site, r, Expect, now)
          /\ misses' = IF ReachUp(r, Expect) THEN 0 ELSE MoreFails(misses)
          /\ onset' = IF misses = 1 /\ misses' = 2 THEN now ELSE onset
          /\ wasUp' = (wasUp \/ ReachUp(r, Expect))
          /\ UNCHANGED now
    BY <1>1 DEF ReachRound
  <2> DEFINE healthy == ReachUp(r, Expect)
  <2>2. /\ site' \in Records
        /\ site'.probed = TRUE
        /\ site'.fails = IF healthy THEN 0 ELSE MoreFails(site.fails)
        /\ site'.up <=> healthy \/ (site.up /\ site'.fails < failuresBeforeDown)
        /\ site'.stateSince = IF \/ healthy /\ (~site.up \/ ~site.probed)
                                 \/ /\ ~healthy /\ site'.fails >= failuresBeforeDown
                                    /\ site.up \/ ~site.probed
                              THEN now ELSE site.stateSince
    BY <1>0, <2>1, ReachFolds
  <2> HIDE DEF healthy
  <2>3. /\ misses' = IF healthy THEN 0 ELSE MoreFails(misses)
        /\ wasUp' <=> wasUp \/ healthy
    BY <2>1 DEF healthy
  <2>4. /\ MoreFails(misses) \in 0..FailCap
        /\ MoreFails(misses) > 0
        /\ MoreFails(misses) >= 2 <=> misses >= 1
        /\ misses = 1 => MoreFails(misses) = 2
    BY <1>0, MoreFailsCounts, SiteStateAssumption DEF MoreFails, failuresBeforeDown
  <2>5. TypeOK'
    <3>1. wasUp' \in BOOLEAN /\ misses' \in 0..FailCap
      BY <1>0, <2>1, <2>3, <2>4, SiteStateAssumption
    <3>2. onset' \in 0..Horizon /\ now' \in 1..Horizon
      BY <2>1, <1>0, SiteHistoryAssumption DEF IInv, TypeOK
    <3> QED BY <2>2, <3>1, <3>2 DEF TypeOK, Records, Times
  <2>6. Tied'
    <3>1. CASE healthy
      BY <3>1, <1>0, <2>1, <2>2, <2>3 DEF IInv, Tied, failuresBeforeDown
    <3>2. CASE ~healthy
      <4>1. site'.fails = misses'
        BY <3>2, <2>2, <2>3 DEF IInv, Tied
      <4>2. site'.up <=> (wasUp' /\ misses' < failuresBeforeDown)
        BY <3>2, <4>1, <1>0, <2>2, <2>3, <2>4 DEF IInv, Tied, failuresBeforeDown
      <4>3. site'.probed <=> (wasUp' \/ misses' > 0)
        BY <3>2, <2>2, <2>3, <2>4
      <4>4. ~wasUp' => site'.stateSince = NoTime
        BY <3>2, <4>1, <1>0, <2>2, <2>3, <2>4 DEF IInv, Tied, failuresBeforeDown
      <4>5. wasUp' /\ misses' >= failuresBeforeDown => site'.stateSince = onset'
        BY <3>2, <4>1, <1>0, <2>1, <2>2, <2>3, <2>4 DEF IInv, Tied, failuresBeforeDown
      <4> QED BY <4>1, <4>2, <4>3, <4>4, <4>5 DEF Tied
    <3> QED BY <3>1, <3>2
  <2>7. Explained'
    BY <1>0, <2>1, CertFolds DEF IInv, Explained
  <2> QED BY <2>5, <2>6, <2>7 DEF IInv
<1>2. CASE DNSRound \/ TLSRound \/ DomainRound
  <2>1. /\ site' \in Records
        /\ site'.probed = site.probed /\ site'.fails = site.fails
        /\ site'.up = site.up /\ site'.stateSince = site.stateSince
    BY <1>0, <1>2, OthersFold DEF DNSRound, TLSRound, DomainRound
  <2>2. UNCHANGED <<now, misses, onset, wasUp>>
    BY <1>2 DEF DNSRound, TLSRound, DomainRound
  <2>3. Explained'
    BY <1>0, <1>2, CertFolds DEF IInv, Explained, DNSRound, TLSRound, DomainRound
  <2> QED BY <2>1, <2>2, <2>3 DEF IInv, TypeOK, Tied, Records, Times
<1>3. CASE Wait
  <2>1. now' \in 1..Horizon
    BY <1>0, <1>3, SiteHistoryAssumption DEF Wait
  <2>2. UNCHANGED <<site, misses, onset, wasUp>>
    BY <1>3 DEF Wait
  <2> QED BY <2>1, <2>2 DEF IInv, TypeOK, Tied, Explained
<1>4. CASE UNCHANGED vars
  BY <1>4 DEF vars, IInv, TypeOK, Tied, Explained
<1> QED BY <1>1, <1>2, <1>3, <1>4 DEF Next

\* The inductive invariant holds after every history of answers.
LEMMA SpecIInv == Spec => []IInv
BY InitIInv, NextIInv, PTL DEF Spec

----------------------------------------------------------------------------
\* Every answer of every tier leaves a record a record.
THEOREM SiteHistoryTypes == Spec => []TypeOK
<1>1. IInv => TypeOK
  BY DEF IInv
<1> QED BY <1>1, SpecIInv, PTL

\* A site is down exactly when its last two counted probes (or more) failed.
THEOREM SiteHistoryDown == Spec => []DownIsTwoInARow
<1>1. IInv => DownIsTwoInARow
  BY DEF IInv, TypeOK, Tied, DownIsTwoInARow, Down, failuresBeforeDown
<1> QED BY <1>1, SpecIInv, PTL

\* The since of a site that is down is the moment of its second miss.
THEOREM SiteHistorySince == Spec => []SinceIsOnset
<1>1. IInv => SinceIsOnset
  BY DEF IInv, TypeOK, Tied, SinceIsOnset, Down, failuresBeforeDown
<1> QED BY <1>1, SpecIInv, PTL

----------------------------------------------------------------------------
(* Days left, and the readings made of them. *)

\* A longer time has no fewer whole days, on either side of zero.
LEMMA WholeDaysGrow ==
    ASSUME NEW a \in Int, NEW b \in Int, a <= b
    PROVE  WholeDays(a) \in Int /\ WholeDays(a) <= WholeDays(b)
<1>1. ASSUME NEW x \in Nat, NEW y \in Nat, x <= y
      PROVE  x \div Day <= y \div Day
  <2> DEFINE p == x \div Day
             q == y \div Day
  <2>1. p \in Nat /\ Day * p <= x
    BY SiteStateAssumption
  <2>2. q \in Nat /\ y < Day * (q + 1)
    BY SiteStateAssumption
  <2> HIDE DEF p, q
  <2>3. Day * p < Day * (q + 1)
    BY <1>1, <2>1, <2>2, SiteStateAssumption
  <2>4. p < q + 1
    BY <2>1, <2>2, <2>3, SiteStateAssumption
  <2> QED BY <2>1, <2>2, <2>4 DEF p, q
<1>2. \A x \in Nat : x \div Day \in Nat
  BY SiteStateAssumption
<1>3. CASE a >= 0 /\ b >= 0
  BY <1>1, <1>2, <1>3 DEF WholeDays
<1>4. CASE a < 0 /\ b >= 0
  <2>1. (-a) \div Day \in Nat /\ b \div Day \in Nat
    BY <1>2, <1>4
  <2> QED BY <1>4, <2>1 DEF WholeDays
<1>5. CASE a < 0 /\ b < 0
  <2>1. (-a) \div Day \in Nat /\ (-b) \div Day \in Nat /\ (-b) \div Day <= (-a) \div Day
    BY <1>1, <1>2, <1>5
  <2> QED BY <1>5, <2>1 DEF WholeDays
<1> QED BY <1>3, <1>4, <1>5

\* More than n whole days are more than n days.
LEMMA DaysAhead ==
    ASSUME NEW d \in Int, NEW n \in Nat, WholeDays(d) > n
    PROVE  d > n * Day
<1>1. d >= 0
  <2>1. ASSUME d < 0
        PROVE  FALSE
    <3>1. (-d) \div Day \in Nat
      BY <2>1, SiteStateAssumption
    <3> QED BY <2>1, <3>1 DEF WholeDays
  <2> QED BY <2>1
<1> DEFINE q == d \div Day
<1>2. q \in Nat /\ Day * q <= d /\ q >= n + 1
  BY <1>1, SiteStateAssumption DEF WholeDays
<1> HIDE DEF q
<1>3. Day * (n + 1) <= Day * q /\ Day * (n + 1) = n * Day + Day
  BY <1>2, SiteStateAssumption
<1>4. Day \in Nat \ {0} /\ n * Day \in Nat /\ Day * q \in Nat
  BY <1>2, SiteStateAssumption
<1> QED BY <1>2, <1>3, <1>4

\* The days left only become fewer.
LEMMA DaysLeftShrink ==
    ASSUME NEW s \in Records, NEW n \in Nat, NEW m \in Nat, n <= m
    PROVE  /\ CertDaysLeft(s, n) \in Int /\ CertDaysLeft(s, m) \in Int
           /\ CertDaysLeft(s, m) <= CertDaysLeft(s, n)
           /\ DomainDaysLeft(s, n) \in Int /\ DomainDaysLeft(s, m) \in Int
           /\ DomainDaysLeft(s, m) <= DomainDaysLeft(s, n)
<1>1. s.certNotAfter \in Nat /\ s.domainExpires \in Nat
  <2>1. s.certNotAfter \in Times /\ s.domainExpires \in Times
    BY DEF Records, SiteStates
  <2>2. \A t \in Times : t \in Nat
    BY SiteHistoryAssumption DEF Times
  <2> QED BY <2>1, <2>2
<1>2. /\ s.certNotAfter - m <= s.certNotAfter - n /\ s.domainExpires - m <= s.domainExpires - n
      /\ s.certNotAfter - m \in Int /\ s.certNotAfter - n \in Int
      /\ s.domainExpires - m \in Int /\ s.domainExpires - n \in Int
  BY <1>1
<1>3. CASE s.certNotAfter # NoTime
  BY <1>2, <1>3, WholeDaysGrow DEF CertDaysLeft, DomainDaysLeft
<1>4. CASE s.certNotAfter = NoTime
  BY <1>2, <1>4, WholeDaysGrow DEF CertDaysLeft, DomainDaysLeft
<1> QED BY <1>3, <1>4

\* The readings of a record, with their cases in the order of the code.
LEMMA SeverityCases ==
    ASSUME NEW s \in Records, NEW n \in Nat
    PROVE  /\ ~s.probed => Severity(s, n) = 0
           /\ s.probed /\ Down(s) => Severity(s, n) = 3
           /\ s.probed /\ Failing(s) => Severity(s, n) = 2
           /\ s.probed /\ ~Down(s) /\ ~Failing(s) =>
                /\ \/ s.certChecked /\ (~s.certValid \/ ~s.certCoversHost)
                   \/ s.certChecked /\ CertDaysLeft(s, n) <= CertUrgent
                   => Severity(s, n) = 3
                /\ ~ (\/ s.certChecked /\ (~s.certValid \/ ~s.certCoversHost)
                      \/ s.certChecked /\ CertDaysLeft(s, n) <= CertUrgent)
                   => /\ \/ s.certChecked /\ CertDaysLeft(s, n) <= CertWarn
                         \/ s.domainKnown /\ DomainDaysLeft(s, n) <= DomainWarn
                         => Severity(s, n) = 2
                      /\ ~ (\/ s.certChecked /\ CertDaysLeft(s, n) <= CertWarn
                            \/ s.domainKnown /\ DomainDaysLeft(s, n) <= DomainWarn)
                         => Severity(s, n) = IF InMoved(s) THEN 1 ELSE 0
<1>1. ~ (Down(s) /\ Failing(s))
  BY DEF Down, Failing, failuresBeforeDown, Records, SiteStates
<1> QED BY <1>1 DEF Severity, SevOK, SevInfo, SevWarn, SevUrgent

\* Waiting alone never makes a site look better.
LEMMA WaitingHeals ==
    ASSUME NEW s \in Records, NEW n \in Nat, NEW m \in Nat, n <= m
    PROVE  Severity(s, m) >= Severity(s, n)
<1>1. /\ CertDaysLeft(s, n) \in Int /\ CertDaysLeft(s, m) \in Int
      /\ CertDaysLeft(s, m) <= CertDaysLeft(s, n)
      /\ DomainDaysLeft(s, n) \in Int /\ DomainDaysLeft(s, m) \in Int
      /\ DomainDaysLeft(s, m) <= DomainDaysLeft(s, n)
  BY DaysLeftShrink
<1>2. CertUrgent \in Nat /\ CertWarn \in Nat /\ DomainWarn \in Nat
  BY SiteStateAssumption
<1>3. /\ CertDaysLeft(s, n) <= CertUrgent => CertDaysLeft(s, m) <= CertUrgent
      /\ CertDaysLeft(s, n) <= CertWarn => CertDaysLeft(s, m) <= CertWarn
      /\ DomainDaysLeft(s, n) <= DomainWarn => DomainDaysLeft(s, m) <= DomainWarn
  BY <1>1, <1>2
<1> DEFINE urgent(i) == \/ s.certChecked /\ (~s.certValid \/ ~s.certCoversHost)
                        \/ s.certChecked /\ CertDaysLeft(s, i) <= CertUrgent
           warn(i) == \/ s.certChecked /\ CertDaysLeft(s, i) <= CertWarn
                      \/ s.domainKnown /\ DomainDaysLeft(s, i) <= DomainWarn
<1>4. (urgent(n) => urgent(m)) /\ (warn(n) => warn(m))
  BY <1>3
<1>5. ASSUME s.probed, ~Down(s), ~Failing(s), NEW i \in {n, m}
      PROVE  Severity(s, i) = IF urgent(i) THEN 3 ELSE IF warn(i) THEN 2
                              ELSE IF InMoved(s) THEN 1 ELSE 0
  BY <1>5, SeverityCases
<1> HIDE DEF urgent, warn
<1>6. CASE s.probed /\ ~Down(s) /\ ~Failing(s)
  BY <1>4, <1>5, <1>6
<1>7. CASE ~ (s.probed /\ ~Down(s) /\ ~Failing(s))
  BY <1>7, SeverityCases
<1> QED BY <1>6, <1>7

----------------------------------------------------------------------------
\* The colour of a row, its reason and the alert lists agree now, and do not
\* contradict themselves later: for every window, every date and every order of
\* answers.
THEOREM SiteHistoryReadings == Spec => []ReadingsAgree
<1>1. ASSUME IInv
      PROVE  ReadingsAgree
  <2>1. site \in Records /\ now \in 1..Horizon /\ Tied /\ Explained
    BY <1>1 DEF IInv, TypeOK, Records, Times
  <2>2. now \in Nat /\ CertDaysLeft(site, now) \in Int
    BY <2>1, DaysLeftShrink, SiteHistoryAssumption
  <2>3. ColourHasReason
    <3> SUFFICES ASSUME CertUrgent <= CertWarn, site.probed
                 PROVE  Severity(site, now) # 0 <=> Reason(site, now) # ""
      BY DEF ColourHasReason, SevOK
    <3>1. CASE Down(site) \/ Failing(site)
      BY <2>1, <2>2, <3>1, SeverityCases DEF Reason
    <3>2. CASE ~Down(site) /\ ~Failing(site)
      <4>1. CertDaysLeft(site, now) <= CertUrgent => CertDaysLeft(site, now) <= CertWarn
        BY <2>2, SiteStateAssumption
      <4>2. Severity(site, now) # 0 <=>
              \/ site.certChecked /\ (~site.certValid \/ ~site.certCoversHost)
              \/ site.certChecked /\ CertDaysLeft(site, now) <= CertWarn
              \/ site.domainKnown /\ DomainDaysLeft(site, now) <= DomainWarn
              \/ InMoved(site)
        BY <2>1, <2>2, <3>2, <4>1, SeverityCases
      <4>3. Reason(site, now) # "" <=>
              \/ site.certChecked /\ (~site.certValid \/ ~site.certCoversHost)
              \/ site.certChecked /\ CertDaysLeft(site, now) <= CertWarn
              \/ site.domainKnown /\ DomainDaysLeft(site, now) <= DomainWarn
              \/ InMoved(site)
        BY <2>1, <3>2 DEF Reason, InMoved, Explained
      <4> QED BY <4>2, <4>3
    <3> QED BY <3>1, <3>2
  <2>4. ColourMatchesLists
    <3> SUFFICES ASSUME CertUrgent <= CertWarn, site.probed, misses = 0
                 PROVE  Severity(site, now) >= 2 <=>
                            InCertProblems(site, now) \/ InDomainProblems(site, now)
      BY DEF ColourMatchesLists, SevWarn
    <3>1. ~Down(site) /\ ~Failing(site)
      BY <2>1 DEF Tied, Down, Failing, failuresBeforeDown
    <3>2. CertDaysLeft(site, now) <= CertUrgent => CertDaysLeft(site, now) <= CertWarn
      BY <2>2, SiteStateAssumption
    <3> QED BY <2>1, <2>2, <3>1, <3>2, SeverityCases DEF InCertProblems, InDomainProblems
  <2>5. WaitingNeverHeals
    <3>1. \A later \in now..Horizon : later \in Nat /\ now <= later
      BY <2>1, SiteHistoryAssumption
    <3> QED BY <2>1, <2>2, <3>1, WaitingHeals DEF WaitingNeverHeals
  <2> QED BY <2>3, <2>4, <2>5 DEF ReadingsAgree
<1> QED BY <1>1, SpecIInv, PTL

\* A renewal warning ends with a registration whose date is outside the window,
\* and with nothing else: no failed query, no answer without a date, no waiting.
THEOREM SiteHistoryRenewal == Spec => WarningNeedsRenewal
<1> DEFINE Renewed == InDomainProblems(site, now) /\ ~InDomainProblems(site', now')
                        => \E t \in Dates : /\ site'.domainExpires = t
                                            /\ t # site.domainExpires
                                            /\ t > now + DomainWarn * Day
<1>1. ASSUME IInv, [Next]_vars
      PROVE  [Renewed]_vars
  <2> SUFFICES ASSUME Next, InDomainProblems(site, now), ~InDomainProblems(site', now')
               PROVE  \E t \in Dates : /\ site'.domainExpires = t
                                       /\ t # site.domainExpires
                                       /\ t > now + DomainWarn * Day
    BY <1>1
  <2>1. site \in Records /\ now \in Nat /\ now + 1 \in Nat
    BY <1>1, SiteHistoryAssumption DEF IInv, TypeOK, Records, Times
  <2>2. ~ (ReachRound \/ DNSRound \/ TLSRound)
    <3>1. ASSUME site'.domainKnown = site.domainKnown, site'.domainExpires = site.domainExpires,
                 now' = now
          PROVE  FALSE
      BY <3>1 DEF InDomainProblems, DomainDaysLeft
    <3>2. ~ReachRound
      BY <2>1, <3>1 DEF ReachRound, applyReach, Records, SiteStates
    <3>3. ~DNSRound
      BY <2>1, <3>1 DEF DNSRound, applyDNS, Records, SiteStates
    <3>4. ~TLSRound
      BY <2>1, <3>1 DEF TLSRound, applyTLS, Records, SiteStates
    <3> QED BY <3>2, <3>3, <3>4
  <2>3. ~Wait
    <3> SUFFICES ASSUME Wait
                 PROVE  FALSE
      OBVIOUS
    <3>1. site' = site /\ now' = now + 1
      BY DEF Wait
    <3>2. /\ DomainDaysLeft(site, now) \in Int /\ DomainDaysLeft(site, now + 1) \in Int
          /\ DomainDaysLeft(site, now + 1) <= DomainDaysLeft(site, now)
      BY <2>1, DaysLeftShrink
    <3> QED BY <3>1, <3>2, SiteStateAssumption DEF InDomainProblems
  <2>4. PICK d \in DomainAnswers : site' = applyDomain(site, d) /\ now' = now
    BY <2>2, <2>3 DEF Next, DomainRound
  <2>5. d.expires # NoTime /\ ~d.err
    BY <2>4 DEF applyDomain
  <2>6. site'.domainExpires = d.expires /\ site'.domainKnown
    BY <2>1, <2>4, <2>5 DEF applyDomain, Records, SiteStates
  <2>7. d.expires \in Dates /\ d.expires \in Nat
    BY <2>5, SiteHistoryAssumption DEF DomainAnswers, DomainAnswer
  <2>8. WholeDays(d.expires - now) \in Int /\ d.expires - now \in Int
    BY <2>1, <2>7, WholeDaysGrow
  <2>9. WholeDays(d.expires - now) > DomainWarn
    BY <2>4, <2>5, <2>6, <2>8, SiteStateAssumption DEF InDomainProblems, DomainDaysLeft
  <2>10. d.expires - now > DomainWarn * Day
    BY <2>8, <2>9, DaysAhead, SiteStateAssumption
  <2>11. d.expires > now + DomainWarn * Day
    <3>1. DomainWarn * Day \in Nat
      BY SiteStateAssumption
    <3> QED BY <2>1, <2>7, <2>10, <3>1
  <2>12. d.expires # site.domainExpires
    <3>1. site.domainExpires = d.expires => WholeDays(d.expires - now) <= DomainWarn
      BY <2>5 DEF InDomainProblems, DomainDaysLeft
    <3> QED BY <2>8, <2>9, <3>1, SiteStateAssumption
  <2> QED BY <2>6, <2>7, <2>11, <2>12
<1> QED BY <1>1, SpecIInv, PTL DEF Spec, WarningNeedsRenewal
=============================================================================
