---------------------------- MODULE MonitorProofs ----------------------------
(***************************************************************************)
(* For every set of sites, workers, tiers and answers and every number of  *)
(* requests and crashes: what the monitor holds, what it has on disk and   *)
(* what each of its threads is about to write are well typed, and no       *)
(* record of a watched site is dropped but one a reload put back under its *)
(* removal.                                                                *)
(*                                                                         *)
(* The types do not say the second: Forget drops whatever id its thread    *)
(* carries.  Removing adds that such an id was handed out and is in the    *)
(* store no more, unless a reload put it back; as ids are never handed out *)
(* twice, no site added later can be meant by it.                          *)
(***************************************************************************)
EXTENDS Monitor, SequenceTheorems, TLAPS

Rounds == Tiers \cup {"save"}
Jobs == Tiers \cup {"save", "forget", "swap", "end"}

\* The sites that were never removed, or added anew.
Steady == DOMAIN store \ restored

\* A thread has at most a removal in front, the site it is about is gone, and the
\* sites a reload holds have been handed out.
Gone(r, ids, kept) ==
    /\ DOMAIN r.held.sites \subseteq ids
    /\ \A i \in 2..Len(r.jobs) : r.jobs[i] # "forget"
    /\ r.jobs # <<>> /\ r.jobs[1] = "forget" => r.id \in ids \ kept

Removing == \A t \in Threads : Gone(th[t], used, Steady)

ThreadsOK == th = [t \in Threads |-> th[t]] /\ \A t \in Threads : IsThread(th[t])

IInv == TypeOK /\ Removing

----------------------------------------------------------------------------
(* Partial functions. *)

\* Dropping entries of a map leaves a map.
LEMMA Dropping ==
    ASSUME NEW S, NEW f, IsMap(f, S), NEW ids
    PROVE  /\ IsMap(Without(f, ids), S) /\ DOMAIN Without(f, ids) = DOMAIN f \ ids
           /\ IsMap(Within(f, ids), S) /\ DOMAIN Within(f, ids) = DOMAIN f \cap ids
    BY DEF IsMap, Without, Within

----------------------------------------------------------------------------
(* Records. *)

\* Now and the zero time are times.
LEMMA TimesHave == Now \in Times /\ NoTime \in Times
    BY DEF Times

\* A record of a site is one under whatever address it is given.
LEMMA EnsureTyped ==
    ASSUME IsMap(state, Records), NEW id \in Sites, NEW c \in Configs
    PROVE  ensure(id, c) \in Records
<1>1. c.url \in Urls
    BY DEF Urls
<1>2. NewSite(c.url) \in Records
    <2>1. 0 \in 0..FailCap
        BY SiteStateAssumption
    <2> QED BY <1>1, <2>1, TimesHave DEF NewSite, Records, SiteStates
<1> DEFINE s == IF id \in DOMAIN state THEN state[id] ELSE NewSite(c.url)
<1>3. s \in Records
    BY <1>2 DEF IsMap
<1>4. ensure(id, c) = [s EXCEPT !.url = c.url]
    BY DEF ensure
<1> HIDE DEF s
<1> QED BY <1>1, <1>3, <1>4 DEF Records, SiteStates

\* Folding a probe in leaves a record.
LEMMA ReachTyped ==
    ASSUME NEW s \in Records, NEW r, NEW expect
    PROVE  applyReach(s, r, expect, Now) \in Records
<1> DEFINE healthy == ReachUp(r, expect)
           fails   == IF healthy THEN 0 ELSE MoreFails(s.fails)
           up      == healthy \/ (s.up /\ fails < failuresBeforeDown)
           verdict == \/ healthy /\ (~s.up \/ ~s.probed)
                      \/ ~healthy /\ fails >= failuresBeforeDown /\ (s.up \/ ~s.probed)
           since   == IF verdict THEN Now ELSE s.stateSince
<1>1. applyReach(s, r, expect, Now) =
        [s EXCEPT !.probed = TRUE, !.fails = fails, !.up = up, !.stateSince = since]
    BY DEF applyReach
<1>2. fails \in 0..FailCap
    <2>1. s.fails \in 0..FailCap
        BY DEF Records, SiteStates
    <2> QED BY <2>1, SiteStateAssumption DEF MoreFails, failuresBeforeDown
<1>3. up \in BOOLEAN
    OBVIOUS
<1>4. since \in Times
    BY TimesHave DEF Records, SiteStates
<1> HIDE DEF fails, up, since
<1> QED BY <1>1, <1>2, <1>3, <1>4 DEF Records, SiteStates

\* So does folding a lookup in.
LEMMA DnsTyped ==
    ASSUME NEW s \in Records, NEW h \in DnsAnswers
    PROVE  applyDNS(s, h) \in Records
<1>1. h.addrs \in SUBSET Addrs /\ h.ns \in SUBSET Servers
    BY DEF Addrs, Servers
<1> DEFINE nsRead == ~h.nsErr /\ h.ns # {}
           moved  == s.addressChanged \/ (s.addrs # {} /\ s.addrs # h.addrs)
           nsNew  == s.nsChanged \/ (nsRead /\ s.ns # {} /\ s.ns # h.ns)
           ns     == IF nsRead THEN h.ns ELSE s.ns
<1>2. applyDNS(s, h) = IF h.err THEN s
                       ELSE [s EXCEPT !.addressChanged = moved, !.addrs = h.addrs,
                                      !.nsChanged = nsNew, !.ns = ns]
    BY DEF applyDNS
<1>3. moved \in BOOLEAN /\ nsNew \in BOOLEAN
    OBVIOUS
<1>4. ns \in SUBSET Servers
    BY <1>1 DEF Records, SiteStates
<1> HIDE DEF moved, nsNew, ns
<1> QED BY <1>1, <1>2, <1>3, <1>4 DEF Records, SiteStates

\* And a certificate.
LEMMA CertTyped ==
    ASSUME NEW s \in Records, NEW c \in CertAnswers
    PROVE  applyTLS(s, c) \in Records
<1>1. c \in CertAnswer(Times)
    BY MonitorAssumption
<1>2. c.valid \in BOOLEAN /\ c.covers \in BOOLEAN /\ c.notAfter \in Times
    BY <1>1 DEF CertAnswer
<1> QED BY <1>2 DEF applyTLS, Records, SiteStates

\* And a registration.
LEMMA DomainTyped ==
    ASSUME NEW s \in Records, NEW d \in DomainAnswers
    PROVE  applyDomain(s, d) \in Records
<1>1. d.expires \in Times
    BY DEF Times
<1> QED BY <1>1 DEF applyDomain, Records, SiteStates

\* A fault that is recorded has the time it began at.
LEMMA FaultTyped ==
    ASSUME fault \in Fault, NEW cut \in BOOLEAN
    PROVE  FaultAfter(cut) \in Fault
    BY DEF FaultAfter, Fault, NoFault, NoTime, Now

----------------------------------------------------------------------------
(* Threads. *)

\* The rounds of a refresh are rounds and a save.
LEMMA AllTiersTyped == AllTiers \in Seq(Rounds)
<1>1. ASSUME NEW tier PROVE Only(tier) \in Seq(Rounds)
    <2>1. CASE tier \in Tiers
        <3>1. tier \in Rounds
            BY <2>1 DEF Rounds
        <3>2. <<tier>> \in Seq(Rounds)
            BY <3>1
        <3> QED BY <2>1, <3>2 DEF Only
    <2>2. CASE tier \notin Tiers
        BY <2>2 DEF Only
    <2> QED BY <2>1, <2>2
<1>2. <<"save">> \in Seq(Rounds)
    BY DEF Rounds
<1> QED BY <1>1, <1>2 DEF AllTiers

\* No round is a removal.
LEMMA RoundsForgetNothing == "forget" \notin Rounds /\ Rounds \subseteq Jobs
    BY MonitorAssumption DEF Rounds, Jobs

\* A map of no site, a document of nothing.
LEMMA NothingTyped == /\ \A S : IsMap(<<>>, S)
                      /\ NoFault \in Fault /\ IsDoc(NoDoc)
                      /\ IsSites(NoSites) /\ DOMAIN NoSites.sites = {}
<1>1. \A S : IsMap(<<>>, S)
    BY DEF IsMap
<1>2. NoFault \in Fault
    BY DEF NoFault, Fault, NoTime
<1> QED BY <1>1, <1>2 DEF IsDoc, NoDoc, IsSites, NoSites

\* A thread that is given jobs, before it begins them.
LEMMA StartTyped ==
    ASSUME NEW jobs \in Seq(Jobs), NEW id \in Sites \cup {None}
    PROVE  /\ IsThread([Idle EXCEPT !.jobs = jobs, !.id = id])
           /\ [Idle EXCEPT !.jobs = jobs, !.id = id].jobs = jobs
           /\ [Idle EXCEPT !.jobs = jobs, !.id = id].id = id
           /\ DOMAIN [Idle EXCEPT !.jobs = jobs, !.id = id].held.sites = {}
    BY NothingTyped DEF Idle, IsThread, Jobs, None

\* Rounds may be given to a thread at any time.
LEMMA RoundsAreCalm ==
    ASSUME NEW r, r.jobs \in Seq(Rounds), NEW ids, DOMAIN r.held.sites \subseteq ids, NEW kept
    PROVE  Gone(r, ids, kept)
    BY RoundsForgetNothing DEF Gone

\* A thread after its first job has only rounds left.
LEMMA DoneTyped ==
    ASSUME NEW t \in Threads, IsThread(th[t]), th[t].jobs # <<>>, NEW ids, NEW kept,
           \A i \in 2..Len(th[t].jobs) : th[t].jobs[i] # "forget"
    PROVE  IsThread(Done(t)) /\ Gone(Done(t), ids, kept) /\ Done(t).jobs = Tail(th[t].jobs)
<1> DEFINE jobs == th[t].jobs
<1>1. jobs \in Seq(Jobs) /\ th[t].id \in Sites \cup {None}
    BY DEF IsThread, Jobs
<1>2. Tail(jobs) \in Seq(Jobs) /\ Len(Tail(jobs)) = Len(jobs) - 1
      /\ \A i \in 1..Len(Tail(jobs)) : Tail(jobs)[i] = jobs[i + 1]
    BY <1>1
<1>3. \A i \in 1..Len(Tail(jobs)) : Tail(jobs)[i] # "forget"
    BY <1>1, <1>2
<1>4. IsThread(Done(t)) /\ Done(t).jobs = Tail(jobs) /\ DOMAIN Done(t).held.sites = {}
    <2> DEFINE rest == Tail(jobs)
    <2> HIDE DEF rest
    <2> QED BY <1>1, <1>2, StartTyped DEF Done, rest
<1>5. Tail(jobs) # <<>> => 1 \in 1..Len(Tail(jobs))
    BY <1>2
<1>6. Gone(Done(t), ids, kept)
    <2> HIDE DEF jobs
    <2> QED BY <1>2, <1>3, <1>4, <1>5 DEF Gone
<1> QED BY <1>4, <1>6

\* A step of one thread that leaves it calm, and frees no id that was gone,
\* leaves all of them so.
LEMMA OneThread ==
    ASSUME TypeOK, Removing, NEW t \in Threads, NEW r, th' = [th EXCEPT ![t] = r],
           IsThread(r), Gone(r, used', Steady'),
           used \subseteq used', Steady' \cap used \subseteq Steady
    PROVE  ThreadsOK' /\ Removing'
<1>1. th = [u \in Threads |-> th[u]] /\ \A u \in Threads : IsThread(th[u])
    BY DEF TypeOK
<1>2. \A u \in Threads : th'[u] = IF u = t THEN r ELSE th[u]
    BY <1>1
<1>3. th' = [u \in Threads |-> th'[u]]
    BY <1>1
<1>4. \A u \in Threads : IsThread(th'[u])
    BY <1>1, <1>2
<1>5. ASSUME NEW u \in Threads PROVE Gone(th'[u], used', Steady')
    <2>1. CASE u = t
        BY <1>2, <2>1
    <2>2. CASE u # t
        <3>1. Gone(th[u], used, Steady)
            BY DEF Removing
        <3> QED BY <1>2, <2>2, <3>1 DEF Gone
    <2> QED BY <2>1, <2>2
<1>6. ThreadsOK'
    BY <1>3, <1>4 DEF ThreadsOK
<1>7. Removing'
    BY <1>5 DEF Removing
<1> QED BY <1>6, <1>7

\* When nobody's jobs change, neither does any of it.
LEMMA NoThread ==
    ASSUME TypeOK, Removing, th' = th,
           used \subseteq used', Steady' \cap used \subseteq Steady
    PROVE  ThreadsOK' /\ Removing'
<1>1. ThreadsOK'
    BY DEF TypeOK, ThreadsOK
<1>2. Removing'
    BY DEF Removing, Gone
<1> QED BY <1>1, <1>2

\* What a thread is and has, taken out of the invariant.
LEMMA ThreadHas ==
    ASSUME TypeOK, Removing, NEW t \in Threads
    PROVE  /\ IsThread(th[t]) /\ Gone(th[t], used, Steady)
           /\ th[t].jobs \in Seq(Jobs) /\ th[t].id \in Sites \cup {None}
           /\ IsMap(th[t].list, Configs) /\ IsDoc(th[t].doc) /\ th[t].known \subseteq Sites
           /\ IsSites(th[t].held) /\ DOMAIN th[t].held.sites \subseteq used
           /\ th[t].jobs # <<>> => /\ IsThread(Done(t)) /\ Gone(Done(t), used, Steady)
                                   /\ Done(t).jobs = Tail(th[t].jobs)
<1>1. IsThread(th[t]) /\ Gone(th[t], used, Steady)
    BY DEF TypeOK, Removing
<1>2. th[t].jobs # <<>> => /\ IsThread(Done(t)) /\ Gone(Done(t), used, Steady)
                           /\ Done(t).jobs = Tail(th[t].jobs)
    BY <1>1, DoneTyped DEF Gone
<1> QED BY <1>1, <1>2 DEF IsThread, Jobs, Gone

\* A thread on the same jobs is as calm.
LEMMA SameJobs ==
    ASSUME NEW x, NEW y, x.jobs = y.jobs, x.id = y.id, x.held = y.held, NEW ids, NEW kept, Gone(x, ids, kept)
    PROVE  Gone(y, ids, kept)
    BY DEF Gone

----------------------------------------------------------------------------
(* The rounds. *)

\* What a round takes of the sites is a map of their configurations.
LEMMA ActiveTyped == TypeOK => IsMap(active, Configs) /\ DOMAIN active \subseteq DOMAIN store
<1> SUFFICES ASSUME TypeOK
             PROVE  IsMap(active, Configs) /\ DOMAIN active \subseteq DOMAIN store
    OBVIOUS
<1> DEFINE on == {id \in DOMAIN store : store[id].on}
<1>1. IsMap(store, Configs)
    BY DEF TypeOK
<1>2. IsMap(Within(store, on), Configs) /\ DOMAIN Within(store, on) = DOMAIN store \cap on
    <2> HIDE DEF on
    <2> QED BY <1>1, Dropping
<1>3. IsMap(<<>>, Configs) /\ DOMAIN <<>> = {}
    BY NothingTyped
<1>4. active = <<>> \/ active = Within(store, on)
    BY DEF active
<1> HIDE DEF on
<1> QED BY <1>2, <1>3, <1>4

\* A round that begins takes a copy of the sites, or ends.
LEMMA RoundBegins ==
    ASSUME TypeOK, Removing, NEW t \in Threads, NEW job, BeginRound(t, job)
    PROVE  TypeOK' /\ Removing' /\ DOMAIN state \subseteq DOMAIN state'
<1> DEFINE list == Within(active, {id \in DOMAIN active : Wanted(job, active[id])})
           held == [th[t] EXCEPT !.at = "probe", !.list = list]
<1>1. /\ Doing(t, job, "begin") /\ boot' \in BOOLEAN
      /\ \/ th' = [th EXCEPT ![t] = Done(t)]
         \/ th' = [th EXCEPT ![t] = held]
      /\ UNCHANGED <<server, state, fault, file, stopping, faults>>
    BY DEF BeginRound, TypeOK
<1>2. IsMap(list, Configs)
    BY ActiveTyped, Dropping
<1>3. IsThread(held) /\ Gone(held, used, Steady)
    <2> HIDE DEF list
    <2>1. IsThread(held) /\ held.jobs = th[t].jobs /\ held.id = th[t].id /\ held.held = th[t].held
        BY <1>2, ThreadHas DEF IsThread
    <2> QED BY <2>1, ThreadHas, SameJobs
<1>4. th[t].jobs # <<>>
    BY <1>1 DEF Doing
<1>5. ThreadsOK' /\ Removing'
    <2> HIDE DEF held
    <2> QED BY <1>1, <1>3, <1>4, ThreadHas, OneThread DEF server, sitesNow, Steady
<1> QED BY <1>1, <1>5 DEF TypeOK, ThreadsOK, server, sitesNow

\* A round of probes ends in the records of its sites, or in a fault.
LEMMA ReachFolds ==
    ASSUME TypeOK, Removing, NEW t \in Threads, ReachRound(t)
    PROVE  TypeOK' /\ Removing' /\ DOMAIN state \subseteq DOMAIN state'
<1> DEFINE list == th[t].list
           answers == MayAnswer(t, ReachAnswers, LAMBDA a : Transport(a.err))
<1>1. PICK linkUp \in BOOLEAN, r \in [DOMAIN list -> answers] :
          /\ fault' = FaultAfter(LocalFaultOf(linkUp, r))
          /\ state' = IF LocalFaultOf(linkUp, r) THEN state ELSE Reached(list, r)
    BY DEF ReachRound
<1>2. /\ Doing(t, "reach", "probe") /\ th' = [th EXCEPT ![t] = Done(t)]
      /\ UNCHANGED <<server, boot, file, stopping, faults>>
    BY DEF ReachRound
<1>3. ThreadsOK' /\ Removing'
    BY <1>2, ThreadHas, OneThread DEF server, sitesNow, Steady, Doing
<1>4. fault' \in Fault
    <2>1. LocalFaultOf(linkUp, r) \in BOOLEAN
        BY DEF LocalFaultOf
    <2> QED BY <1>1, <2>1, FaultTyped DEF TypeOK
<1>5. IsMap(Reached(list, r), Records) /\ DOMAIN Reached(list, r) = DOMAIN state \cup DOMAIN list
    <2>1. IsMap(list, Configs) /\ IsMap(state, Records)
        BY ThreadHas DEF TypeOK
    <2>2. ASSUME NEW id \in DOMAIN list
          PROVE  applyReach(ensure(id, list[id]), r[id], list[id].expect, Now) \in Records
        <3>1. id \in Sites /\ list[id] \in Configs
            BY <2>1 DEF IsMap
        <3>2. ensure(id, list[id]) \in Records
            BY <2>1, <3>1, EnsureTyped
        <3> QED BY <3>2, ReachTyped
    <2>3. \A id \in DOMAIN state : state[id] \in Records
        BY <2>1 DEF IsMap
    <2> HIDE DEF list
    <2> QED BY <2>1, <2>2, <2>3 DEF Reached, IsMap
<1>6. IsMap(state', Records) /\ DOMAIN state \subseteq DOMAIN state'
    BY <1>1, <1>5 DEF TypeOK
<1> QED BY <1>2, <1>3, <1>4, <1>6 DEF TypeOK, ThreadsOK, server, sitesNow

\* The serial tiers leave a thread on the rest of its sites, or done.
LEMMA NextSiteTyped ==
    ASSUME TypeOK, Removing, NEW t \in Threads, th[t].jobs # <<>>, NEW id, NextSite(t, id),
           UNCHANGED server
    PROVE  ThreadsOK' /\ Removing'
<1> DEFINE rest == Without(th[t].list, {id})
           held == [th[t] EXCEPT !.list = rest]
<1>1. th' = [th EXCEPT ![t] = Done(t)] \/ th' = [th EXCEPT ![t] = held]
    BY DEF NextSite
<1>2. IsMap(rest, Configs)
    BY ThreadHas, Dropping
<1>3. IsThread(held) /\ Gone(held, used, Steady)
    <2> HIDE DEF rest
    <2>1. IsThread(held) /\ held.jobs = th[t].jobs /\ held.id = th[t].id /\ held.held = th[t].held
        BY <1>2, ThreadHas DEF IsThread
    <2> QED BY <2>1, ThreadHas, SameJobs
<1> HIDE DEF held
<1> QED BY <1>1, <1>3, ThreadHas, OneThread DEF server, sitesNow, Steady

\* One site's answer of a serial tier is folded in.
LEMMA SerialFolds ==
    ASSUME TypeOK, Removing, NEW t \in Threads, th[t].jobs # <<>>,
           NEW id \in DOMAIN th[t].list, NEW s,
           ensure(id, th[t].list[id]) \in Records => s \in Records,
           state' = Put(state, id, s), NextSite(t, id),
           UNCHANGED <<server, fault, boot, file, stopping, faults>>
    PROVE  TypeOK' /\ Removing' /\ DOMAIN state \subseteq DOMAIN state'
<1>1. ThreadsOK' /\ Removing'
    BY NextSiteTyped
<1>2. id \in Sites /\ th[t].list[id] \in Configs /\ IsMap(state, Records)
    BY ThreadHas DEF IsMap, TypeOK
<1>3. s \in Records
    BY <1>2, EnsureTyped
<1>4. IsMap(Put(state, id, s), Records) /\ DOMAIN Put(state, id, s) = DOMAIN state \cup {id}
    BY <1>2, <1>3 DEF IsMap, Put
<1>5. IsMap(state', Records) /\ DOMAIN state \subseteq DOMAIN state'
    BY <1>4
<1> QED BY <1>1, <1>5 DEF TypeOK, ThreadsOK, server, sitesNow

\* The lookup, the certificate and the registration.
LEMMA SerialRounds ==
    ASSUME TypeOK, Removing, NEW t \in Threads,
           DNSRound(t) \/ TLSRound(t) \/ DomainRound(t)
    PROVE  TypeOK' /\ Removing' /\ DOMAIN state \subseteq DOMAIN state'
<1>1. th[t].jobs # <<>> /\ UNCHANGED <<server, fault, boot, file, stopping, faults>>
    BY DEF DNSRound, TLSRound, DomainRound, Doing
<1>2. CASE DNSRound(t)
    <2>1. PICK id \in DOMAIN th[t].list, h \in DnsAnswers :
              /\ state' = Put(state, id, applyDNS(ensure(id, th[t].list[id]), h))
              /\ NextSite(t, id)
        BY <1>2 DEF DNSRound, MayAnswer
    <2> DEFINE s == applyDNS(ensure(id, th[t].list[id]), h)
    <2>2. ensure(id, th[t].list[id]) \in Records => s \in Records
        BY DnsTyped
    <2> HIDE DEF s
    <2> QED BY <1>1, <2>1, <2>2, SerialFolds DEF s
<1>3. CASE TLSRound(t)
    <2>1. PICK id \in DOMAIN th[t].list, c \in CertAnswers :
              /\ state' = Put(state, id, applyTLS(ensure(id, th[t].list[id]), c))
              /\ NextSite(t, id)
        BY <1>3 DEF TLSRound, MayAnswer
    <2> DEFINE s == applyTLS(ensure(id, th[t].list[id]), c)
    <2>2. ensure(id, th[t].list[id]) \in Records => s \in Records
        BY CertTyped
    <2> HIDE DEF s
    <2> QED BY <1>1, <2>1, <2>2, SerialFolds DEF s
<1>4. CASE DomainRound(t)
    <2>1. PICK id \in DOMAIN th[t].list, d \in DomainAnswers :
              /\ state' = Put(state, id, applyDomain(ensure(id, th[t].list[id]), d))
              /\ NextSite(t, id)
        BY <1>4 DEF DomainRound, MayAnswer
    <2> DEFINE s == applyDomain(ensure(id, th[t].list[id]), d)
    <2>2. ensure(id, th[t].list[id]) \in Records => s \in Records
        BY DomainTyped
    <2> HIDE DEF s
    <2> QED BY <1>1, <2>1, <2>2, SerialFolds DEF s
<1> QED BY <1>2, <1>3, <1>4

----------------------------------------------------------------------------
(* Saving and forgetting. *)

\* A save reads the ids, copies the records and writes the file, each in a step
\* that drops no record.
LEMMA SaveKeeps ==
    ASSUME TypeOK, Removing, NEW t \in Threads,
           saveKnown(t) \/ saveCopy(t) \/ saveWrite(t)
    PROVE  TypeOK' /\ Removing' /\ UNCHANGED <<server, state>>
<1>1. th[t].jobs # <<>> /\ UNCHANGED <<server, state, fault, boot, stopping>>
    BY DEF saveKnown, saveCopy, saveWrite, Doing, memory
<1>2. CASE saveKnown(t)
    <2> DEFINE r == [th[t] EXCEPT !.at = "copy", !.known = DOMAIN store]
    <2>1. th' = [th EXCEPT ![t] = r] /\ UNCHANGED <<file, faults>>
        BY <1>2 DEF saveKnown
    <2>2. IsThread(r) /\ r.jobs = th[t].jobs /\ r.id = th[t].id /\ r.held = th[t].held
        <3>1. DOMAIN store \subseteq Sites
            BY DEF TypeOK, IsMap
        <3> QED BY <3>1, ThreadHas DEF IsThread
    <2>3. Gone(r, used, Steady)
        <3> HIDE DEF r
        <3> QED BY <2>2, ThreadHas, SameJobs
    <2> HIDE DEF r
    <2>4. ThreadsOK' /\ Removing'
        BY <1>1, <2>1, <2>2, <2>3, OneThread DEF server, sitesNow, Steady
    <2> QED BY <1>1, <2>1, <2>4 DEF TypeOK, ThreadsOK, server, sitesNow
<1>3. CASE saveCopy(t)
    <2> DEFINE doc == [sites |-> Within(state, th[t].known), fault |-> fault]
               r == [th[t] EXCEPT !.at = "write", !.known = {}, !.doc = doc]
    <2>1. th' = [th EXCEPT ![t] = r] /\ UNCHANGED <<file, faults>>
        BY <1>3 DEF saveCopy
    <2>2. IsDoc(doc)
        <3>1. IsMap(Within(state, th[t].known), Records)
            BY Dropping DEF TypeOK
        <3> QED BY <3>1 DEF IsDoc, TypeOK
    <2>3. IsThread(r) /\ r.jobs = th[t].jobs /\ r.id = th[t].id /\ r.held = th[t].held
        <3> HIDE DEF doc
        <3> QED BY <2>2, ThreadHas DEF IsThread
    <2>4. Gone(r, used, Steady)
        <3> HIDE DEF r
        <3> QED BY <2>3, ThreadHas, SameJobs
    <2> HIDE DEF r
    <2>5. ThreadsOK' /\ Removing'
        BY <1>1, <2>1, <2>3, <2>4, OneThread DEF server, sitesNow, Steady
    <2> QED BY <1>1, <2>1, <2>5 DEF TypeOK, ThreadsOK, server, sitesNow
<1>4. CASE saveWrite(t)
    <2>1. th' = [th EXCEPT ![t] = Done(t)] /\ file' \in {file, th[t].doc}
        BY <1>4 DEF saveWrite
    <2>2. faults' \in 0..MaxFaults
        <3>1. MaxFaults \in Nat
            BY MonitorAssumption
        <3> QED BY <1>4, <3>1 DEF saveWrite, TypeOK
    <2>3. IsDoc(file')
        BY <2>1, ThreadHas DEF TypeOK
    <2>4. ThreadsOK' /\ Removing'
        BY <1>1, <2>1, ThreadHas, OneThread DEF server, sitesNow, Steady
    <2> QED BY <1>1, <2>2, <2>3, <2>4 DEF TypeOK, ThreadsOK, server, sitesNow
<1> QED BY <1>1, <1>2, <1>3, <1>4

\* A removal drops one record, of a site that is no longer watched.
LEMMA ForgetDrops ==
    ASSUME TypeOK, Removing, NEW t \in Threads, Forget(t)
    PROVE  /\ TypeOK' /\ Removing' /\ UNCHANGED server
           /\ DOMAIN state \ DOMAIN state' \subseteq {th[t].id} \ Steady
<1>1. /\ th[t].jobs # <<>> /\ Head(th[t].jobs) = "forget"
      /\ state' = Without(state, {th[t].id})
      /\ th' = [th EXCEPT ![t] = [Done(t) EXCEPT !.id = None]]
      /\ UNCHANGED <<server, fault, boot, file, stopping, faults>>
    BY DEF Forget, Doing
<1>2. th[t].id \in used \ Steady
    <2>1. th[t].jobs[1] = "forget"
        BY <1>1, ThreadHas
    <2> QED BY <1>1, <2>1, ThreadHas DEF Gone
<1>3. IsMap(state', Records) /\ DOMAIN state' = DOMAIN state \ {th[t].id}
    <2>1. /\ IsMap(Without(state, {th[t].id}), Records)
          /\ DOMAIN Without(state, {th[t].id}) = DOMAIN state \ {th[t].id}
        BY DEF TypeOK, IsMap, Without
    <2> QED BY <1>1, <2>1
<1> DEFINE r == [Done(t) EXCEPT !.id = None]
<1>4. IsThread(r) /\ Gone(r, used, Steady)
    <2>1. IsThread(Done(t)) /\ Gone(Done(t), used, Steady)
        BY <1>1, ThreadHas
    <2>2. IsThread(r) /\ r.jobs = Done(t).jobs /\ r.held = Done(t).held
        BY <2>1 DEF IsThread
    <2>3. \A i \in 1..Len(r.jobs) : r.jobs[i] # "forget"
        <3>1. r.jobs = Tail(th[t].jobs)
            BY <1>1, <2>2, ThreadHas
        <3>2. th[t].jobs \in Seq(Jobs) /\ \A i \in 2..Len(th[t].jobs) : th[t].jobs[i] # "forget"
            BY ThreadHas DEF Gone
        <3> DEFINE jobs == th[t].jobs
        <3>3. \A i \in 1..Len(Tail(jobs)) : Tail(jobs)[i] # "forget"
            <4> HIDE DEF r
            <4>1. jobs # <<>> /\ jobs \in Seq(Jobs) /\ \A i \in 2..Len(jobs) : jobs[i] # "forget"
                BY <1>1, <3>2
            <4> HIDE DEF jobs
            <4>2. /\ Len(Tail(jobs)) = Len(jobs) - 1 /\ Len(jobs) \in Nat
                  /\ \A i \in 1..Len(Tail(jobs)) : Tail(jobs)[i] = jobs[i + 1]
                BY <4>1
            <4> QED BY <4>1, <4>2
        <3> HIDE DEF r
        <3> QED BY <3>1, <3>3
    <2>4. r.jobs \in Seq(Jobs)
        BY <2>2 DEF IsThread, Jobs
    <2> HIDE DEF r
    <2> QED BY <2>1, <2>2, <2>3, <2>4 DEF Gone
<1> HIDE DEF r
<1>5. ThreadsOK' /\ Removing'
    BY <1>1, <1>4, OneThread DEF server, sitesNow, Steady, r
<1>6. DOMAIN state \ DOMAIN state' \subseteq {th[t].id} \ Steady
    BY <1>2, <1>3
<1> QED BY <1>1, <1>3, <1>5, <1>6 DEF TypeOK, ThreadsOK, server, sitesNow

\* A reload puts what it read in the place of the store: sites that were handed
\* out, and of those that had been removed it remembers that it did.
LEMMA SwapKeeps ==
    ASSUME TypeOK, Removing, NEW t \in Threads, Swap(t)
    PROVE  TypeOK' /\ Removing' /\ UNCHANGED state
<1>1. /\ th[t].jobs # <<>>
      /\ store' = th[t].held.sites /\ monitoring' = th[t].held.on
      /\ restored' = DOMAIN store' \ (DOMAIN store \ restored)
      /\ th' = [th EXCEPT ![t] = Done(t)]
      /\ UNCHANGED <<saved, used, requests, state, fault, boot, file, stopping, faults>>
    BY DEF Swap, Doing, memory
<1>2. IsMap(store', Configs) /\ monitoring' \in BOOLEAN /\ DOMAIN store' \subseteq used
    BY <1>1, ThreadHas DEF IsSites
<1>3. Steady' \subseteq Steady /\ restored' \subseteq DOMAIN store'
    BY <1>1 DEF Steady
<1>4. IsThread(Done(t)) /\ Gone(Done(t), used', Steady')
    <2>1. Gone(Done(t), used, Steady) /\ IsThread(Done(t)) /\ Done(t).jobs = Tail(th[t].jobs)
        BY <1>1, ThreadHas
    <2>2. used' = used
        BY <1>1
    <2> QED BY <1>3, <2>1, <2>2 DEF Gone
<1>5. ThreadsOK' /\ Removing'
    BY <1>1, <1>3, <1>4, OneThread
<1> QED BY <1>1, <1>2, <1>3, <1>5 DEF TypeOK, ThreadsOK

\* Whatever a thread does, the invariant holds on and only a removal drops a
\* record, of its site, which is gone unless a reload put it back.
LEMMA StepKeeps ==
    ASSUME TypeOK, Removing, NEW t \in Threads, Step(t)
    PROVE  /\ TypeOK' /\ Removing'
           /\ \A id \in DOMAIN state \ DOMAIN state' :
                  Forget(t) /\ th[t].id = id /\ id \notin Steady
<1>1. CASE \E job \in Tiers : BeginRound(t, job)
    BY <1>1, RoundBegins
<1>2. CASE ReachRound(t)
    BY <1>2, ReachFolds
<1>3. CASE DNSRound(t) \/ TLSRound(t) \/ DomainRound(t)
    BY <1>3, SerialRounds
<1>4. CASE saveKnown(t) \/ saveCopy(t) \/ saveWrite(t)
    BY <1>4, SaveKeeps
<1>5. CASE Forget(t)
    BY <1>5, ForgetDrops
<1>6. CASE Swap(t)
    BY <1>6, SwapKeeps
<1> QED BY <1>1, <1>2, <1>3, <1>4, <1>5, <1>6 DEF Step

----------------------------------------------------------------------------
(* What starts the work. *)

\* Run takes a tier, or its last save; it does not act on the end of its context
\* before.
LEMMA RunKeeps ==
    ASSUME TypeOK, Removing, (\E tier \in Tiers : Tick(tier)) \/ Leave \/ Stop
    PROVE  TypeOK' /\ Removing' /\ UNCHANGED <<server, state>>
<1>1. Run \in Threads
    BY DEF Threads
<1>2. ASSUME NEW jobs \in Seq(Jobs), \A i \in 1..Len(jobs) : jobs[i] # "forget",
             th' = [th EXCEPT ![Run] = [Idle EXCEPT !.jobs = jobs, !.id = None]],
             UNCHANGED <<server, memory, file, stopping, faults>>
      PROVE  TypeOK' /\ Removing' /\ UNCHANGED <<server, state>>
    <2> DEFINE r == [Idle EXCEPT !.jobs = jobs, !.id = None]
    <2>1. IsThread(r) /\ r.jobs = jobs /\ DOMAIN r.held.sites = {}
        <3>1. None \in Sites \cup {None}
            OBVIOUS
        <3> QED BY <3>1, StartTyped
    <2>2. Gone(r, used, Steady)
        <3> HIDE DEF r
        <3>1. jobs # <<>> => 1 \in 1..Len(jobs)
            OBVIOUS
        <3> QED BY <1>2, <2>1, <3>1 DEF Gone
    <2>3. th' = [th EXCEPT ![Run] = r]
        BY <1>2
    <2> HIDE DEF r
    <2>4. ThreadsOK' /\ Removing'
        BY <1>1, <1>2, <2>1, <2>2, <2>3, OneThread DEF server, sitesNow, Steady
    <2> QED BY <1>2, <2>4 DEF TypeOK, ThreadsOK, server, sitesNow, memory
<1>3. CASE \E tier \in Tiers : Tick(tier)
    <2>1. PICK tier \in Tiers : Tick(tier)
        BY <1>3
    <2> DEFINE jobs == IF tier = "dns" THEN <<tier>> ELSE <<tier, "save">>
    <2>2. /\ th' = [th EXCEPT ![Run] = [Idle EXCEPT !.jobs = jobs, !.id = None]]
          /\ UNCHANGED <<server, memory, file, stopping, faults>>
        BY <2>1 DEF Tick, Start
    <2>3. jobs \in Seq(Jobs) /\ \A i \in 1..Len(jobs) : jobs[i] # "forget"
        <3>1. tier \in Jobs /\ "save" \in Jobs /\ tier # "forget"
            BY MonitorAssumption DEF Jobs
        <3>2. <<tier>> \in Seq(Jobs) /\ <<tier, "save">> \in Seq(Jobs)
            BY <3>1
        <3>3. CASE tier = "dns"
            BY <3>1, <3>2, <3>3
        <3>4. CASE tier # "dns"
            BY <3>1, <3>2, <3>4
        <3> QED BY <3>3, <3>4
    <2> HIDE DEF jobs
    <2> QED BY <1>2, <2>2, <2>3
<1>4. CASE Leave
    <2> DEFINE jobs == <<"save", "end">>
    <2>1. /\ th' = [th EXCEPT ![Run] = [Idle EXCEPT !.jobs = jobs, !.id = None]]
          /\ UNCHANGED <<server, memory, file, stopping, faults>>
        BY <1>4 DEF Leave, Start
    <2>2. jobs \in Seq(Jobs) /\ \A i \in 1..Len(jobs) : jobs[i] # "forget"
        BY DEF Jobs
    <2> HIDE DEF jobs
    <2> QED BY <1>2, <2>1, <2>2
<1>5. CASE Stop
    <2>1. /\ stopping' = TRUE /\ faults' = faults + 1 /\ faults < MaxFaults
          /\ UNCHANGED <<server, memory, file, th>>
        BY <1>5 DEF Stop
    <2>2. ThreadsOK' /\ Removing'
        BY <2>1, NoThread DEF server, sitesNow, Steady
    <2>3. faults' \in 0..MaxFaults
        BY <2>1, MonitorAssumption DEF TypeOK
    <2> QED BY <2>1, <2>2, <2>3 DEF TypeOK, ThreadsOK, server, sitesNow, memory
<1> QED BY <1>3, <1>4, <1>5

\* A worker that is given rounds or a removal.
LEMMA WorkerStarts ==
    ASSUME TypeOK, Removing, NEW w \in Workers, NEW jobs, NEW id \in Sites \cup {None},
           th' = Start(w, jobs, id), jobs \in Seq(Jobs),
           Gone([Idle EXCEPT !.jobs = jobs, !.id = id], used', Steady'),
           used \subseteq used', Steady' \cap used \subseteq Steady
    PROVE  ThreadsOK' /\ Removing'
<1> DEFINE r == [Idle EXCEPT !.jobs = jobs, !.id = id]
<1>1. w \in Threads /\ th' = [th EXCEPT ![w] = r]
    BY DEF Threads, Start
<1>2. IsThread(r)
    BY StartTyped
<1> HIDE DEF r
<1>3. Gone(r, used', Steady')
    BY DEF r
<1> QED BY <1>1, <1>2, <1>3, OneThread

\* A thread that is given the rounds of a refresh is calm.
LEMMA RefreshIsCalm ==
    ASSUME NEW ids, NEW kept
    PROVE  Gone([Idle EXCEPT !.jobs = AllTiers, !.id = None], ids, kept)
<1> DEFINE r == [Idle EXCEPT !.jobs = AllTiers, !.id = None]
<1>1. AllTiers \in Seq(Jobs) /\ None \in Sites \cup {None}
    BY AllTiersTyped, RoundsForgetNothing
<1>2. r.jobs = AllTiers /\ DOMAIN r.held.sites = {}
    BY <1>1, StartTyped
<1> HIDE DEF r
<1>3. Gone(r, ids, kept)
    BY <1>2, AllTiersTyped, RoundsAreCalm
<1> QED BY <1>3 DEF r

\* So is one that has read the sites for a reload first.
LEMMA ReloadReads ==
    ASSUME TypeOK, NEW r,
           r = [[Idle EXCEPT !.jobs = <<"swap">> \o AllTiers, !.id = None] EXCEPT !.held = saved],
           NEW kept
    PROVE  IsThread(r) /\ Gone(r, used, kept)
<1> DEFINE jobs == <<"swap">> \o AllTiers
           bare == [Idle EXCEPT !.jobs = jobs, !.id = None]
<1>1. /\ jobs \in Seq(Jobs) /\ jobs[1] = "swap"
      /\ \A i \in 2..Len(jobs) : jobs[i] # "forget"
    <2>1. AllTiers \in Seq(Rounds) /\ AllTiers \in Seq(Jobs)
        BY AllTiersTyped, RoundsForgetNothing
    <2> DEFINE tiers == AllTiers
    <2>2. \A i \in 1..Len(tiers) : tiers[i] # "forget"
        BY <2>1, RoundsForgetNothing
    <2>3. "swap" \in Jobs
        BY DEF Jobs
    <2> HIDE DEF tiers
    <2> QED BY <2>1, <2>2, <2>3 DEF tiers
<1>2. IsThread(bare) /\ bare.jobs = jobs
    <2>1. None \in Sites \cup {None}
        OBVIOUS
    <2> HIDE DEF jobs
    <2> QED BY <1>1, <2>1, StartTyped
<1>3. r = [bare EXCEPT !.held = saved]
    OBVIOUS
<1> HIDE DEF jobs, bare
<1>4. IsSites(saved) /\ DOMAIN saved.sites \subseteq used
    BY DEF TypeOK
<1>5. IsThread(r) /\ r.jobs = jobs /\ r.held = saved
    BY <1>2, <1>3, <1>4 DEF IsThread
<1> QED BY <1>1, <1>4, <1>5 DEF Gone

\* POST /api/refresh.
LEMMA RefreshKeeps ==
    ASSUME TypeOK, Removing, NEW w \in Workers, Refresh(w)
    PROVE  ThreadsOK' /\ Removing'
<1> DEFINE r == [[Idle EXCEPT !.jobs = <<"swap">> \o AllTiers, !.id = None] EXCEPT !.held = saved]
<1>1. /\ \/ th' = [Start(w, <<"swap">> \o AllTiers, None) EXCEPT ![w].held = saved]
         \/ th' = Start(w, AllTiers, None)
      /\ UNCHANGED sitesNow
    BY DEF Refresh
<1>2. Steady' = Steady /\ used' = used
    BY <1>1 DEF sitesNow, Steady
<1>3. CASE th' = Start(w, AllTiers, None)
    <2>1. AllTiers \in Seq(Jobs) /\ None \in Sites \cup {None}
        BY AllTiersTyped, RoundsForgetNothing
    <2> QED BY <1>2, <1>3, <2>1, RefreshIsCalm, WorkerStarts
<1>4. CASE th' = [Start(w, <<"swap">> \o AllTiers, None) EXCEPT ![w].held = saved]
    <2>1. w \in Threads /\ th = [t \in Threads |-> th[t]]
        BY DEF Threads, TypeOK
    <2>2. th' = [th EXCEPT ![w] = r]
        BY <1>4, <2>1 DEF Start
    <2>3. IsThread(r) /\ Gone(r, used', Steady')
        <3>1. IsThread(r) /\ Gone(r, used, Steady')
            BY ReloadReads
        <3> QED BY <1>2, <3>1
    <2> HIDE DEF r
    <2> QED BY <1>2, <2>1, <2>2, <2>3, OneThread
<1> QED BY <1>1, <1>3, <1>4

\* What a mutation saves is the store it leaves.
LEMMA SaveTyped ==
    ASSUME IsMap(store', Configs), monitoring' \in BOOLEAN, DOMAIN store' \subseteq used', Save
    PROVE  IsSites(saved') /\ DOMAIN saved'.sites \subseteq used'
    BY DEF Save, IsSites

\* A request leaves the records alone; it may change what is watched.
LEMMA RequestKeeps ==
    ASSUME TypeOK, Removing,
           \/ \E w \in Workers : Refresh(w) \/ AddSite(w) \/ RemoveSite(w)
           \/ EditSite
           \/ SetMonitoring
    PROVE  TypeOK' /\ Removing' /\ UNCHANGED state
<1>1. requests' \in 0..MaxRequests
    <2>1. requests < MaxRequests /\ requests' = requests + 1
        BY DEF Refresh, AddSite, RemoveSite, EditSite, SetMonitoring, Request
    <2> QED BY <2>1, MonitorAssumption DEF TypeOK
<1>2. UNCHANGED <<memory, file, stopping, faults>>
    BY DEF Refresh, AddSite, RemoveSite, EditSite, SetMonitoring
<1>3. ASSUME IsMap(store', Configs), monitoring' \in BOOLEAN, Save,
             restored' \subseteq DOMAIN store', DOMAIN store' \subseteq used', used' \subseteq Sites,
             ThreadsOK', Removing'
      PROVE  TypeOK' /\ Removing' /\ UNCHANGED state
    BY <1>1, <1>2, <1>3, SaveTyped DEF TypeOK, ThreadsOK, memory
<1>4. AllTiers \in Seq(Jobs) /\ None \in Sites \cup {None}
    BY AllTiersTyped, RoundsForgetNothing
<1>5. CASE \E w \in Workers : Refresh(w)
    <2>1. ThreadsOK' /\ Removing'
        BY <1>5, RefreshKeeps
    <2>2. UNCHANGED sitesNow
        BY <1>5 DEF Refresh
    <2> QED BY <1>1, <1>2, <2>1, <2>2 DEF TypeOK, ThreadsOK, memory, sitesNow
<1>6. CASE \E w \in Workers : AddSite(w)
    <2>1. PICK w \in Workers : AddSite(w)
        BY <1>6
    <2>2. PICK id \in Sites \ used, c \in Configs :
              /\ store' = Put(store, id, c)
              /\ used' = used \cup {id}
              /\ th' = Start(w, AllTiers, None) \/ th' = th
        BY <2>1 DEF AddSite
    <2>3. UNCHANGED <<monitoring, restored>> /\ Save
        BY <2>1 DEF AddSite
    <2>4. IsMap(Put(store, id, c), Configs) /\ DOMAIN Put(store, id, c) = DOMAIN store \cup {id}
        BY DEF TypeOK, IsMap, Put
    <2>5. IsMap(store', Configs) /\ DOMAIN store' = DOMAIN store \cup {id}
        BY <2>2, <2>4
    <2>6. /\ used' \subseteq Sites /\ DOMAIN store' \subseteq used' /\ used \subseteq used'
          /\ restored' \subseteq DOMAIN store'
        BY <2>2, <2>3, <2>5 DEF TypeOK
    <2>7. Steady' \cap used \subseteq Steady
        BY <2>2, <2>3, <2>5 DEF Steady
    <2>8. ThreadsOK' /\ Removing'
        BY <1>4, <2>2, <2>6, <2>7, RefreshIsCalm, WorkerStarts, NoThread
    <2> QED BY <1>3, <2>3, <2>5, <2>6, <2>8 DEF TypeOK
<1>7. CASE \E w \in Workers : RemoveSite(w)
    <2>1. PICK w \in Workers : RemoveSite(w)
        BY <1>7
    <2>2. PICK id \in DOMAIN store :
              /\ store' = Without(store, {id})
              /\ restored' = restored \ {id}
              /\ th' = Start(w, <<"forget", "save">>, id)
        BY <2>1 DEF RemoveSite
    <2>3. UNCHANGED <<monitoring, used>> /\ Save
        BY <2>1 DEF RemoveSite
    <2>4. IsMap(store', Configs) /\ DOMAIN store' = DOMAIN store \ {id}
        <3>1. /\ IsMap(Without(store, {id}), Configs)
              /\ DOMAIN Without(store, {id}) = DOMAIN store \ {id}
            BY Dropping DEF TypeOK
        <3> QED BY <2>2, <3>1
    <2>5. id \in Sites \cup {None} /\ id \in used \ Steady' /\ Steady' \subseteq Steady
        BY <2>2, <2>4 DEF TypeOK, Steady
    <2>6. <<"forget", "save">> \in Seq(Jobs)
        BY DEF Jobs
    <2>7. Gone([Idle EXCEPT !.jobs = <<"forget", "save">>, !.id = id], used', Steady')
        <3> DEFINE r == [Idle EXCEPT !.jobs = <<"forget", "save">>, !.id = id]
        <3>1. r.jobs = <<"forget", "save">> /\ r.id = id /\ DOMAIN r.held.sites = {}
            BY <2>5, <2>6, StartTyped
        <3> HIDE DEF r
        <3>2. Gone(r, used', Steady')
            BY <2>3, <2>5, <3>1 DEF Gone
        <3> QED BY <3>2 DEF r
    <2>8. ThreadsOK' /\ Removing'
        BY <2>2, <2>3, <2>5, <2>6, <2>7, WorkerStarts
    <2>9. DOMAIN store' \subseteq used' /\ used' \subseteq Sites /\ restored' \subseteq DOMAIN store'
        BY <2>2, <2>3, <2>4 DEF TypeOK
    <2> QED BY <1>3, <2>3, <2>4, <2>8, <2>9 DEF TypeOK
<1>8. CASE EditSite
    <2>1. PICK id \in DOMAIN store, c \in Configs : store' = [store EXCEPT ![id] = c]
        BY <1>8 DEF EditSite
    <2>2. UNCHANGED <<monitoring, restored, used, th>> /\ Save
        BY <1>8 DEF EditSite
    <2>3. IsMap(store', Configs) /\ DOMAIN store' = DOMAIN store
        BY <2>1 DEF TypeOK, IsMap
    <2>4. ThreadsOK' /\ Removing'
        BY <2>2, <2>3, NoThread DEF Steady
    <2> QED BY <1>3, <2>2, <2>3, <2>4 DEF TypeOK
<1>9. CASE SetMonitoring
    <2>1. monitoring' \in BOOLEAN /\ UNCHANGED <<store, restored, used, th>> /\ Save
        BY <1>9 DEF SetMonitoring
    <2>2. ThreadsOK' /\ Removing'
        BY <2>1, NoThread DEF Steady
    <2> QED BY <1>3, <2>1, <2>2 DEF TypeOK
<1> QED BY <1>5, <1>6, <1>7, <1>8, <1>9

----------------------------------------------------------------------------
(* A restart. *)

\* The threads of a daemon that has just started are calm.
LEMMA FreshIsCalm ==
    \A ids, gone : Gone(Idle, ids, gone) /\ Gone([Idle EXCEPT !.jobs = AllTiers], ids, gone)
<1>1. Idle.jobs = <<>> /\ Idle.held = NoSites /\ <<>> \in Seq(Rounds)
    BY DEF Idle
<1> DEFINE first == [Idle EXCEPT !.jobs = AllTiers]
<1>2. first.jobs = AllTiers /\ first.held = NoSites
    BY DEF Idle
<1> HIDE DEF first
<1>3. \A ids, gone : Gone(Idle, ids, gone)
    BY <1>1, NothingTyped, RoundsAreCalm
<1>4. \A ids, gone : Gone(first, ids, gone)
    BY <1>2, NothingTyped, AllTiersTyped, RoundsAreCalm
<1> QED BY <1>3, <1>4 DEF first

\* The daemon starts again from the two files, with the records of the sites that
\* are still watched, and with no work under way.
LEMMA RestartKeeps ==
    ASSUME TypeOK, Removing, Crash \/ StopAndStart
    PROVE  /\ TypeOK' /\ Removing'
           /\ DOMAIN state' = DOMAIN file.sites \cap DOMAIN store'
<1> DEFINE kept == Within(file.sites, DOMAIN saved.sites)
<1>1. PICK spent \in {0, 1} : Restart(spent)
    BY DEF Crash, StopAndStart
<1>2. PICK lost \in {0, 1} :
          /\ faults + spent + lost <= MaxFaults
          /\ faults' = faults + spent + lost
          /\ file' = IF lost = 1 THEN file ELSE [file EXCEPT !.sites = kept]
    BY <1>1 DEF Restart
<1>3. /\ state' = kept /\ fault' = file.fault /\ boot' = FALSE /\ stopping' = FALSE
      /\ th' = [t \in Threads |-> IF t = Run THEN [Idle EXCEPT !.jobs = AllTiers] ELSE Idle]
      /\ store' = saved.sites /\ monitoring' = saved.on /\ restored' = {}
      /\ UNCHANGED <<saved, used, requests>>
    BY <1>1 DEF Restart
<1>4. IsDoc(file) /\ IsMap(file.sites, Records) /\ file.fault \in Fault
    BY DEF TypeOK, IsDoc
<1>5. IsMap(kept, Records) /\ DOMAIN kept = DOMAIN file.sites \cap DOMAIN saved.sites
    BY <1>4 DEF IsMap, Within
<1>6. IsDoc(file')
    <2> HIDE DEF kept
    <2>1. CASE lost = 1
        BY <1>2, <1>4, <2>1
    <2>2. CASE lost # 1
        <3>1. file' = [file EXCEPT !.sites = kept]
            BY <1>2, <2>2
        <3> QED BY <1>4, <1>5, <3>1 DEF IsDoc
    <2> QED BY <2>1, <2>2
<1>7. faults' \in 0..MaxFaults
    BY <1>2, MonitorAssumption DEF TypeOK
<1>8. IsThread(Idle) /\ IsThread([Idle EXCEPT !.jobs = AllTiers])
    <2>1. AllTiers \in Seq(Jobs) /\ <<>> \in Seq(Jobs)
        BY AllTiersTyped, RoundsForgetNothing
    <2> DEFINE first == [Idle EXCEPT !.jobs = AllTiers]
    <2>2. Idle \in [jobs : {<<>>}, at : {"begin"}, list : {<<>>}, id : {None},
                    held : {NoSites}, known : {{}}, doc : {NoDoc}]
        BY DEF Idle
    <2>3. first \in [jobs : {AllTiers}, at : {"begin"}, list : {<<>>}, id : {None},
                     held : {NoSites}, known : {{}}, doc : {NoDoc}]
        BY DEF Idle
    <2> HIDE DEF first
    <2>4. IsThread(Idle)
        BY <2>1, <2>2, NothingTyped DEF IsThread, Jobs
    <2>5. IsThread(first)
        BY <2>1, <2>3, NothingTyped DEF IsThread, Jobs
    <2> QED BY <2>4, <2>5 DEF first
<1>9. \A ids, gone : Gone(Idle, ids, gone) /\ Gone([Idle EXCEPT !.jobs = AllTiers], ids, gone)
    BY FreshIsCalm
<1>10. ThreadsOK'
    <2>1. th' = [t \in Threads |-> th'[t]]
        BY <1>3
    <2>2. \A t \in Threads : IsThread(th'[t])
        BY <1>3, <1>8
    <2> QED BY <2>1, <2>2 DEF ThreadsOK
<1>11. Removing'
    <2>1. \A t \in Threads : Gone(th'[t], used', Steady')
        BY <1>3, <1>9
    <2> QED BY <2>1 DEF Removing
<1> HIDE DEF kept
<1>12. IsMap(store', Configs) /\ monitoring' \in BOOLEAN
    BY <1>3 DEF TypeOK, IsSites
<1> QED BY <1>3, <1>4, <1>5, <1>6, <1>7, <1>10, <1>11, <1>12 DEF TypeOK, ThreadsOK

----------------------------------------------------------------------------
(* The invariant. *)

\* A daemon that has just started for the first time knows nothing.
LEMMA InitIInv == Init => IInv
<1> SUFFICES ASSUME Init PROVE IInv
    OBVIOUS
<1>1. th = [t \in Threads |-> IF t = Run THEN [Idle EXCEPT !.jobs = AllTiers] ELSE Idle]
    BY DEF Init
<1>2. AllTiers \in Seq(Jobs) /\ <<>> \in Seq(Jobs) /\ <<>> \in Seq(Rounds)
    BY AllTiersTyped, RoundsForgetNothing
<1> DEFINE first == [Idle EXCEPT !.jobs = AllTiers]
<1>3. Idle \in [jobs : {<<>>}, at : {"begin"}, list : {<<>>}, id : {None},
                held : {NoSites}, known : {{}}, doc : {NoDoc}]
    BY DEF Idle
<1>4. first \in [jobs : {AllTiers}, at : {"begin"}, list : {<<>>}, id : {None},
                 held : {NoSites}, known : {{}}, doc : {NoDoc}]
    BY DEF Idle
<1> HIDE DEF first
<1>5. IsThread(Idle) /\ IsThread(first)
    BY <1>2, <1>3, <1>4, NothingTyped DEF IsThread, Jobs
<1>6. Gone(Idle, used, Steady) /\ Gone(first, used, Steady)
    BY FreshIsCalm DEF first
<1>7. \A t \in Threads : th[t] \in {Idle, first}
    BY <1>1 DEF first
<1>8. ThreadsOK
    BY <1>1, <1>5, <1>7 DEF ThreadsOK
<1>9. Removing
    BY <1>6, <1>7 DEF Removing
<1>10. TypeOK
    <2>1. /\ IsMap(store, Configs) /\ used \subseteq Sites
          /\ DOMAIN store \cup DOMAIN saved.sites \subseteq used
          /\ IsSites(saved)
        BY MonitorAssumption DEF Init, IsMap, IsSites
    <2>2. 0 \in 0..MaxRequests /\ 0 \in 0..MaxFaults
        BY MonitorAssumption
    <2> QED BY <1>8, <2>1, <2>2, NothingTyped DEF Init, TypeOK, ThreadsOK
<1> QED BY <1>9, <1>10 DEF IInv

\* Every step of every thread and of the world keeps the invariant.
LEMMA NextIInv == IInv /\ [Next]_vars => IInv'
<1> SUFFICES ASSUME TypeOK, Removing, [Next]_vars PROVE TypeOK' /\ Removing'
    BY DEF IInv
<1>1. CASE \E t \in Threads : Step(t)
    BY <1>1, StepKeeps
<1>2. CASE (\E tier \in Tiers : Tick(tier)) \/ Leave \/ Stop
    BY <1>2, RunKeeps
<1>3. CASE \/ \E w \in Workers : Refresh(w) \/ AddSite(w) \/ RemoveSite(w)
           \/ EditSite
           \/ SetMonitoring
    BY <1>3, RequestKeeps
<1>4. CASE Crash \/ StopAndStart
    BY <1>4, RestartKeeps
<1>5. CASE UNCHANGED vars
    BY <1>5 DEF vars, sitesNow, TypeOK, Removing, Steady, IsSites, IsDoc, IsMap, IsThread, Gone
<1> QED BY <1>1, <1>2, <1>3, <1>4, <1>5 DEF Next

\* The inductive invariant holds in every state the daemon reaches.
LEMMA SpecIInv == Spec => []IInv
    BY InitIInv, NextIInv, PTL DEF Spec

\* However rounds, refreshes, removals, saves and restarts interleave, the
\* records, the file and what every thread holds of them keep their types: a
\* local fault has the time it began at, in memory, on disk and in between.
THEOREM MonitorTypes == Spec => []TypeOK
    BY SpecIInv, PTL DEF IInv

\* No round, reload or prune drops the record of a site that is watched, a restart
\* only one that no save had put in the file, and a removal only the record of its
\* own site, when a reload put that back in between.
THEOREM MonitorForgets == Spec => WatchedNotForgotten
<1> DEFINE Kept == \A id \in DOMAIN store \cap DOMAIN store' :
                       id \in DOMAIN state \ DOMAIN state' =>
                           \/ (Crash \/ StopAndStart) /\ id \notin DOMAIN file.sites
                           \/ id \in restored /\ \E t \in Threads : Forget(t) /\ th[t].id = id
<1>1. IInv /\ [Next]_vars => [Kept]_vars
    <2> SUFFICES ASSUME TypeOK, Removing, Next PROVE Kept
        BY DEF IInv
    <2>1. CASE \E t \in Threads : Step(t)
        BY <2>1, StepKeeps DEF Steady
    <2>2. CASE (\E tier \in Tiers : Tick(tier)) \/ Leave \/ Stop
        BY <2>2, RunKeeps
    <2>3. CASE \/ \E w \in Workers : Refresh(w) \/ AddSite(w) \/ RemoveSite(w)
               \/ EditSite
               \/ SetMonitoring
        BY <2>3, RequestKeeps
    <2>4. CASE Crash \/ StopAndStart
        BY <2>4, RestartKeeps
    <2> QED BY <2>1, <2>2, <2>3, <2>4 DEF Next
<1> QED BY <1>1, SpecIInv, PTL DEF Spec, WatchedNotForgotten
=============================================================================
