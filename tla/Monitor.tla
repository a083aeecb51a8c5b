------------------------------- MODULE Monitor -------------------------------
(***************************************************************************)
(* The monitor (monitor/monitor.go, and save and load of monitor/state.go) *)
(* with the goroutines that share it: Run, which answers the four tickers, *)
(* and the workers, which are the goroutines a request starts -- a Refresh *)
(* for POST /api/refresh or a site added over the API, and the handler of  *)
(* a removal, which calls Forget.  Nothing orders them but the monitor's   *)
(* RWMutex and the server's, so every step below is one critical section.  *)
(*                                                                         *)
(* The site store is the server's (see SiteStore).  A mutation and its     *)
(* save are one step here, which succeeds, as mutate holds the lock over   *)
(* both, and nothing else writes sites.json: a command's edits are         *)
(* SiteStore's.  A reload reads the file in one step and puts what it read *)
(* in place in a later one, over whatever was changed in between.          *)
(*                                                                         *)
(* Probes touch no shared state, so an answer is chosen in the step that   *)
(* folds it in.  One instant, Now, stands for every time the monitor       *)
(* stamps.                                                                 *)
(***************************************************************************)
EXTENDS SiteState, Sequences, FiniteSets, SequencesExt

CONSTANTS
    Sites,          \* site ids; one is never minted twice
    Configs,        \* what a site can be configured as, see SiteConfig
    InitStore,      \* the sites of sites.json at first start
    Workers,        \* goroutines requests run on
    Tiers,          \* the tiers, all four or those an instance is about
    ReachAnswers,   \* what a probe can answer, per tier
    DnsAnswers,
    CertAnswers,
    DomainAnswers,
    MaxRequests,    \* requests the server gets
    MaxFaults       \* crashes, stops and failed writes of state.json

Run == "Run"
Threads == {Run} \cup Workers
Now == 1
None == "none"

\* Partial functions from Sites.
IsMap(f, S) == DOMAIN f \subseteq Sites /\ f \in [DOMAIN f -> S]

Urls == {c.url : c \in Configs}

\* The fields of sites.Site the tiers read; tls and domain are TLSWanted and
\* DomainWanted, expect whether a text is expected.
SiteConfig == [url : Urls, on : BOOLEAN, expect : BOOLEAN,
               tls : BOOLEAN, domain : BOOLEAN]

Addrs == UNION {h.addrs : h \in DnsAnswers}
Servers == UNION {h.ns : h \in DnsAnswers}
Times == {NoTime, Now} \cup {c.notAfter : c \in CertAnswers}
                       \cup {d.expires : d \in DomainAnswers}

ASSUME MonitorAssumption ==
    /\ Configs \subseteq SiteConfig
    /\ IsMap(InitStore, Configs)
    /\ Tiers \subseteq {"reach", "dns", "tls", "domain"}
    /\ ReachAnswers \subseteq ReachAnswer
    /\ DnsAnswers \subseteq DnsAnswer(Addrs, Servers)
    /\ CertAnswers \subseteq CertAnswer(Times)
    /\ DomainAnswers \subseteq DomainAnswer(Times)
    /\ Run \notin Workers
    /\ {MaxRequests, MaxFaults} \subseteq Nat

VARIABLES
    store,       \* the sites of the server's store: id -> config
    monitoring,  \* Store.Monitoring
    saved,       \* sites.json: [sites, on]
    restored,    \* ids of the store a reload put back after their removal
    used,        \* ids ever minted
    state,       \* Monitor.state: id -> SiteState
    fault,       \* Monitor.round: [localFault, faultSince]
    boot,        \* whether Monitor.boot is cached
    file,        \* state.json: [sites, fault]
    th,          \* the threads
    stopping,    \* the context of Run is done
    requests,    \* requests so far
    faults       \* faults so far

vars == <<store, monitoring, saved, restored, used, state, fault, boot, file, th,
          stopping, requests, faults>>
sitesNow == <<store, monitoring, saved, restored, used>>
server == <<sitesNow, requests>>
memory == <<state, fault, boot>>

\* A fault has a time it began at, which "was_out_for" counts from.
Fault == {f \in [localFault : BOOLEAN, faultSince : {NoTime, Now}] :
             f.localFault <=> f.faultSince # NoTime}
NoFault == [localFault |-> FALSE, faultSince |-> NoTime]

Without(f, ids) == [id \in DOMAIN f \ ids |-> f[id]]
Within(f, ids) == [id \in DOMAIN f \cap ids |-> f[id]]
Put(f, id, v) == [x \in DOMAIN f \cup {id} |-> IF x = id THEN v ELSE f[x]]

----------------------------------------------------------------------------
(* A thread runs a sequence of jobs.  at is where it stands in the first   *)
(* one, list the sites of the round still to be folded in as they were     *)
(* when the round began, id the site to forget, held what a reload has     *)
(* read, known the ids save read, doc what it is about to write.           *)

Only(tier) == IF tier \in Tiers THEN <<tier>> ELSE <<>>
AllTiers == Only("reach") \o Only("dns") \o Only("tls") \o Only("domain") \o <<"save">>
NoDoc == [sites |-> <<>>, fault |-> NoFault]
NoSites == [sites |-> <<>>, on |-> TRUE]

Idle == [jobs |-> <<>>, at |-> "begin", list |-> <<>>, id |-> None, held |-> NoSites,
         known |-> {}, doc |-> NoDoc]

Doing(t, job, at) == th[t].jobs # <<>> /\ Head(th[t].jobs) = job /\ th[t].at = at

\* The thread t after its first job.
Done(t) == [Idle EXCEPT !.jobs = Tail(th[t].jobs), !.id = th[t].id]

Start(t, jobs, id) == [th EXCEPT ![t] = [Idle EXCEPT !.jobs = jobs, !.id = id]]

Records == SiteStates(Urls, Addrs, Servers, Times)

IsSites(f) == f \in [sites : {f.sites}, on : BOOLEAN] /\ IsMap(f.sites, Configs)

IsDoc(d) == d \in [sites : {d.sites}, fault : Fault] /\ IsMap(d.sites, Records)

IsThread(r) ==
    /\ r \in [jobs : Seq(Tiers \cup {"save", "forget", "swap", "end"}),
              at : {"begin", "probe", "copy", "write"},
              list : {r.list}, id : Sites \cup {None}, held : {r.held},
              known : SUBSET Sites, doc : {r.doc}]
    /\ IsMap(r.list, Configs)
    /\ IsSites(r.held)
    /\ IsDoc(r.doc)

TypeOK ==
    /\ IsMap(store, Configs)
    /\ monitoring \in BOOLEAN
    /\ IsSites(saved)
    /\ restored \subseteq DOMAIN store
    /\ used \subseteq Sites
    /\ DOMAIN store \cup DOMAIN saved.sites \subseteq used
    /\ IsMap(state, Records)
    /\ fault \in Fault
    /\ boot \in BOOLEAN
    /\ IsDoc(file)
    /\ th = [t \in Threads |-> th[t]] /\ \A t \in Threads : IsThread(th[t])
    /\ stopping \in BOOLEAN
    /\ requests \in 0..MaxRequests
    /\ faults \in 0..MaxFaults

Init ==
    /\ store = InitStore
    /\ monitoring = TRUE
    /\ saved = [sites |-> InitStore, on |-> TRUE]
    /\ restored = {}
    /\ used = DOMAIN InitStore
    /\ state = <<>>
    /\ fault = NoFault
    /\ boot = FALSE
    /\ file = NoDoc
    /\ th = [t \in Threads |-> IF t = Run THEN [Idle EXCEPT !.jobs = AllTiers] ELSE Idle]
    /\ stopping = FALSE
    /\ requests = 0
    /\ faults = 0

----------------------------------------------------------------------------
(* The rounds. *)

\* The sites to probe.  Empty means make no network request.
active ==
    IF ~monitoring THEN <<>> ELSE Within(store, {id \in DOMAIN store : store[id].on})

Wanted(job, c) == (job = "tls" => c.tls) /\ (job = "domain" => c.domain)

\* A round takes its copy of the sites, and DomainRound the bootstrap map if it
\* has none yet; without one it gives up.
BeginRound(t, job) ==
    /\ Doing(t, job, "begin")
    /\ LET list == Within(active, {id \in DOMAIN active : Wanted(job, active[id])})
       IN  \E fetched \in IF job = "domain" /\ ~boot /\ ~stopping THEN BOOLEAN
                          ELSE {boot} :
             /\ boot' = IF job = "domain" /\ DOMAIN active # {} THEN fetched ELSE boot
             /\ th' = [th EXCEPT ![t] =
                         IF DOMAIN list = {} \/ (job = "domain" /\ ~boot')
                         THEN Done(t) ELSE [@ EXCEPT !.at = "probe", !.list = list]]
    /\ UNCHANGED <<server, state, fault, file, stopping, faults>>

\* Variant: the address is only set when the record is made.
ensureOnce(id, c) == IF id \in DOMAIN state THEN state[id] ELSE NewSite(c.url)

\* ensure: the record of a site, made on first sight, under its current address
\* as the round knows it.
ensure(id, c) ==
    [(IF id \in DOMAIN state THEN state[id] ELSE NewSite(c.url)) EXCEPT !.url = c.url]

\* A probe Run makes once its context is done fails in the client.
MayAnswer(t, answers, cancelled(_)) ==
    IF t = Run /\ stopping THEN {a \in answers : cancelled(a)} ELSE answers

\* Variant: the clock of a fault outlives it.
FaultAfterKeepsSince(cut) ==
    [localFault |-> cut,
     faultSince |-> IF cut /\ ~fault.localFault THEN Now ELSE fault.faultSince]

\* A fault keeps the time it began at.
FaultAfter(cut) ==
    IF ~cut THEN NoFault
    ELSE [localFault |-> TRUE,
          faultSince |-> IF fault.localFault THEN fault.faultSince ELSE Now]

\* Variant: the records are made anew from the sites of the round.
ReachedOnly(list, r) ==
    [id \in DOMAIN list |-> applyReach(ensure(id, list[id]), r[id], list[id].expect, Now)]

\* The records with the answers of a round folded in.
Reached(list, r) ==
    [id \in DOMAIN state \cup DOMAIN list |->
        IF id \in DOMAIN list
        THEN applyReach(ensure(id, list[id]), r[id], list[id].expect, Now)
        ELSE state[id]]

\* ReachRound: all answers at once.  A local fault is recorded and the answers
\* dropped.
ReachRound(t) ==
    /\ Doing(t, "reach", "probe")
    /\ LET list    == th[t].list
           answers == MayAnswer(t, ReachAnswers, LAMBDA a : Transport(a.err))
       IN  \E linkUp \in BOOLEAN, r \in [DOMAIN list -> answers] :
             /\ fault' = FaultAfter(LocalFaultOf(linkUp, r))
             /\ state' = IF LocalFaultOf(linkUp, r) THEN state ELSE Reached(list, r)
    /\ th' = [th EXCEPT ![t] = Done(t)]
    /\ UNCHANGED <<server, boot, file, stopping, faults>>

\* Variant: the round starts over as long as there are sites.
NextSiteAgain(t, id) ==
    th' = [th EXCEPT ![t] = IF DOMAIN th[t].list \subseteq DOMAIN store THEN @ ELSE Done(t)]

\* The serial tiers fold one site in at a time.
NextSite(t, id) ==
    LET rest == Without(th[t].list, {id})
    IN  th' = [th EXCEPT ![t] = IF DOMAIN rest = {} THEN Done(t) ELSE [@ EXCEPT !.list = rest]]

DNSRound(t) ==
    /\ Doing(t, "dns", "probe")
    /\ \E id \in DOMAIN th[t].list, h \in MayAnswer(t, DnsAnswers, LAMBDA a : a.err) :
         /\ state' = Put(state, id, applyDNS(ensure(id, th[t].list[id]), h))
         /\ NextSite(t, id)
    /\ UNCHANGED <<server, fault, boot, file, stopping, faults>>

TLSRound(t) ==
    /\ Doing(t, "tls", "probe")
    /\ \E id \in DOMAIN th[t].list, c \in MayAnswer(t, CertAnswers, LAMBDA a : a.err) :
         /\ state' = Put(state, id, applyTLS(ensure(id, th[t].list[id]), c))
         /\ NextSite(t, id)
    /\ UNCHANGED <<server, fault, boot, file, stopping, faults>>

DomainRound(t) ==
    /\ Doing(t, "domain", "probe")
    /\ \E id \in DOMAIN th[t].list, d \in MayAnswer(t, DomainAnswers, LAMBDA a : a.err) :
         /\ state' = Put(state, id, applyDomain(ensure(id, th[t].list[id]), d))
         /\ NextSite(t, id)
    /\ UNCHANGED <<server, fault, boot, file, stopping, faults>>

----------------------------------------------------------------------------
(* save, in its three steps: the ids the store has, a copy of the records  *)
(* filtered by them, the file.                                             *)

saveKnown(t) ==
    /\ Doing(t, "save", "begin")
    /\ th' = [th EXCEPT ![t].at = "copy", ![t].known = DOMAIN store]
    /\ UNCHANGED <<server, memory, file, stopping, faults>>

\* Variant: whatever the monitor holds is written.
saveCopyAll(t) ==
    /\ Doing(t, "save", "copy")
    /\ th' = [th EXCEPT ![t].at = "write", ![t].known = {},
                        ![t].doc = [sites |-> state, fault |-> fault]]
    /\ UNCHANGED <<server, memory, file, stopping, faults>>

saveCopy(t) ==
    /\ Doing(t, "save", "copy")
    /\ th' = [th EXCEPT ![t].at = "write", ![t].known = {},
                        ![t].doc = [sites |-> Within(state, th[t].known), fault |-> fault]]
    /\ UNCHANGED <<server, memory, file, stopping, faults>>

\* A failure is logged, not propagated.
saveWrite(t) ==
    /\ Doing(t, "save", "write")
    /\ \/ file' = th[t].doc /\ UNCHANGED faults
       \/ faults < MaxFaults /\ faults' = faults + 1 /\ UNCHANGED file
    /\ th' = [th EXCEPT ![t] = Done(t)]
    /\ UNCHANGED <<server, memory, stopping>>

Forget(t) ==
    /\ Doing(t, "forget", "begin")
    /\ state' = Without(state, {th[t].id})
    /\ th' = [th EXCEPT ![t] = [Done(t) EXCEPT !.id = None]]
    /\ UNCHANGED <<server, fault, boot, file, stopping, faults>>

\* The reload's second half: what it read becomes the store.
Swap(t) ==
    /\ Doing(t, "swap", "begin")
    /\ store' = th[t].held.sites
    /\ monitoring' = th[t].held.on
    /\ restored' = DOMAIN store' \ (DOMAIN store \ restored)
    /\ th' = [th EXCEPT ![t] = Done(t)]
    /\ UNCHANGED <<saved, used, requests, memory, file, stopping, faults>>

Step(t) ==
    \/ \E job \in Tiers : BeginRound(t, job)
    \/ ReachRound(t)
    \/ DNSRound(t)
    \/ TLSRound(t)
    \/ DomainRound(t)
    \/ saveKnown(t)
    \/ saveCopy(t)
    \/ saveWrite(t)
    \/ Forget(t)
    \/ Swap(t)

----------------------------------------------------------------------------
(* What starts the work. *)

\* Run's select takes a ticker that is ready, each tier but dns followed by a
\* save, and once the context is done it may take that instead, which saves and
\* returns (nothing comes after "end").
Tick(tier) ==
    /\ th[Run].jobs = <<>>
    /\ th' = Start(Run, IF tier = "dns" THEN <<tier>> ELSE <<tier, "save">>, None)
    /\ UNCHANGED <<server, memory, file, stopping, faults>>

Leave ==
    /\ th[Run].jobs = <<>>
    /\ stopping
    /\ th' = Start(Run, <<"save", "end">>, None)
    /\ UNCHANGED <<server, memory, file, stopping, faults>>

Request == requests < MaxRequests /\ requests' = requests + 1

\* mutate: the change and its save, of the whole store, under the server's lock.
Save == saved' = [sites |-> store', on |-> monitoring']

\* POST /api/refresh: a reload, which reads sites.json here and swaps in a later
\* step, or keeps the store when the read fails; then the rounds.
Refresh(w) ==
    /\ Request
    /\ th[w].jobs = <<>>
    /\ \/ th' = [Start(w, <<"swap">> \o AllTiers, None) EXCEPT ![w].held = saved]
       \/ th' = Start(w, AllTiers, None)
    /\ UNCHANGED <<sitesNow, memory, file, stopping, faults>>

\* POST /api/sites, and add_site of the MCP endpoint, which refreshes nothing.
AddSite(w) ==
    /\ Request
    /\ \E id \in Sites \ used, c \in Configs, refresh \in BOOLEAN :
        /\ th[w].jobs = <<>>
        /\ \A x \in DOMAIN store : store[x].url # c.url
        /\ store' = Put(store, id, c)
        /\ used' = used \cup {id}
        /\ th' = IF refresh THEN Start(w, AllTiers, None) ELSE th
    /\ UNCHANGED <<monitoring, restored, memory, file, stopping, faults>>
    /\ Save

EditSite ==
    /\ Request
    /\ \E id \in DOMAIN store, c \in Configs :
        /\ c # store[id]
        /\ store' = [store EXCEPT ![id] = c]
    /\ UNCHANGED <<monitoring, restored, used, memory, file, th, stopping, faults>>
    /\ Save

\* DELETE /api/sites/{id} and remove_site: the store first, then Forget and its
\* save, in the handler's goroutine.
RemoveSite(w) ==
    /\ Request
    /\ \E id \in DOMAIN store :
        /\ th[w].jobs = <<>>
        /\ store' = Without(store, {id})
        /\ restored' = restored \ {id}
        /\ th' = Start(w, <<"forget", "save">>, id)
    /\ UNCHANGED <<monitoring, used, memory, file, stopping, faults>>
    /\ Save

SetMonitoring ==
    /\ Request
    /\ monitoring' = ~monitoring
    /\ UNCHANGED <<store, restored, used, memory, file, th, stopping, faults>>
    /\ Save

\* SIGTERM: the context of Run ends.  Refreshes have a context of their own.
Stop ==
    /\ ~stopping
    /\ faults < MaxFaults
    /\ stopping' = TRUE
    /\ faults' = faults + 1
    /\ UNCHANGED <<server, memory, file, th>>

\* The process starts again from sites.json and state.json: load, then Prune,
\* which saves when it dropped something, before the server listens.
Restart(spent) ==
    LET kept == Within(file.sites, DOMAIN saved.sites)
    IN  \E failed \in {0, IF kept = file.sites THEN 0 ELSE 1} :
          /\ faults + spent + failed <= MaxFaults
          /\ faults' = faults + spent + failed
          /\ store' = saved.sites
          /\ monitoring' = saved.on
          /\ restored' = {}
          /\ state' = kept
          /\ fault' = file.fault
          /\ boot' = FALSE
          /\ file' = IF failed = 1 THEN file ELSE [file EXCEPT !.sites = kept]
          /\ th' = [t \in Threads |->
                      IF t = Run THEN [Idle EXCEPT !.jobs = AllTiers] ELSE Idle]
          /\ stopping' = FALSE
          /\ UNCHANGED <<saved, used, requests>>

Crash == ~stopping /\ Restart(1)

\* main returns when the server has shut down, wherever Run and the refreshes are.
StopAndStart == stopping /\ Restart(0)

Next ==
    \/ \E t \in Threads : Step(t)
    \/ \E tier \in Tiers : Tick(tier)
    \/ Leave
    \/ \E w \in Workers : Refresh(w) \/ AddSite(w) \/ RemoveSite(w)
    \/ EditSite
    \/ SetMonitoring
    \/ Stop
    \/ Crash
    \/ StopAndStart

\* Probes are bounded by the client's timeouts, so a thread always gets on.  A
\* ticker that has fired stays ready until Run takes it and select picks among
\* the ready ones at random, so no tier is passed over for ever.  A daemon that
\* was stopped is started again at the next login.
Fairness ==
    /\ \A t \in Threads : WF_vars(Step(t))
    /\ \A tier \in Tiers : SF_vars(Tick(tier))
    /\ WF_vars(StopAndStart)

Spec == Init /\ [][Next]_vars
FairSpec == Spec /\ Fairness

----------------------------------------------------------------------------
\* No round, removal or prune ever drops the record of a site that is still
\* watched; a restart does only when no save had put it in the file yet.  The one
\* exception is a site that was removed and that a reload, having read the list
\* before, put back: its removal's Forget still comes, and the next round makes
\* the record anew.
WatchedNotForgotten ==
    [][\A id \in DOMAIN store \cap DOMAIN store' :
         id \in DOMAIN state \ DOMAIN state' =>
             \/ (Crash \/ StopAndStart) /\ id \notin DOMAIN file.sites
             \/ id \in restored /\ \E t \in Threads : Forget(t) /\ th[t].id = id]_vars

\* save's comment: "Filtering here is what makes the removal stick whichever
\* path created the record".  With rounds in flight putting the record back and
\* older saves landing late, a removed site is in the end out of state.json for
\* good.
RemovalSticks ==
    \A id \in Sites :
        <>[](id \in used \ DOMAIN store) => <>[](id \notin DOMAIN file.sites)

\* A round in flight writes the address it began with over an edit, but the
\* row of a site that is checked does come to show the one it was edited to.
EditReachesRow ==
    \A id \in Sites, c \in Configs :
        <>[](id \in DOMAIN active /\ store[id] = c)
            => <>[](id \in DOMAIN state /\ state[id].url = c.url)

\* A refresh or a removal that was asked for comes to an end, whatever is
\* edited, switched off or stopped meanwhile.
WorkEnds == \A w \in Workers : th[w].jobs # <<>> ~> th[w].jobs = <<>>
=============================================================================
