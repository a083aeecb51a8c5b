------------------------------ MODULE SiteStore ------------------------------
(***************************************************************************)
(* The list of sites as the API server keeps it (api/server.go and the     *)
(* store of sites/sites.go): a store object handed out by pointer, changed *)
(* in place under the server's lock by mutate, replaced by Reload, and     *)
(* iterated by readers after they released the lock.                       *)
(*                                                                         *)
(* A slice is a backing array and a length.  slices.DeleteFunc moves the   *)
(* elements behind the deleted one down, blanks the last and returns the   *)
(* shorter slice; an append has room behind the length.  The race of an    *)
(* iteration with these is over whole elements: a read gives one of the    *)
(* sites that stood in the cell, or the blank.  sites.json is replaced and *)
(* read whole (FileStore); an editor may leave it unreadable for a while.  *)
(*                                                                         *)
(* The MCP tools and the command line name a site by its address (or host, *)
(* or label: one name stands for them).  They look the id up first, in the *)
(* monitor's records and the list of sites or in the list alone, and ask   *)
(* for the change of that id afterwards.                                   *)
(***************************************************************************)
EXTENDS Integers, Sequences, SequencesExt

CONSTANTS
    Threads,      \* goroutines of requests, and whoever else asks for the sites
    Ids,
    Urls,
    NewUrls,      \* those a site is edited to
    InitSites,    \* sites.json at first start
    HandEdits,    \* what it is edited to by hand
    MaxJobs,      \* requests and reads
    MaxFaults,    \* hand edits, failed writes and restarts
    MaxEvents     \* jobs and faults together

Blank == [id |-> 0, url |-> "blank"]
Site == [id : Ids, url : Urls]
Unreadable == [sites |-> <<Blank>>, on |-> FALSE]

Cell == Site \cup {Blank}

\* What sites.json may hold.  Ids are minted: that an editor gives one to two
\* sites is left out.
Contents ==
    {c \in [sites : Seq(Site), on : BOOLEAN] :
        \A i, j \in DOMAIN c.sites : c.sites[i].id = c.sites[j].id => i = j}

ASSUME SiteStoreAssumption ==
    /\ Ids \subseteq Nat \ {0}
    /\ NewUrls \subseteq Urls
    /\ {"none", "blank"} \cap Urls = {}
    /\ "free" \notin Threads
    /\ InitSites \in Contents
    /\ HandEdits \subseteq Contents \cup {Unreadable}
    /\ {MaxJobs, MaxFaults, MaxEvents} \subseteq Nat

VARIABLES
    heap,      \* store objects, in the order they were loaded: [cells, len, on]
    lock,      \* who holds Server.mu for writing, or "free"
    file,      \* sites.json
    used,      \* ids ever minted
    rows,      \* the monitor's records: the sites as they were last probed
    th,        \* the threads
    jobs,
    faults,
    drift      \* history: why sites.json and the store may differ

vars == <<heap, lock, file, used, rows, th, jobs, faults, drift>>

cur == Len(heap)
Content(o) == [sites |-> SubSeq(heap[o].cells, 1, heap[o].len), on |-> heap[o].on]
Object(c) == [cells |-> c.sites, len |-> Len(c.sites), on |-> c.on]
IdsOf(c) == {c.sites[i].id : i \in DOMAIN c.sites}
SeenIds(t) == {s.id : s \in Range(th[t].seen)}

(* A thread: op and id (url) say what it changes, pos where in the array   *)
(* it is, obj which object it reads, n its length as read, seen what was   *)
(* read so far; fresh is what Reload loaded.  A call has the name it is    *)
(* about in want, the records it copied in copy, and in look whether it is *)
(* looking among those, in the list, or in the answer a command line got,  *)
(* whose process does not end with the daemon.  The rest is history: was is *)
(* the store when the reader got it, touched whether a site of it was      *)
(* moved or changed since, held what the file held since Reload began,     *)
(* raced whether it was written since, bore the sites of the store that    *)
(* had the name of a call, as address or in a record (one that is there or *)
(* that the call has copied), since it began.                              *)
Places == {"idle", "shift", "cut", "save", "forget", "load", "swap",
           "copy", "get", "header", "read", "done", "wait"}
Ops == {"add", "edit", "remove", "set", "none"}
Looks == {"rows", "list", "answer", "none"}
Thread == [at : Places, op : Ops, id : Ids \cup {0}, url : Urls \cup {"none"}, pos : Nat,
           obj : Nat \ {0}, n : Nat, seen : Seq(Cell), fresh : Contents \cup {Unreadable},
           want : Urls \cup {"none"}, copy : SUBSET Site, look : Looks, was : SUBSET Site,
           touched : BOOLEAN, held : SUBSET (Contents \cup {Unreadable}), raced : BOOLEAN,
           bore : SUBSET Ids]
Idle == [at |-> "idle", op |-> "none", id |-> 0, url |-> "none", pos |-> 0, obj |-> 1,
         n |-> 0, seen |-> <<>>, fresh |-> Unreadable, want |-> "none", copy |-> {},
         look |-> "none", was |-> {}, touched |-> FALSE,
         held |-> {}, raced |-> FALSE, bore |-> {}]

TypeOK ==
    /\ heap \in Seq([cells : Seq(Cell), len : Nat, on : BOOLEAN]) \ {<<>>}
    /\ \A o \in 1..cur :
         /\ heap[o].len <= Len(heap[o].cells)
         /\ lock = "free" => Content(o) \in Contents
    /\ lock \in Threads \cup {"free"}
    /\ file \in Contents \cup {Unreadable}
    /\ used \subseteq Ids
    /\ rows \subseteq Site
    /\ \A r, s \in rows : r.id = s.id => r = s
    /\ th \in [Threads -> Thread]
    /\ \A t \in Threads :
         /\ th[t].obj <= cur
         /\ th[t].at \in {"shift", "cut", "save"} <=> lock = t
    /\ jobs \in 0..MaxJobs
    /\ faults \in 0..MaxFaults
    /\ drift \subseteq {"hand", "failed", "stale"}

Init ==
    /\ heap = <<Object(InitSites)>>
    /\ lock = "free"
    /\ file = InitSites
    /\ used = IdsOf(InitSites)
    /\ rows = Range(InitSites.sites)
    /\ th = [t \in Threads |-> Idle]
    /\ jobs = 0
    /\ faults = 0
    /\ drift = {}

Calling(t) == th[t].want # "none"
Free(t) == th[t].at \in {"idle", "done"} /\ ~Calling(t)
Job(t) == Free(t) /\ jobs < MaxJobs /\ jobs + faults < MaxEvents /\ jobs' = jobs + 1
Fault == faults < MaxFaults /\ jobs + faults < MaxEvents /\ faults' = faults + 1
At(t, here) == th[t].at = here

\* The readers of the current store, when it is changed under them.
Touched(f) ==
    [t \in Threads |-> IF f[t].at \in {"header", "read"} /\ f[t].obj = cur /\ f[t].want = "none"
                       THEN [f[t] EXCEPT !.touched = TRUE] ELSE f[t]]

\* The reloads under way, when the file becomes c.
Witness(f, c) ==
    [t \in Threads |-> IF f[t].at \in {"load", "swap"}
                       THEN [f[t] EXCEPT !.held = @ \cup {c}, !.raced = At(t, "swap")]
                       ELSE f[t]]

\* The listed sites that have this name.
Bearers(list, records, name) ==
    {i \in {s.id : s \in Range(list)} :
        \E s \in Range(list) \cup records : s.id = i /\ s.url = name}

\* The calls under way, when the store lists these sites and there are these
\* records beside those that were copied.
Heard(f, list, records) ==
    [t \in Threads |-> IF f[t].want = "none" THEN f[t]
                       ELSE [f[t] EXCEPT !.bore = @ \cup Bearers(list, records \cup f[t].copy,
                                                                 f[t].want)]]

----------------------------------------------------------------------------
(* mutate *)

Index(id) == {i \in 1..heap[cur].len : heap[cur].cells[i].id = id}

MayAsk(t) == lock = "free" /\ (Free(t) \/ At(t, "wait"))

\* A request asks for this change, or a call by name does that found the id.
Asks(t, op, id, url) ==
    \/ Job(t)
    \/ At(t, "wait") /\ <<th[t].op, th[t].id, th[t].url>> = <<op, id, url>> /\ UNCHANGED jobs

Begun(t, op, id, url) ==
    IF Calling(t) THEN th[t] ELSE [Idle EXCEPT !.op = op, !.id = id, !.url = url]

Refused(t) == th' = [th EXCEPT ![t] = Idle] /\ UNCHANGED <<heap, lock>>

\* append writes behind the length, where there may be cells that were cut off.
Grown(o, site) ==
    [heap[o] EXCEPT !.len = @ + 1,
                    !.cells = IF heap[o].len = Len(@) THEN Append(@, site)
                              ELSE [@ EXCEPT ![heap[o].len + 1] = site]]

\* Store.Add: a url that is watched already is refused, the new id is a fresh one.
Add(t) ==
    /\ MayAsk(t)
    /\ \E url \in Urls, id \in Ids \ used :
         /\ \A i \in Ids \ used : id <= i
         /\ Asks(t, "add", id, url)
         /\ LET old == Content(cur).sites
                site == [id |-> id, url |-> url]
            IN  IF \E s \in Range(old) : s.url = url
                THEN Refused(t) /\ UNCHANGED used
                ELSE /\ lock' = t
                     /\ heap' = [heap EXCEPT ![cur] = Grown(cur, site)]
                     /\ used' = used \cup {id}
                     /\ LET begun == [Begun(t, "add", id, url) EXCEPT !.at = "save"]
                        IN  th' = Heard([th EXCEPT ![t] = begun], Append(old, site), rows)
    /\ UNCHANGED <<file, rows, faults, drift>>

\* Store.Edit: an unknown id is refused; nobody asks whether the url is taken.
Edit(t) ==
    /\ MayAsk(t)
    /\ \E id \in Ids, url \in NewUrls :
         /\ Asks(t, "edit", id, url)
         /\ IF Index(id) = {} THEN Refused(t)
            ELSE \E i \in Index(id) :
                   /\ lock' = t
                   /\ heap' = [heap EXCEPT ![cur].cells[i].url = url]
                   /\ LET begun == [Begun(t, "edit", id, url) EXCEPT !.at = "save"]
                      IN  th' = Heard(Touched([th EXCEPT ![t] = begun]), Content(cur)'.sites, rows)
    /\ UNCHANGED <<file, used, rows, faults, drift>>

\* Store.Remove: of an id that is not there, nothing changes, and it is saved.
RemoveSite(t) ==
    /\ MayAsk(t)
    /\ \E id \in Ids :
         /\ Asks(t, "remove", id, "none")
         /\ lock' = t
         /\ \E i \in IF Index(id) = {} THEN {0} ELSE Index(id) :
              th' = [th EXCEPT ![t] = [Begun(t, "remove", id, "none") EXCEPT
                                         !.at = IF i = 0 THEN "save" ELSE "shift", !.pos = i]]
    /\ UNCHANGED <<heap, file, used, rows, faults, drift>>

\* The master switch; the other settings are fields like it.
Set(t) ==
    /\ MayAsk(t)
    /\ Asks(t, "set", 0, "none")
    /\ lock' = t
    /\ heap' = [heap EXCEPT ![cur].on = ~@]
    /\ th' = [th EXCEPT ![t] = [Begun(t, "set", 0, "none") EXCEPT !.at = "save"]]
    /\ UNCHANGED <<file, used, rows, faults, drift>>

\* DeleteFunc: the next element moves down, or the last is blanked.
Shift(t) ==
    /\ At(t, "shift")
    /\ LET i == th[t].pos
       IN  IF i < heap[cur].len
           THEN /\ heap' = [heap EXCEPT ![cur].cells[i] = heap[cur].cells[i + 1]]
                /\ th' = Touched([th EXCEPT ![t].pos = i + 1])
           ELSE /\ heap' = [heap EXCEPT ![cur].cells[i] = Blank]
                /\ th' = Touched([th EXCEPT ![t].at = "cut"])
    /\ UNCHANGED <<lock, file, used, jobs, faults, drift, rows>>

\* Variant: the shorter slice is dropped.
CutForgotten(t) ==
    /\ At(t, "cut")
    /\ th' = Touched([th EXCEPT ![t].at = "save"])
    /\ UNCHANGED <<heap, lock, file, used, jobs, faults, drift, rows>>

Cut(t) ==
    /\ At(t, "cut")
    /\ heap' = [heap EXCEPT ![cur].len = @ - 1]
    /\ th' = Touched([th EXCEPT ![t].at = "save"])
    /\ UNCHANGED <<lock, file, used, jobs, faults, drift, rows>>

\* A site that was removed has its record forgotten once the lock is released.
Saved(t) == IF th[t].op = "remove" /\ th[t].pos > 0 THEN [th[t] EXCEPT !.at = "forget"] ELSE Idle

\* Variant: what is saved is what the file held, with the change added to it.
SaveKeepsFile(t) ==
    /\ At(t, "save")
    /\ file' = IF th[t].op = "set" THEN [file EXCEPT !.on = heap[cur].on] ELSE Content(cur)
    /\ drift' = {}
    /\ lock' = "free"
    /\ th' = Witness([th EXCEPT ![t] = Saved(t)], file')
    /\ UNCHANGED <<heap, used, jobs, faults, rows>>

\* Store.Save, still under the lock.  When it fails the request is answered with
\* an error, and the store stays changed.
Save(t) ==
    /\ At(t, "save")
    /\ lock' = "free"
    /\ \/ /\ file' = Content(cur)
          /\ drift' = {}
          /\ th' = Witness([th EXCEPT ![t] = Saved(t)], Content(cur))
          /\ UNCHANGED faults
       \/ /\ Fault
          /\ drift' = drift \cup {"failed"}
          /\ th' = [th EXCEPT ![t] = Idle]
          /\ UNCHANGED file
    /\ UNCHANGED <<heap, used, jobs, rows>>

Forget(t) ==
    /\ At(t, "forget")
    /\ rows' = {r \in rows : r.id # th[t].id}
    /\ th' = [th EXCEPT ![t] = Idle]
    /\ UNCHANGED <<heap, lock, file, used, jobs, faults, drift>>

----------------------------------------------------------------------------
(* Reload, of POST /api/refresh. *)

Reload(t) ==
    /\ Job(t)
    /\ lock = "free"
    /\ th' = [th EXCEPT ![t] = [Idle EXCEPT !.at = "load", !.held = {file}]]
    /\ UNCHANGED <<heap, lock, file, used, faults, drift, rows>>

\* Variant that treats a file it cannot read as a first run.
LoadAnything(t) ==
    /\ At(t, "load")
    /\ th' = [th EXCEPT ![t].at = "swap",
                        ![t].fresh = IF file = Unreadable THEN [sites |-> <<>>, on |-> TRUE]
                                     ELSE file]
    /\ UNCHANGED <<heap, lock, file, used, jobs, faults, drift, rows>>

\* Outside the lock.  A failed read keeps the store.
Load(t) ==
    /\ At(t, "load")
    /\ th' = [th EXCEPT ![t] = IF file = Unreadable THEN Idle
                               ELSE [@ EXCEPT !.at = "swap", !.fresh = file]]
    /\ UNCHANGED <<heap, lock, file, used, jobs, faults, drift, rows>>

\* Variant that fills the store there is with what was loaded.
SwapInPlace(t) ==
    /\ At(t, "swap")
    /\ lock = "free"
    /\ heap' = [heap EXCEPT ![cur] = Object(th[t].fresh)]
    /\ used' = used \cup IdsOf(th[t].fresh)
    /\ drift' = IF th[t].raced THEN {"stale"} ELSE {}
    /\ th' = Heard([th EXCEPT ![t] = Idle], th[t].fresh.sites, rows)
    /\ UNCHANGED <<lock, file, jobs, faults, rows>>

\* The pointer is swapped, whatever happened since the read.
Swap(t) ==
    /\ At(t, "swap")
    /\ lock = "free"
    /\ heap' = Append(heap, Object(th[t].fresh))
    /\ used' = used \cup IdsOf(th[t].fresh)
    /\ drift' = IF th[t].raced THEN {"stale"} ELSE {}
    /\ th' = Heard([th EXCEPT ![t] = Idle], th[t].fresh.sites, rows)
    /\ UNCHANGED <<lock, file, jobs, faults, rows>>

----------------------------------------------------------------------------
(* Readers: the rounds, save of the monitor, the dashboard, the MCP tools. *)

\* Store(), under the read lock.
Get(t) ==
    /\ lock = "free"
    /\ \/ Job(t)
       \/ At(t, "get") /\ UNCHANGED jobs
    /\ th' = [th EXCEPT ![t] =
                 IF Calling(t) THEN [@ EXCEPT !.at = "header", !.obj = cur]
                 ELSE [Idle EXCEPT !.at = "header", !.obj = cur,
                                   !.was = Range(Content(cur).sites)]]
    /\ UNCHANGED <<heap, lock, file, used, faults, drift, rows>>

\* The range statement reads the slice once and then element by element.
Header(t) ==
    /\ At(t, "header")
    /\ th' = [th EXCEPT ![t].at = IF heap[th[t].obj].len = 0 THEN "done" ELSE "read",
                        ![t].n = heap[th[t].obj].len]
    /\ UNCHANGED <<heap, lock, file, used, jobs, faults, drift, rows>>

ReadCell(t) ==
    /\ At(t, "read")
    /\ LET i == Len(th[t].seen) + 1
       IN  th' = [th EXCEPT ![t].seen = Append(@, heap[th[t].obj].cells[i]),
                            ![t].at = IF i = th[t].n THEN "done" ELSE "read"]
    /\ UNCHANGED <<heap, lock, file, used, jobs, faults, drift, rows>>

\* A reader that is a round (and its save, see Monitor) puts what it probed in the records, a site that was
\* removed meanwhile among them; active leaves a blank one out.
Record(t) ==
    /\ At(t, "done") /\ ~Calling(t)
    /\ LET seen   == th[t].seen
           last   == {i \in DOMAIN seen : \A j \in DOMAIN seen : seen[j].id = seen[i].id => j <= i}
           probed == {seen[i] : i \in last} \ {Blank}
       IN  rows' = probed \cup {r \in rows : r.id \notin SeenIds(t)}
    /\ th' = Heard([th EXCEPT ![t] = Idle], Content(cur).sites, rows')
    /\ UNCHANGED <<heap, lock, file, used, jobs, faults, drift>>

----------------------------------------------------------------------------
(* Calls by name. *)

Call(t, at, look) ==
    /\ Job(t)
    /\ \E op \in {"edit", "remove"}, want \in Urls :
         \E url \in IF op = "edit" THEN NewUrls ELSE {"none"} :
           th' = [th EXCEPT ![t] =
                    [Idle EXCEPT !.at = at, !.op = op, !.want = want, !.url = url, !.look = look,
                                 !.bore = Bearers(Content(cur).sites, rows, want)]]
    /\ UNCHANGED <<heap, lock, file, used, rows, faults, drift>>

\* sentinel_edit_site, sentinel_remove_site: they look among the rows first.
Tool(t) == Call(t, "copy", "rows")

\* sentinel edit, pause, resume, remove: GET /api/sites, and later PATCH or DELETE.
Command(t) == Call(t, "get", "answer")

\* rows takes the records, then asks for the sites (Get) to know them by.
Copy(t) ==
    /\ At(t, "copy")
    /\ th' = [th EXCEPT ![t].at = "get", ![t].copy = rows]
    /\ UNCHANGED <<heap, lock, file, used, rows, jobs, faults, drift>>

\* Variant that takes a record for a site.
MatchesUnknown(t) ==
    {s.id : s \in {s \in IF th[t].look = "rows" THEN th[t].copy
                         ELSE Range(th[t].seen) : s.url = th[t].want}}

\* Records of known sites that match, or sites of the list.
Matches(t) ==
    {s.id : s \in {s \in IF th[t].look = "rows" THEN {r \in th[t].copy : r.id \in SeenIds(t)}
                         ELSE Range(th[t].seen) : s.url = th[t].want}}

Kept(t) == IF th[t].look = "answer" THEN "answer" ELSE "none"

\* The first match is the site that is meant; the rows have no order among
\* equal labels.  With none among the rows the list is asked, and with none there
\* the call is answered that nothing matches.
Resolve(t) ==
    /\ At(t, "done") /\ Calling(t)
    /\ \/ \E id \in Matches(t) :
             /\ th[t].look # "rows" =>
                  id = SelectSeq(th[t].seen, LAMBDA s : s.url = th[t].want)[1].id
             /\ th' = [th EXCEPT ![t] = [@ EXCEPT !.at = "wait", !.id = id, !.obj = 1, !.n = 0,
                                                    !.look = Kept(t), !.seen = <<>>, !.copy = {}]]
       \/ /\ Matches(t) = {}
          /\ th' = [th EXCEPT ![t] = IF th[t].look # "rows" THEN Idle
                                     ELSE [@ EXCEPT !.at = "get", !.look = "list",
                                                    !.seen = <<>>, !.copy = {}]]
    /\ UNCHANGED <<heap, lock, file, used, rows, jobs, faults, drift>>

----------------------------------------------------------------------------
(* The world. *)

\* Somebody edits sites.json.
HandEdit ==
    /\ Fault
    /\ file' \in HandEdits
    /\ file' # file
    /\ drift' = drift \cup {"hand"}
    /\ th' = Witness(th, file')
    /\ UNCHANGED <<heap, lock, used, jobs, rows>>

\* The threads of the daemon end with it.  A command line that has its answer is
\* another process and may ask the next daemon for the change; one that has not is
\* refused, or asks the next daemon, which is a call that begins later.
Outlives(t) == At(t, "wait") /\ th[t].look = "answer"

\* A daemon that cannot read sites.json does not start.
Restart ==
    /\ Fault
    /\ file # Unreadable
    /\ heap' = <<Object(file)>>
    /\ lock' = "free"
    /\ rows' = {r \in rows : r.id \in IdsOf(file)}
    /\ \E alive \in SUBSET {t \in Threads : Outlives(t)} :
         th' = Heard([t \in Threads |-> IF t \in alive THEN th[t] ELSE Idle], file.sites, rows')
    /\ used' = used \cup IdsOf(file)
    /\ drift' = {}
    /\ UNCHANGED <<file, jobs>>

Next ==
    \/ \E t \in Threads :
         \/ Add(t) \/ Edit(t) \/ RemoveSite(t) \/ Shift(t) \/ Cut(t) \/ Set(t) \/ Save(t)
         \/ Forget(t) \/ Reload(t) \/ Load(t) \/ Swap(t)
         \/ Get(t) \/ Header(t) \/ ReadCell(t) \/ Record(t)
         \/ Tool(t) \/ Command(t) \/ Copy(t) \/ Resolve(t)
    \/ HandEdit
    \/ Restart

Spec == Init /\ [][Next]_vars

----------------------------------------------------------------------------
\* The store and sites.json say the same whenever no change is under way,
\* except after a write that failed, an edit by hand not yet loaded, or a
\* reload that was overtaken by a change between its read and its swap.
DriftHasCause == lock = "free" /\ drift = {} => file = Content(cur)

\* Reload's comment: "a reload must never be able to empty the site list, least
\* of all from a transient miss".  A reload takes a site out of the store only
\* if sites.json, read whole since the reload began, did not have it.
ReloadKeepsSites ==
    [][\A t \in Threads : At(t, "swap") /\ th'[t].at = "idle" /\ jobs' = jobs /\ faults' = faults =>
         \A id \in IdsOf(Content(cur)) \ IdsOf(Content(cur)') :
            \E c \in th[t].held \ {Unreadable} : id \notin IdsOf(c)]_vars

\* A reader over which no site was removed or edited has every site it began
\* with and nothing but sites, whatever was added or reloaded meanwhile.
QuietReadsWhole ==
    \A t \in Threads : At(t, "done") /\ ~Calling(t) /\ ~th[t].touched =>
        th[t].was \subseteq Range(th[t].seen) /\ Blank \notin Range(th[t].seen)

\* A call by name changes no site but one that was watched at some moment since
\* the call began and bore the name then, as its address, in its record or in the
\* record the call had copied: whatever was edited, removed or reloaded between
\* the look-up and the change, and whatever the records hold of sites that are gone.
ToolHitsNamed ==
    \A t \in Threads : Calling(t) /\ th[t].at \in {"wait", "shift", "cut", "save", "forget"} =>
        th[t].id \in th[t].bore

\* The same comment: "its callers read the slice after the read lock is released
\* -- mutating in place would be a data race".  No reader meets a blank site or
\* misses one that was in the store from before it began to after it ended.
ReadsWhole ==
    \A t \in Threads : At(t, "done") /\ ~Calling(t) =>
        /\ Blank \notin Range(th[t].seen)
        /\ {s.id : s \in th[t].was} \cap IdsOf(Content(th[t].obj)) \subseteq SeenIds(t)
=============================================================================
