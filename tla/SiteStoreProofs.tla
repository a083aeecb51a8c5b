---------------------------- MODULE SiteStoreProofs ----------------------------
(***************************************************************************)
(* For every number of threads, sites, requests and failures: what the     *)
(* store of the API server promises while it is changed in place, saved,   *)
(* reloaded and read.                                                      *)
(*                                                                         *)
(* The invariant says what a slice looks like at each step of DeleteFunc   *)
(* (Slices), what a reader that nothing disturbed has seen so far (Quiet), *)
(* what a reload under way has in its hands (Loads) and where the id of a  *)
(* call by name comes from (Borne).                                        *)
(***************************************************************************)
EXTENDS SiteStore, SequenceTheorems, TLAPS

StoreObject == [cells : Seq(Cell), len : Nat, on : BOOLEAN]

----------------------------------------------------------------------------
(* The invariant. *)

\* The first len cells are sites, all but the one at gap with ids of their own,
\* and the cells behind them are blank.
Slice(cells, len, gap) ==
    /\ len <= Len(cells)
    /\ \A j \in 1..Len(cells) : IF j <= len THEN cells[j] \in Site ELSE cells[j] = Blank
    /\ \A j, k \in (1..len) \ {gap} : cells[j].id = cells[k].id => j = k

Sound(o) == Slice(heap[o].cells, heap[o].len, 0)

\* How far slices.DeleteFunc has come.
Deleting(r) ==
    /\ r.at = "shift" => /\ r.pos \in 1..heap[cur].len
                         /\ Slice(heap[cur].cells, heap[cur].len, r.pos)
    /\ r.at = "cut" => /\ heap[cur].len >= 1
                       /\ Slice(heap[cur].cells, heap[cur].len - 1, 0)

Heaped == heap \in Seq(StoreObject) \ {<<>>}

Slices ==
    /\ \A o \in 1..cur : heap[o].len <= Len(heap[o].cells)
    /\ \A o \in 1..cur :
         o # cur \/ (\A t \in Threads : th[t].at \notin {"shift", "cut"}) => Sound(o)
    /\ \A t \in Threads : Deleting(th[t])

\* Every id in the store was minted or loaded.
Minted == \A j \in 1..Len(heap[cur].cells) : heap[cur].cells[j] \in Site => heap[cur].cells[j].id \in used

Records ==
    /\ rows \subseteq Site
    /\ \A r, s \in rows : r.id = s.id => r = s

Numbers ==
    /\ lock \in Threads \cup {"free"}
    /\ file \in Contents \cup {Unreadable}
    /\ used \subseteq Ids
    /\ jobs \in 0..MaxJobs
    /\ faults \in 0..MaxFaults
    /\ drift \subseteq {"hand", "failed", "stale"}

Threaded == th \in [Threads -> Thread]

Locked == \A t \in Threads : th[t].at \in {"shift", "cut", "save"} <=> lock = t

\* A reader has room for what it will read.
Reads(r) ==
    /\ r.obj <= cur
    /\ r.at \in {"copy", "get", "header"} => r.seen = <<>>
    /\ r.at = "wait" => r.obj = 1
    /\ r.at = "read" => r.n <= Len(heap[r.obj].cells) /\ Len(r.seen) < r.n

\* What an undisturbed reader has and will have.
Quiet(r) ==
    r.want = "none" /\ ~r.touched =>
        /\ r.at = "header" =>
             /\ \A j \in 1..heap[r.obj].len : heap[r.obj].cells[j] \in Site
             /\ \A s \in r.was : \E j \in 1..heap[r.obj].len : heap[r.obj].cells[j] = s
        /\ r.at = "read" =>
             /\ \A j \in 1..r.n : heap[r.obj].cells[j] \in Site
             /\ \A s \in r.was : \E j \in 1..r.n : heap[r.obj].cells[j] = s
             /\ \A j \in 1..Len(r.seen) : r.seen[j] = heap[r.obj].cells[j]
        /\ r.at = "done" =>
             /\ \A j \in 1..Len(r.seen) : r.seen[j] \in Site
             /\ \A s \in r.was : \E j \in 1..Len(r.seen) : r.seen[j] = s

\* What Reload has read, and whether it was overtaken.
Loads(r) ==
    /\ r.at \in {"load", "swap"} => file \in r.held
    /\ r.at = "swap" => /\ r.fresh \in r.held \ {Unreadable}
                        /\ r.raced \/ r.fresh = file

\* All a call can take for the site that is meant bore the name.
Borne(r) ==
    r.want # "none" =>
        /\ Bearers(heap[cur].cells, rows \cup r.copy, r.want) \subseteq r.bore
        /\ r.at \in {"header", "read"} =>
             Bearers(heap[r.obj].cells, r.copy, r.want) \subseteq r.bore
        /\ Bearers(r.seen, r.copy, r.want) \subseteq r.bore
        /\ r.at \in {"wait", "shift", "cut", "save", "forget"} => r.id \in r.bore

EachReads == \A t \in Threads : Reads(th[t])
EachQuiet == \A t \in Threads : Quiet(th[t])
EachLoads == \A t \in Threads : Loads(th[t])
EachBorne == \A t \in Threads : Borne(th[t])

IInv ==
    /\ Heaped /\ Records /\ Numbers /\ Threaded
    /\ Locked /\ Slices /\ Minted
    /\ EachReads /\ EachQuiet /\ EachLoads /\ EachBorne
    /\ DriftHasCause

----------------------------------------------------------------------------
(* Slices, and what is listed in them. *)

\* A store object of a heap is well formed, and so are its cells.
LEMMA ObjectFacts ==
    ASSUME NEW h \in Seq(StoreObject), NEW o \in 1..Len(h)
    PROVE  /\ h[o] \in StoreObject
           /\ h[o].cells \in Seq(Cell) /\ h[o].len \in Nat /\ h[o].on \in BOOLEAN
           /\ Len(h[o].cells) \in Nat
           /\ \A j \in 1..Len(h[o].cells) : h[o].cells[j] \in Cell
<1>1. h[o] \in StoreObject
    OBVIOUS
<1> QED BY <1>1 DEF StoreObject

\* There is a store, and every object up to the current one is well formed.
LEMMA HeapFacts ==
    ASSUME Heaped
    PROVE  /\ heap \in Seq(StoreObject) /\ cur = Len(heap)
           /\ cur \in Nat \ {0} /\ cur \in 1..cur
           /\ \A o \in 1..cur :
                /\ heap[o] \in StoreObject
                /\ heap[o].cells \in Seq(Cell) /\ heap[o].len \in Nat /\ heap[o].on \in BOOLEAN
                /\ Len(heap[o].cells) \in Nat
                /\ \A j \in 1..Len(heap[o].cells) : heap[o].cells[j] \in Cell
<1>1. heap \in Seq(StoreObject) /\ heap # <<>>
    BY DEF Heaped
<1>2. cur \in Nat /\ cur # 0 /\ cur = Len(heap)
    BY <1>1 DEF cur
<1> QED BY <1>1, <1>2, ObjectFacts

\* The sites of a sound slice, as a list.
LEMMA Listed ==
    ASSUME NEW cells \in Seq(Cell), NEW len \in Nat, Slice(cells, len, 0)
    PROVE  /\ SubSeq(cells, 1, len) \in Seq(Site)
           /\ Len(SubSeq(cells, 1, len)) = len
           /\ DOMAIN SubSeq(cells, 1, len) = 1..len
           /\ \A j \in 1..len : SubSeq(cells, 1, len)[j] = cells[j]
           /\ Range(SubSeq(cells, 1, len)) = {cells[j] : j \in 1..len}
<1>1. \A j \in 1..len : cells[j] \in Site
    BY DEF Slice
<1>2. /\ SubSeq(cells, 1, len) \in Seq(Site)
      /\ Len(SubSeq(cells, 1, len)) = len
      /\ \A j \in 1..len : SubSeq(cells, 1, len)[j] = cells[j]
    BY <1>1, SubSeqProperties
<1>3. DOMAIN SubSeq(cells, 1, len) = 1..len
    BY <1>2
<1> QED BY <1>2, <1>3 DEF Range

\* The content of a sound slice is what a readable sites.json may hold.
LEMMA SoundContent ==
    ASSUME Heaped, NEW o \in 1..cur, Sound(o)
    PROVE  Content(o) \in Contents
<1> DEFINE list == SubSeq(heap[o].cells, 1, heap[o].len)
<1>1. heap[o].cells \in Seq(Cell) /\ heap[o].len \in Nat /\ heap[o].on \in BOOLEAN
    BY HeapFacts
<1>2. /\ list \in Seq(Site) /\ DOMAIN list = 1..heap[o].len
      /\ \A j \in 1..heap[o].len : list[j] = heap[o].cells[j]
    BY <1>1, Listed DEF Sound
<1>3. ASSUME NEW i \in DOMAIN list, NEW j \in DOMAIN list, list[i].id = list[j].id
      PROVE  i = j
    <2>1. i \in (1..heap[o].len) \ {0} /\ j \in (1..heap[o].len) \ {0}
        BY <1>1, <1>2, <1>3
    <2>2. heap[o].cells[i].id = heap[o].cells[j].id
        BY <1>2, <1>3, <2>1
    <2> HIDE DEF list
    <2> QED BY <2>1, <2>2 DEF Sound, Slice
<1>4. Content(o) = [sites |-> list, on |-> heap[o].on]
    BY DEF Content
<1> HIDE DEF list
<1> QED BY <1>1, <1>2, <1>3, <1>4 DEF Contents

\* An object made of a readable file is sound and holds what the file holds.
LEMMA ObjectOf ==
    ASSUME NEW c \in Contents
    PROVE  /\ Object(c) \in StoreObject
           /\ Slice(Object(c).cells, Object(c).len, 0)
           /\ Object(c).len = Len(Object(c).cells)
           /\ SubSeq(Object(c).cells, 1, Object(c).len) = c.sites
           /\ Object(c).cells = c.sites /\ Object(c).on = c.on
           /\ c = [sites |-> c.sites, on |-> c.on]
           /\ c.sites \in Seq(Site)
<1>1. c.sites \in Seq(Site) /\ c.on \in BOOLEAN /\ c = [sites |-> c.sites, on |-> c.on]
    BY DEF Contents
<1>2. c.sites \in Seq(Cell)
    BY <1>1 DEF Cell
<1>3. \A i, j \in DOMAIN c.sites : c.sites[i].id = c.sites[j].id => i = j
    BY DEF Contents
<1>4. Slice(c.sites, Len(c.sites), 0)
    BY <1>1, <1>3 DEF Slice
<1>5. SubSeq(c.sites, 1, Len(c.sites)) = c.sites
    BY <1>1, SubSeqFull
<1>6. Object(c).cells = c.sites /\ Object(c).len = Len(c.sites) /\ Object(c).on = c.on
    BY DEF Object
<1>7. Object(c) \in StoreObject
    BY <1>1, <1>2 DEF Object, StoreObject
<1> QED BY <1>1, <1>4, <1>5, <1>6, <1>7

\* The blank is no site and bears no name.
LEMMA BlankIsNone ==
    /\ Blank \notin Site /\ Blank.id \notin Ids /\ Blank.url \notin Urls
    /\ Blank \in Cell /\ "none" \notin Urls /\ Blank.id = 0
BY SiteStoreAssumption DEF Blank, Site, Cell

\* Whoever lists no more sites has no more bearers of a name.
LEMMA FewerBear ==
    ASSUME NEW list \in Seq(Cell), NEW records \in SUBSET Site,
           NEW more \in Seq(Cell), NEW others \in SUBSET Site, NEW name \in Urls,
           \A j \in 1..Len(list) : list[j] # Blank => \E k \in 1..Len(more) : more[k] = list[j],
           records \subseteq others
    PROVE  Bearers(list, records, name) \subseteq Bearers(more, others, name)
<1> SUFFICES ASSUME NEW i \in Bearers(list, records, name)
             PROVE  i \in Bearers(more, others, name)
    OBVIOUS
<1>1. /\ Range(list) \subseteq Cell /\ Range(more) \subseteq Cell
      /\ \A s \in Range(list) : s # Blank => s \in Range(more)
    BY DEF Range
<1>2. PICK l \in Range(list) : l.id = i
    BY DEF Bearers
<1>3. PICK s \in Range(list) \cup records : s.id = i /\ s.url = name
    BY DEF Bearers
<1>4. s \in Site
    BY <1>1, <1>3, BlankIsNone DEF Cell
<1>5. l # Blank
    BY <1>2, <1>3, <1>4, BlankIsNone DEF Site
<1>6. l \in Range(more) /\ s \in Range(more) \cup others
    BY <1>1, <1>3, <1>4, <1>5, BlankIsNone
<1> QED BY <1>2, <1>3, <1>6 DEF Bearers

\* Only sites bear names: the blank does not.
LEMMA BearersAreIds ==
    ASSUME NEW list \in Seq(Cell), NEW records \in SUBSET Site, NEW name \in Urls
    PROVE  Bearers(list, records, name) \subseteq Ids
<1> SUFFICES ASSUME NEW i \in Bearers(list, records, name)
             PROVE  i \in Ids
    OBVIOUS
<1>1. Range(list) \subseteq Cell
    BY DEF Range
<1>2. PICK s \in Range(list) \cup records : s.id = i /\ s.url = name
    BY DEF Bearers
<1>3. s \in Site
    BY <1>1, <1>2, BlankIsNone DEF Cell
<1> QED BY <1>2, <1>3 DEF Site

----------------------------------------------------------------------------
(* Threads. *)

\* The same thread, but for what is done to its history from outside.
Follows(r, s) ==
    /\ r.at = s.at /\ r.op = s.op /\ r.id = s.id /\ r.url = s.url /\ r.pos = s.pos
    /\ r.obj = s.obj /\ r.n = s.n /\ r.seen = s.seen /\ r.fresh = s.fresh
    /\ r.want = s.want /\ r.copy = s.copy /\ r.look = s.look /\ r.was = s.was
    /\ s.touched => r.touched
    /\ s.held \subseteq r.held
    /\ s.bore \subseteq r.bore

\* Telling the readers that a site moved changes their history only.
LEMMA Touching ==
    ASSUME NEW f \in [Threads -> Thread], NEW u \in Threads
    PROVE  /\ Touched(f) \in [Threads -> Thread]
           /\ Follows(Touched(f)[u], f[u]) /\ Touched(f)[u].raced = f[u].raced
           /\ f[u].at \in {"header", "read"} /\ f[u].obj = cur /\ f[u].want = "none"
                => Touched(f)[u].touched
<1>1. ASSUME NEW r \in Thread
      PROVE  LET m == [r EXCEPT !.touched = TRUE]
             IN  m \in Thread /\ Follows(m, r) /\ m.touched /\ m.raced = r.raced
    <2> DEFINE m == [r EXCEPT !.touched = TRUE]
    <2>1. m \in Thread /\ Follows(m, r) /\ m.touched /\ m.raced = r.raced
        BY DEF Thread, Follows
    <2> QED BY <2>1
<1>2. \A r \in Thread : Follows(r, r)
    BY DEF Follows
<1> QED BY <1>1, <1>2 DEF Touched

Overtaken(r, c, b) == [r EXCEPT !.held = @ \cup {c}, !.raced = b]

\* Telling the reloads that the file was written changes their history only.
LEMMA Witnessing ==
    ASSUME NEW f \in [Threads -> Thread], NEW c \in Contents \cup {Unreadable}, NEW u \in Threads
    PROVE  /\ Witness(f, c) \in [Threads -> Thread]
           /\ Follows(Witness(f, c)[u], f[u])
           /\ f[u].at \in {"load", "swap"} =>
                c \in Witness(f, c)[u].held /\ (Witness(f, c)[u].raced <=> th[u].at = "swap")
<1>1. ASSUME NEW r \in Thread, NEW b \in BOOLEAN
      PROVE  /\ Overtaken(r, c, b) \in Thread /\ Follows(Overtaken(r, c, b), r)
             /\ c \in Overtaken(r, c, b).held /\ (Overtaken(r, c, b).raced <=> b)
    <2>1. r.held \cup {c} \in SUBSET (Contents \cup {Unreadable})
        BY DEF Thread
    <2>2. Overtaken(r, c, b) \in Thread
        BY <2>1 DEF Thread, Overtaken
    <2>3. /\ Follows(Overtaken(r, c, b), r)
          /\ c \in Overtaken(r, c, b).held /\ (Overtaken(r, c, b).raced <=> b)
        BY DEF Thread, Follows, Overtaken
    <2> QED BY <2>2, <2>3
<1>2. \A r \in Thread : Follows(r, r)
    BY DEF Follows
<1>3. \A t \in Threads : (At(t, "swap") <=> th[t].at = "swap") /\ At(t, "swap") \in BOOLEAN
    BY DEF At
<1>4. ASSUME NEW t \in Threads
      PROVE  /\ Witness(f, c)[t] \in Thread
             /\ Follows(Witness(f, c)[t], f[t])
             /\ f[t].at \in {"load", "swap"} =>
                  c \in Witness(f, c)[t].held /\ (Witness(f, c)[t].raced <=> th[t].at = "swap")
    <2>1. f[t] \in Thread
        OBVIOUS
    <2>2. CASE f[t].at \in {"load", "swap"}
        <3>1. Witness(f, c)[t] = Overtaken(f[t], c, At(t, "swap"))
            BY <2>2 DEF Witness, Overtaken
        <3> QED BY <1>1, <1>3, <2>1, <3>1
    <2>3. CASE f[t].at \notin {"load", "swap"}
        BY <1>2, <2>1, <2>3 DEF Witness
    <2> QED BY <2>2, <2>3
<1>5. Witness(f, c) \in [Threads -> Thread]
    BY <1>4 DEF Witness
<1> QED BY <1>4, <1>5

\* Telling the calls which sites have their name changes their history only.
LEMMA Hearing ==
    ASSUME NEW f \in [Threads -> Thread], NEW list \in Seq(Cell), NEW records \in SUBSET Site,
           NEW u \in Threads
    PROVE  /\ Heard(f, list, records) \in [Threads -> Thread]
           /\ Follows(Heard(f, list, records)[u], f[u])
           /\ Heard(f, list, records)[u].raced = f[u].raced
           /\ f[u].want # "none" =>
                Bearers(list, records \cup f[u].copy, f[u].want) \subseteq Heard(f, list, records)[u].bore
<1>1. \A r \in Thread : Follows(r, r)
    BY DEF Follows
<1>2. ASSUME NEW r \in Thread, r.want # "none"
      PROVE  LET more == Bearers(list, records \cup r.copy, r.want)
                 m == [r EXCEPT !.bore = @ \cup more]
             IN  m \in Thread /\ Follows(m, r) /\ more \subseteq m.bore /\ m.raced = r.raced
    <2> DEFINE more == Bearers(list, records \cup r.copy, r.want)
    <2>1. r.want \in Urls /\ r.copy \subseteq Site /\ r.bore \subseteq Ids
        BY <1>2 DEF Thread
    <2>2. more \subseteq Ids
        BY <2>1, BearersAreIds
    <2> HIDE DEF more
    <2> DEFINE m == [r EXCEPT !.bore = @ \cup more]
    <2>3. m \in Thread /\ Follows(m, r) /\ more \subseteq m.bore /\ m.raced = r.raced
        BY <2>1, <2>2 DEF Thread, Follows
    <2> QED BY <2>3 DEF more
<1>3. ASSUME NEW t \in Threads
      PROVE  /\ Heard(f, list, records)[t] \in Thread
             /\ Follows(Heard(f, list, records)[t], f[t])
             /\ Heard(f, list, records)[t].raced = f[t].raced
             /\ f[t].want # "none" =>
                  Bearers(list, records \cup f[t].copy, f[t].want)
                    \subseteq Heard(f, list, records)[t].bore
    <2>1. f[t] \in Thread
        OBVIOUS
    <2>2. CASE f[t].want # "none"
        <3>1. Heard(f, list, records)[t]
                = [f[t] EXCEPT !.bore = @ \cup Bearers(list, records \cup f[t].copy, f[t].want)]
            BY <2>2 DEF Heard
        <3> QED BY <1>2, <2>1, <2>2, <3>1
    <2>3. CASE f[t].want = "none"
        BY <1>1, <2>1, <2>3 DEF Heard
    <2> QED BY <2>2, <2>3
<1>4. Heard(f, list, records) \in [Threads -> Thread]
    BY <1>3 DEF Heard
<1> QED BY <1>3, <1>4

----------------------------------------------------------------------------
(* What a step of one thread leaves of the others. *)

Others(t) ==
    /\ th' \in [Threads -> Thread]
    /\ \A u \in Threads \ {t} : Follows(th'[u], th[u])

Holding == {"shift", "cut", "save"}

\* The lock goes from free to a thread or back, and with it who may change the store.
LEMMA KeepLocked ==
    ASSUME Locked, lock \in Threads \cup {"free"}, NEW t \in Threads, Others(t),
           lock' = lock \/ (lock \in {"free", t} /\ lock' \in {"free", t}),
           th'[t].at \in Holding <=> lock' = t
    PROVE  Locked' /\ lock' \in Threads \cup {"free"}
BY SiteStoreAssumption DEF Locked, Others, Follows, Holding

\* While a thread changes the store, or the store is free, no other one is deleting.
LEMMA OneDeletes ==
    ASSUME Locked, NEW t \in Threads, lock \in {"free", t}
    PROVE  \A u \in Threads \ {t} : th[u].at \notin Holding
BY SiteStoreAssumption DEF Locked, Holding

\* The others still have room for what they read, where no array got shorter.
LEMMA KeepReads ==
    ASSUME Heaped, Heaped', Threaded, EachReads, NEW t \in Threads, Others(t), Reads(th[t])',
           cur <= cur', \A o \in 1..cur : Len(heap[o].cells) <= Len(heap'[o].cells)
    PROVE  EachReads'
<1> SUFFICES ASSUME NEW u \in Threads \ {t}
             PROVE  Reads(th[u])'
    BY DEF EachReads
<1>1. Reads(th[u]) /\ Follows(th'[u], th[u]) /\ th[u] \in Thread
    BY DEF EachReads, Others, Threaded
<1>2. th[u].obj \in Nat \ {0} /\ th[u].n \in Nat /\ th[u].seen \in Seq(Cell)
    BY <1>1 DEF Thread
<1>3. cur \in Nat /\ cur' \in Nat
    BY DEF Heaped, cur
<1>4. th[u].obj \in 1..cur /\ th'[u].obj <= cur'
    BY <1>1, <1>2, <1>3 DEF Reads, Follows
<1>5. Len(heap[th[u].obj].cells) \in Nat /\ Len(heap'[th[u].obj].cells) \in Nat
    <2>1. heap[th[u].obj] \in StoreObject /\ heap'[th[u].obj] \in StoreObject
        BY <1>3, <1>4, <1>1 DEF Heaped, cur, Follows
    <2> QED BY <2>1 DEF StoreObject
<1>6. Len(heap[th[u].obj].cells) <= Len(heap'[th[u].obj].cells)
    BY <1>4
<1>7. /\ th'[u].obj = th[u].obj /\ th'[u].seen = th[u].seen /\ th'[u].n = th[u].n
      /\ th'[u].at = th[u].at
    BY <1>1 DEF Follows
<1>8. /\ th[u].at \in {"copy", "get", "header"} => th[u].seen = <<>>
      /\ th[u].at = "wait" => th[u].obj = 1
    BY <1>1 DEF Reads
<1>9. th[u].at = "read" => th[u].n <= Len(heap'[th[u].obj].cells) /\ Len(th[u].seen) < th[u].n
    <2>1. th[u].at = "read" => th[u].n <= Len(heap[th[u].obj].cells) /\ Len(th[u].seen) < th[u].n
        BY <1>1 DEF Reads
    <2> DEFINE n == th[u].n
               a == Len(heap[th[u].obj].cells)
               b == Len(heap'[th[u].obj].cells)
    <2>2. n \in Nat /\ a \in Nat /\ b \in Nat /\ a <= b
        BY <1>2, <1>5, <1>6
    <2>3. th[u].at = "read" => n <= a
        BY <2>1
    <2> HIDE DEF n, a, b
    <2>4. th[u].at = "read" => n <= b
        BY <2>2, <2>3
    <2> QED BY <2>1, <2>4 DEF n, b
<1> QED BY <1>4, <1>7, <1>8, <1>9 DEF Reads

\* The slice that grew at its end, or did not change.
GrownAtEnd(o) ==
    /\ heap[o].len <= heap'[o].len
    /\ \A j \in 1..heap[o].len : heap'[o].cells[j] = heap[o].cells[j]
    /\ \A j \in 1..heap'[o].len : heap'[o].cells[j] \in Site
    /\ Sound(o)

\* An undisturbed reader keeps what it was promised: a slice it reads is as it was, or
\* has grown at its end.
LEMMA KeepQuiet ==
    ASSUME Heaped, Heaped', Threaded, EachReads, EachQuiet, NEW t \in Threads, Others(t),
           Quiet(th[t])', cur <= cur',
           \A u \in Threads \ {t} :
             \/ th'[u].touched
             \/ th[u].want # "none"
             \/ th[u].at \notin {"header", "read"}
             \/ heap'[th[u].obj].cells = heap[th[u].obj].cells
                  /\ heap'[th[u].obj].len = heap[th[u].obj].len
             \/ GrownAtEnd(th[u].obj)
    PROVE  EachQuiet'
<1> SUFFICES ASSUME NEW u \in Threads \ {t}
             PROVE  Quiet(th[u])'
    BY DEF EachQuiet
<1>1. /\ Quiet(th[u]) /\ Reads(th[u]) /\ Follows(th'[u], th[u])
      /\ th[u] \in Thread /\ th'[u] \in Thread
    BY DEF EachReads, EachQuiet, Others, Threaded
<1>2. th[u].touched => th'[u].touched
    BY <1>1 DEF Follows
<1>3. CASE th'[u].touched \/ th[u].want # "none" \/ th[u].at \notin {"header", "read"}
    BY <1>1, <1>3 DEF Quiet, Follows
<1>4. CASE /\ heap'[th[u].obj].cells = heap[th[u].obj].cells
           /\ heap'[th[u].obj].len = heap[th[u].obj].len
    BY <1>1, <1>4 DEF Quiet, Follows
<1>5. CASE GrownAtEnd(th[u].obj) /\ ~th'[u].touched /\ th[u].want = "none" /\ th[u].at \in {"header", "read"}
    <2> DEFINE o == th[u].obj
    <2>1. cur \in Nat /\ cur' \in Nat /\ o \in 1..cur
        BY <1>1 DEF Heaped, cur, Reads, Thread
    <2>2. heap[o].cells \in Seq(Cell) /\ heap[o].len \in Nat /\ Len(heap[o].cells) \in Nat
        BY <2>1, HeapFacts
    <2>3. th'[u].obj = o /\ th'[u].n = th[u].n /\ th'[u].seen = th[u].seen /\ th'[u].was = th[u].was
          /\ th'[u].at = th[u].at /\ th[u].n \in Nat
        BY <1>1 DEF Follows, Thread
    <2>4. CASE th[u].at = "header"
        <3>1. /\ \A j \in 1..heap'[o].len : heap'[o].cells[j] \in Site
              /\ heap[o].len <= heap'[o].len
              /\ \A j \in 1..heap[o].len : heap'[o].cells[j] = heap[o].cells[j]
            BY <1>5 DEF GrownAtEnd
        <3>2. \A s \in th[u].was : \E j \in 1..heap[o].len : heap[o].cells[j] = s
            BY <1>1, <1>2, <1>5, <2>4 DEF Quiet
        <3>2a. heap'[o].len \in Nat
            <4>1. heap' \in Seq(StoreObject) /\ cur' = Len(heap')
                BY DEF Heaped, cur
            <4>2. o \in 1..Len(heap')
                BY <2>1, <4>1
            <4> HIDE DEF o
            <4> QED BY <4>1, <4>2, ObjectFacts
        <3>3. \A s \in th[u].was : \E j \in 1..heap'[o].len : heap'[o].cells[j] = s
            BY <2>2, <3>1, <3>2, <3>2a
        <3> QED BY <2>3, <2>4, <3>1, <3>3 DEF Quiet
    <2>5. CASE th[u].at = "read"
        <3>1. /\ \A j \in 1..th[u].n : heap[o].cells[j] \in Site
              /\ \A s \in th[u].was : \E j \in 1..th[u].n : heap[o].cells[j] = s
              /\ \A j \in 1..Len(th[u].seen) : th[u].seen[j] = heap[o].cells[j]
            BY <1>1, <1>2, <1>5, <2>5 DEF Quiet
        <3>2. th[u].n <= Len(heap[o].cells) /\ Len(th[u].seen) < th[u].n /\ Len(th[u].seen) \in Nat
            BY <1>1, <2>5 DEF Reads, Thread
        <3>3. th[u].n <= heap[o].len
            <4>1. th[u].n > heap[o].len => heap[o].cells[th[u].n] = Blank
                BY <1>5, <2>2, <2>3, <3>2 DEF GrownAtEnd, Sound, Slice
            <4>2. heap[o].cells[th[u].n] # Blank
                BY <2>3, <3>1, <3>2, BlankIsNone
            <4> QED BY <2>2, <2>3, <4>1, <4>2
        <3>4. \A j \in 1..th[u].n : heap'[o].cells[j] = heap[o].cells[j]
            BY <1>5, <2>2, <2>3, <3>3 DEF GrownAtEnd
        <3>5. \A j \in 1..Len(th[u].seen) : j \in 1..th[u].n
            BY <2>3, <3>2
        <3> QED BY <2>3, <2>5, <3>1, <3>4, <3>5 DEF Quiet
    <2> QED BY <1>5, <2>4, <2>5
<1> QED BY <1>3, <1>4, <1>5

\* A reload under way is overtaken by nothing while the file stays.
LEMMA KeepLoads ==
    ASSUME Threaded, EachLoads, NEW t \in Threads, Others(t), Loads(th[t])',
           file' = file, \A u \in Threads \ {t} : th'[u].raced = th[u].raced
    PROVE  EachLoads'
<1> SUFFICES ASSUME NEW u \in Threads \ {t}
             PROVE  Loads(th[u])'
    BY DEF EachLoads
<1>1. Loads(th[u]) /\ Follows(th'[u], th[u]) /\ th'[u].raced = th[u].raced
    BY DEF EachLoads, Others
<1> QED BY <1>1 DEF Loads, Follows

\* A call still takes a bearer of its name only, if it heard of the new ones.
LEMMA KeepBorne ==
    ASSUME Heaped, Heaped', Threaded, EachReads, EachBorne, NEW t \in Threads, Others(t),
           Borne(th[t])', rows \in SUBSET Site, rows' \in SUBSET Site,
           \A u \in Threads \ {t} : th[u].want # "none" =>
             Bearers(heap'[cur'].cells, rows' \cup th[u].copy, th[u].want) \subseteq th'[u].bore,
           \A o \in 1..cur : heap'[o].cells = heap[o].cells \/ (o = cur /\ cur' = cur)
    PROVE  EachBorne'
<1> SUFFICES ASSUME NEW u \in Threads \ {t}, th'[u].want # "none"
             PROVE  Borne(th[u])'
    BY DEF EachBorne, Borne
<1>1. /\ Borne(th[u]) /\ Reads(th[u]) /\ Follows(th'[u], th[u])
      /\ th[u] \in Thread /\ th'[u] \in Thread
    BY DEF EachReads, EachBorne, Others, Threaded
<1>2. th'[u].want = th[u].want /\ th[u].want \in Urls /\ th[u].bore \subseteq th'[u].bore
      /\ th'[u].copy = th[u].copy /\ th[u].copy \in SUBSET Site /\ th'[u].at = th[u].at
      /\ th'[u].obj = th[u].obj /\ th'[u].seen = th[u].seen /\ th'[u].id = th[u].id
    BY <1>1 DEF Follows, Thread
<1>3. Bearers(heap'[cur'].cells, rows' \cup th[u].copy, th[u].want) \subseteq th'[u].bore
    BY <1>2
<1>4. /\ Bearers(th[u].seen, th[u].copy, th[u].want) \subseteq th'[u].bore
      /\ th[u].at \in {"wait", "shift", "cut", "save", "forget"} => th[u].id \in th'[u].bore
    BY <1>1, <1>2 DEF Borne
<1>5. ASSUME th[u].at \in {"header", "read"}
      PROVE  Bearers(heap'[th[u].obj].cells, th[u].copy, th[u].want) \subseteq th'[u].bore
    <2>1. cur \in Nat /\ cur' \in Nat /\ cur' > 0 /\ th[u].obj \in 1..cur
        BY <1>1 DEF Heaped, cur, Reads, Thread
    <2>2. CASE heap'[th[u].obj].cells = heap[th[u].obj].cells
        BY <1>1, <1>2, <1>5, <2>2 DEF Borne
    <2>3. CASE th[u].obj = cur /\ cur' = cur
        <3>1. heap'[cur'].cells \in Seq(Cell)
            <4>1. heap' \in Seq(StoreObject) /\ cur' \in 1..Len(heap')
                BY <2>1 DEF Heaped, cur
            <4> QED BY <4>1, ObjectFacts
        <3>1a. rows' \cup th[u].copy \in SUBSET Site /\ th[u].copy \subseteq rows' \cup th[u].copy
            BY <1>2
        <3>2. Bearers(heap'[cur'].cells, th[u].copy, th[u].want)
                \subseteq Bearers(heap'[cur'].cells, rows' \cup th[u].copy, th[u].want)
            BY <3>1a DEF Bearers
        <3> QED BY <1>3, <2>3, <3>2
    <2> QED BY <2>1, <2>2, <2>3
<1> QED BY <1>2, <1>3, <1>4, <1>5 DEF Borne

----------------------------------------------------------------------------
(* Steps that change one thread and nothing that others look at. *)

Quieter(t, new) ==
    /\ new \in Thread
    /\ th' = [th EXCEPT ![t] = new]
    /\ heap' = heap /\ file' = file /\ used' = used /\ drift' = drift
    /\ rows' \subseteq rows
    /\ lock' = lock \/ (lock = "free" /\ lock' = t)
    /\ jobs' \in 0..MaxJobs /\ faults' \in 0..MaxFaults
    /\ new.at \in Holding <=> lock' = t
    /\ th[t].at \notin {"shift", "cut"}
    /\ Deleting(new) /\ Reads(new) /\ Quiet(new) /\ Loads(new) /\ Borne(new)

\* Such a step keeps the invariant.
LEMMA QuieterStep ==
    ASSUME IInv, NEW t \in Threads, NEW new, Quieter(t, new)
    PROVE  IInv'
<1> USE DEF IInv
<1>1. Others(t) /\ th'[t] = new /\ \A u \in Threads \ {t} : th'[u] = th[u]
    BY DEF Quieter, Others, Follows, Threaded
<1>2. Heaped' /\ cur' = cur
    BY DEF Quieter, Heaped, cur
<1>3. Records'
    BY DEF Quieter, Records
<1>4. Locked' /\ lock' \in Threads \cup {"free"}
    BY <1>1, KeepLocked DEF Quieter, Numbers
<1>5. Numbers'
    BY <1>4 DEF Quieter, Numbers
<1>6. Threaded'
    BY <1>1 DEF Others, Threaded
<1>7. Slices'
    <2>1. \A o \in 1..cur :
            o # cur \/ (\A u \in Threads : th'[u].at \notin {"shift", "cut"}) => Sound(o)
        BY <1>1 DEF Quieter, Slices
    <2>2. \A o : Sound(o)' <=> Sound(o)
        BY DEF Sound, Quieter
    <2>3. \A u \in Threads : Deleting(th[u])'
        BY <1>1, <1>2 DEF Quieter, Slices, Deleting
    <2>4. \A o \in 1..cur : heap'[o].len <= Len(heap'[o].cells)
        BY DEF Quieter, Slices
    <2> QED BY <1>2, <2>1, <2>2, <2>3, <2>4 DEF Slices
<1>8. Minted'
    BY <1>2 DEF Quieter, Minted
<1>9. EachReads'
    BY <1>1, <1>2 DEF Quieter, EachReads, Reads
<1>10. EachQuiet'
    BY <1>1 DEF Quieter, EachQuiet, Quiet
<1>11. EachLoads'
    BY <1>1 DEF Quieter, EachLoads, Loads
<1>12. EachBorne'
    <2> SUFFICES ASSUME NEW u \in Threads
                 PROVE  Borne(th[u])'
        BY DEF EachBorne
    <2>1. Borne(th'[u])
        BY <1>1 DEF Quieter, EachBorne
    <2>2. \A list : \A r \in Thread :
            Bearers(list, rows' \cup r.copy, r.want) \subseteq Bearers(list, rows \cup r.copy, r.want)
        BY DEF Quieter, Bearers
    <2>3. th'[u] \in Thread
        BY <1>1 DEF Others
    <2>4. th'[u].want # "none" =>
            Bearers(heap[cur].cells, rows' \cup th'[u].copy, th'[u].want) \subseteq th'[u].bore
        BY <2>1, <2>2, <2>3 DEF Borne
    <2>5. heap' = heap
        BY DEF Quieter
    <2> QED BY <1>2, <2>1, <2>4, <2>5 DEF Borne
<1>13. DriftHasCause'
    BY SiteStoreAssumption DEF Quieter, DriftHasCause, Content, cur
<1> QED BY <1>2, <1>3, <1>4, <1>5, <1>6, <1>7, <1>8, <1>9, <1>10, <1>11, <1>12, <1>13

----------------------------------------------------------------------------
(* Those steps. *)

\* A thread that does nothing satisfies every part of the invariant.
LEMMA IdleFits ==
    ASSUME Heaped
    PROVE  /\ Idle \in Thread /\ Idle.at = "idle" /\ Idle.want = "none"
           /\ Deleting(Idle) /\ Reads(Idle) /\ Quiet(Idle) /\ Loads(Idle) /\ Borne(Idle)
<1>1. <<>> \in Seq(Cell)
    OBVIOUS
<1>2. Idle \in Thread
    BY <1>1 DEF Idle, Thread, Places, Ops, Looks
<1>3. 1 <= cur
    BY HeapFacts
<1> QED BY <1>2, <1>3 DEF Idle, Deleting, Reads, Quiet, Loads, Borne

\* A request that comes in is counted, and its thread had nothing to do.
LEMMA JobCounts ==
    ASSUME Numbers, NEW t \in Threads, Job(t)
    PROVE  jobs' \in 0..MaxJobs /\ th[t].at \in {"idle", "done"} /\ th[t].want = "none"
BY SiteStoreAssumption DEF Numbers, Job, Free, Calling

\* A request that ends without a change keeps the invariant.
LEMMA Refusing ==
    ASSUME IInv, NEW t \in Threads, th' = [th EXCEPT ![t] = Idle],
           th[t].at \notin Holding, UNCHANGED <<heap, lock, file, used, drift>>,
           rows' \subseteq rows, jobs' \in 0..MaxJobs, faults' = faults
    PROVE  IInv'
<1>1. ~ (lock' = t)
    BY DEF IInv, Locked, Holding
<1>2. Quieter(t, Idle)
    BY <1>1, IdleFits DEF IInv, Numbers, Quieter, Holding
<1> QED BY <1>2, QuieterStep

\* Dropping the record of a removed site keeps the invariant.
LEMMA ForgetStep ==
    ASSUME IInv, NEW t \in Threads, Forget(t)
    PROVE  IInv'
BY Refusing DEF Forget, At, Holding, IInv, Numbers

\* A reload that begins has seen what the file holds now.
LEMMA ReloadStep ==
    ASSUME IInv, NEW t \in Threads, Reload(t)
    PROVE  IInv'
<1> DEFINE new == [Idle EXCEPT !.at = "load", !.held = {file}]
<1>1. Idle \in Thread /\ file \in Contents \cup {Unreadable}
    BY IdleFits DEF IInv, Numbers
<1>2. new \in Thread /\ new.at = "load" /\ new.held = {file} /\ new.want = "none" /\ new.obj = 1
    BY <1>1 DEF Thread, Idle, Places
<1>3. th' = [th EXCEPT ![t] = new]
    BY DEF Reload
<1> HIDE DEF new
<1>4. Deleting(new) /\ Reads(new) /\ Quiet(new) /\ Loads(new) /\ Borne(new)
    <2>1. 1 <= cur
        BY HeapFacts DEF IInv
    <2> QED BY <1>2, <2>1 DEF Deleting, Reads, Quiet, Loads, Borne
<1>5. ~ (lock' = t)
    BY JobCounts DEF Reload, IInv, Locked
<1>6. Quieter(t, new)
    BY <1>2, <1>3, <1>4, <1>5, JobCounts DEF Reload, Quieter, IInv, Numbers, Holding
<1> QED BY <1>6, QuieterStep

\* What a reload reads is among what the file held.
LEMMA LoadStep ==
    ASSUME IInv, NEW t \in Threads, Load(t)
    PROVE  IInv'
<1>1. CASE file = Unreadable
    <2>1. th' = [th EXCEPT ![t] = Idle]
        BY <1>1 DEF Load
    <2> QED BY <2>1, Refusing DEF Load, At, Holding, IInv, Numbers
<1>2. CASE file # Unreadable
    <2> DEFINE new == [th[t] EXCEPT !.at = "swap", !.fresh = file]
    <2>1. /\ th[t] \in Thread /\ th[t].at = "load" /\ file \in Contents \cup {Unreadable}
          /\ Reads(th[t]) /\ Loads(th[t]) /\ Borne(th[t])
        BY DEF Load, At, IInv, Threaded, Numbers, EachReads, EachLoads, EachBorne
    <2>2. /\ new \in Thread /\ new.at = "swap" /\ new.held = th[t].held /\ new.fresh = file
          /\ new.want = th[t].want /\ new.obj = th[t].obj /\ new.copy = th[t].copy
          /\ new.seen = th[t].seen /\ new.bore = th[t].bore
        BY <2>1 DEF Thread, Places
    <2>3. th' = [th EXCEPT ![t] = new]
        BY <1>2 DEF Load
    <2> HIDE DEF new
    <2>4. Deleting(new) /\ Reads(new) /\ Quiet(new) /\ Loads(new) /\ Borne(new)
        BY <1>2, <2>1, <2>2 DEF Deleting, Reads, Quiet, Loads, Borne
    <2>5. ~ (lock' = t)
        BY <2>1 DEF Load, IInv, Locked
    <2>6. Quieter(t, new)
        BY <2>1, <2>2, <2>3, <2>4, <2>5 DEF Load, Quieter, IInv, Numbers, Holding
    <2> QED BY <2>6, QuieterStep
<1> QED BY <1>1, <1>2

\* A store that nobody holds is sound.
LEMMA FreeIsSound ==
    ASSUME IInv, lock = "free"
    PROVE  /\ Sound(cur) /\ Content(cur) \in Contents
           /\ \A u \in Threads : th[u].at \notin Holding
           /\ Content(cur).sites \in Seq(Site) /\ Len(Content(cur).sites) = heap[cur].len
           /\ \A j \in 1..heap[cur].len : Content(cur).sites[j] = heap[cur].cells[j]
           /\ Range(Content(cur).sites) = {heap[cur].cells[j] : j \in 1..heap[cur].len}
<1>1. \A u \in Threads : th[u].at \notin Holding
    BY SiteStoreAssumption DEF IInv, Locked, Holding
<1>2. cur \in 1..cur
    BY HeapFacts DEF IInv
<1>3. Sound(cur)
    BY <1>1, <1>2 DEF IInv, Slices, Holding
<1>4. Content(cur).sites = SubSeq(heap[cur].cells, 1, heap[cur].len)
    BY DEF Content
<1>5. heap[cur].cells \in Seq(Cell) /\ heap[cur].len \in Nat
    BY <1>2, HeapFacts DEF IInv
<1>6. Content(cur) \in Contents
    BY <1>2, <1>3, SoundContent DEF IInv
<1>7. /\ Len(SubSeq(heap[cur].cells, 1, heap[cur].len)) = heap[cur].len
      /\ SubSeq(heap[cur].cells, 1, heap[cur].len) \in Seq(Site)
      /\ \A j \in 1..heap[cur].len :
            SubSeq(heap[cur].cells, 1, heap[cur].len)[j] = heap[cur].cells[j]
      /\ Range(SubSeq(heap[cur].cells, 1, heap[cur].len))
            = {heap[cur].cells[j] : j \in 1..heap[cur].len}
    <2>1. Slice(heap[cur].cells, heap[cur].len, 0)
        BY <1>3 DEF Sound
    <2> QED BY <1>5, <2>1, Listed, SMTT(60)
<1> QED BY <1>1, <1>3, <1>4, <1>6, <1>7

\* A reader begins with the sites of a store nobody is changing.
LEMMA GetStep ==
    ASSUME IInv, NEW t \in Threads, Get(t)
    PROVE  IInv'
<1>1. lock = "free" /\ Sound(cur) /\ th[t].at \notin Holding
    BY FreeIsSound DEF Get
<1>2. cur \in Nat \ {0} /\ heap[cur].cells \in Seq(Cell) /\ heap[cur].len \in Nat
    BY HeapFacts DEF IInv
<1>3. jobs' \in 0..MaxJobs
    BY JobCounts DEF Get, IInv, Numbers
<1>4. ASSUME NEW new \in Thread, th' = [th EXCEPT ![t] = new], new.at = "header",
             Reads(new), Quiet(new), Borne(new)
      PROVE  IInv'
    <2>1. ~ (lock' = t)
        BY <1>1, SiteStoreAssumption DEF Get
    <2>2. Deleting(new) /\ Loads(new)
        BY <1>4 DEF Deleting, Loads
    <2>3. Quieter(t, new)
        BY <1>1, <1>3, <1>4, <2>1, <2>2 DEF Get, Quieter, IInv, Numbers, Holding
    <2> QED BY <2>3, QuieterStep
<1>5. CASE Calling(t)
    <2> DEFINE new == [th[t] EXCEPT !.at = "header", !.obj = cur]
    <2>1. th[t].at = "get" /\ th[t].want # "none"
        BY <1>5 DEF Get, Calling, Job, Free, At
    <2>2. th[t] \in Thread /\ Reads(th[t]) /\ Borne(th[t])
        BY DEF IInv, Threaded, EachReads, EachBorne
    <2>3. /\ new \in Thread /\ new.at = "header" /\ new.obj = cur /\ new.seen = th[t].seen
          /\ new.want = th[t].want /\ new.copy = th[t].copy /\ new.bore = th[t].bore
        BY <1>2, <2>2 DEF Thread, Places
    <2>4. th' = [th EXCEPT ![t] = new]
        BY <1>5 DEF Get
    <2> HIDE DEF new
    <2>5. Reads(new)
        BY <1>2, <2>1, <2>2, <2>3 DEF Reads
    <2>6. Quiet(new)
        BY <2>1, <2>3 DEF Quiet
    <2>7. Bearers(heap[cur].cells, th[t].copy, th[t].want)
            \subseteq Bearers(heap[cur].cells, rows \cup th[t].copy, th[t].want)
        BY DEF Bearers
    <2>8. Borne(new)
        BY <2>1, <2>2, <2>3, <2>7 DEF Borne
    <2> QED BY <1>4, <2>3, <2>4, <2>5, <2>6, <2>8
<1>6. CASE ~Calling(t)
    <2> DEFINE list == Range(Content(cur).sites)
               new == [Idle EXCEPT !.at = "header", !.obj = cur, !.was = list]
    <2>1. list = {heap[cur].cells[j] : j \in 1..heap[cur].len}
        BY <1>1, FreeIsSound
    <2>1a. \A j \in 1..heap[cur].len : heap[cur].cells[j] \in Site
        BY <1>1, <1>2 DEF Sound, Slice
    <2>2. list \in SUBSET Site
        BY <2>1, <2>1a
    <2>3. th' = [th EXCEPT ![t] = new]
        BY <1>6 DEF Get
    <2> HIDE DEF list
    <2>4. Idle \in Thread
        BY IdleFits DEF IInv
    <2>5. /\ new \in Thread /\ new.at = "header" /\ new.obj = cur /\ new.seen = <<>>
          /\ new.want = "none" /\ new.was = list
        BY <1>2, <2>2, <2>4 DEF Thread, Places, Idle
    <2> HIDE DEF new
    <2>6. Reads(new)
        BY <1>2, <2>5 DEF Reads
    <2>7. Quiet(new)
        BY <2>1, <2>1a, <2>5 DEF Quiet
    <2>8. Borne(new)
        BY <2>5 DEF Borne
    <2> QED BY <1>4, <2>3, <2>5, <2>6, <2>7, <2>8
<1> QED BY <1>5, <1>6

\* A reader takes the length of the slice as it is when the iteration starts.
LEMMA HeaderStep ==
    ASSUME IInv, NEW t \in Threads, Header(t)
    PROVE  IInv'
<1> DEFINE o == th[t].obj
           next == IF heap[o].len = 0 THEN "done" ELSE "read"
           new == [th[t] EXCEPT !.at = next, !.n = heap[o].len]
<1>1. /\ th[t] \in Thread /\ th[t].at = "header"
      /\ Reads(th[t]) /\ Quiet(th[t]) /\ Borne(th[t])
    BY DEF Header, At, IInv, Threaded, EachReads, EachQuiet, EachBorne
<1>2. o \in 1..cur
    BY <1>1, HeapFacts DEF IInv, Reads, Thread
<1>3. /\ heap[o].len \in Nat /\ heap[o].cells \in Seq(Cell)
      /\ Len(heap[o].cells) \in Nat /\ heap[o].len <= Len(heap[o].cells)
    BY <1>2, HeapFacts DEF IInv, Slices
<1>3a. next \in Places /\ next \in {"done", "read"} /\ (next = "done" <=> heap[o].len = 0)
    BY DEF Places
<1>5. th' = [th EXCEPT ![t] = new]
    BY DEF Header
<1> HIDE DEF next
<1>4. /\ new \in Thread /\ new.at = next
      /\ new.n = heap[o].len /\ new.obj = o /\ new.seen = th[t].seen /\ new.was = th[t].was
      /\ new.want = th[t].want /\ new.copy = th[t].copy /\ new.bore = th[t].bore
      /\ new.touched = th[t].touched
    BY <1>1, <1>3, <1>3a DEF Thread
<1>6. new.seen = <<>>
    BY <1>1, <1>4 DEF Reads
<1> HIDE DEF new
<1>7. Reads(new)
    BY <1>1, <1>2, <1>3, <1>3a, <1>4, <1>6 DEF Reads
<1>8. Quiet(new)
    BY <1>1, <1>3, <1>3a, <1>4, <1>6 DEF Quiet
<1>9. Borne(new)
    BY <1>1, <1>3a, <1>4 DEF Borne
<1>10. Deleting(new) /\ Loads(new)
    BY <1>3a, <1>4 DEF Deleting, Loads
<1>11. ~ (lock' = t)
    BY <1>1 DEF Header, IInv, Locked
<1>12. Quieter(t, new)
    BY <1>1, <1>3a, <1>4, <1>5, <1>7, <1>8, <1>9, <1>10, <1>11 DEF Header, Quieter, IInv, Numbers, Holding
<1> QED BY <1>12, QuieterStep

\* An undisturbed reader that reads one more cell has the prefix of the slice.
LEMMA ReadCellStep ==
    ASSUME IInv, NEW t \in Threads, ReadCell(t)
    PROVE  IInv'
<1> DEFINE o == th[t].obj
           i == Len(th[t].seen) + 1
           cell == heap[o].cells[i]
           next == IF i = th[t].n THEN "done" ELSE "read"
           seen == Append(th[t].seen, cell)
           new == [th[t] EXCEPT !.seen = seen, !.at = next]
<1>1. /\ th[t] \in Thread /\ th[t].at = "read"
      /\ Reads(th[t]) /\ Quiet(th[t]) /\ Borne(th[t])
    BY DEF ReadCell, At, IInv, Threaded, EachReads, EachQuiet, EachBorne
<1>2. o \in 1..cur
    BY <1>1, HeapFacts DEF IInv, Reads, Thread
<1>3. th[t].seen \in Seq(Cell) /\ th[t].n \in Nat /\ i \in Nat \ {0} /\ Len(th[t].seen) \in Nat
    BY <1>1 DEF Thread
<1>4. heap[o].cells \in Seq(Cell) /\ Len(heap[o].cells) \in Nat
    BY <1>2, HeapFacts DEF IInv
<1>5. i <= th[t].n /\ th[t].n <= Len(heap[o].cells) /\ i \in 1..Len(heap[o].cells)
    <2> DEFINE k == Len(th[t].seen)
               n == th[t].n
               top == Len(heap[o].cells)
    <2>1. k \in Nat /\ n \in Nat /\ top \in Nat /\ i = k + 1
        BY <1>3, <1>4
    <2>2. k < n /\ n <= top
        BY <1>1 DEF Reads
    <2> HIDE DEF k, n, top, i
    <2>3. i <= n /\ n <= top /\ i \in 1..top
        BY <2>1, <2>2
    <2> QED BY <2>3 DEF n, top
<1>6. cell \in Cell
    BY <1>4, <1>5
<1>7. /\ seen \in Seq(Cell) /\ Len(seen) = i
      /\ \A j \in 1..Len(th[t].seen) : seen[j] = th[t].seen[j]
      /\ seen[i] = cell
    BY <1>3, <1>6
<1>8. next \in Places /\ next \in {"done", "read"} /\ (next = "done" <=> i = th[t].n)
    BY DEF Places
<1>9. th' = [th EXCEPT ![t] = new]
    BY DEF ReadCell
<1> HIDE DEF next, seen
<1>10. /\ new \in Thread /\ new.at = next /\ new.seen = seen
       /\ new.n = th[t].n /\ new.obj = o /\ new.was = th[t].was
       /\ new.want = th[t].want /\ new.copy = th[t].copy /\ new.bore = th[t].bore
       /\ new.touched = th[t].touched
    BY <1>1, <1>7, <1>8 DEF Thread
<1> HIDE DEF new
<1>11. Reads(new)
    <2>1. next = "read" => Len(seen) < th[t].n
        BY <1>3, <1>5, <1>7, <1>8
    <2> QED BY <1>1, <1>2, <1>5, <1>8, <1>10, <2>1 DEF Reads
<1>12. Quiet(new)
    <2> SUFFICES ASSUME th[t].want = "none", ~th[t].touched
                 PROVE  Quiet(new)
        BY <1>10 DEF Quiet
    <2>1. /\ \A j \in 1..th[t].n : heap[o].cells[j] \in Site
          /\ \A s \in th[t].was : \E j \in 1..th[t].n : heap[o].cells[j] = s
          /\ \A j \in 1..Len(th[t].seen) : th[t].seen[j] = heap[o].cells[j]
        BY <1>1 DEF Quiet
    <2>2. \A j \in 1..Len(seen) : seen[j] = heap[o].cells[j]
        BY <1>3, <1>7, <2>1
    <2>3. CASE next = "read"
        BY <1>10, <2>1, <2>2, <2>3 DEF Quiet
    <2>4. CASE next = "done"
        <3>1. Len(seen) = th[t].n
            BY <1>7, <1>8, <2>4
        <3>2. \A j \in 1..Len(seen) : seen[j] \in Site
            BY <2>1, <2>2, <3>1
        <3>3. \A s \in th[t].was : \E j \in 1..Len(seen) : seen[j] = s
            BY <2>1, <2>2, <3>1
        <3> QED BY <1>10, <2>4, <3>2, <3>3 DEF Quiet
    <2> QED BY <1>8, <2>3, <2>4
<1>13. Borne(new)
    <2> SUFFICES ASSUME th[t].want # "none"
                 PROVE  Bearers(seen, th[t].copy, th[t].want) \subseteq th[t].bore
        BY <1>1, <1>8, <1>10 DEF Borne
    <2>1. /\ Bearers(heap[o].cells, th[t].copy, th[t].want) \subseteq th[t].bore
          /\ Bearers(th[t].seen, th[t].copy, th[t].want) \subseteq th[t].bore
        BY <1>1 DEF Borne
    <2>2. /\ Range(seen) \subseteq Range(th[t].seen) \cup {cell}
          /\ cell \in Range(heap[o].cells)
        <3>1. DOMAIN seen = 1..i /\ DOMAIN th[t].seen = 1..Len(th[t].seen)
            BY <1>3, <1>7
        <3>2. \A j \in 1..i : j = i \/ j \in 1..Len(th[t].seen)
            BY <1>3
        <3>3. \A j \in DOMAIN seen : seen[j] = cell \/ seen[j] \in Range(th[t].seen)
            BY <1>7, <3>1, <3>2 DEF Range
        <3>4. cell \in Range(heap[o].cells)
            BY <1>4, <1>5 DEF Range
        <3> QED BY <3>3, <3>4 DEF Range
    <2> HIDE DEF cell, i
    <2>3. Bearers(seen, th[t].copy, th[t].want) \subseteq
            Bearers(heap[o].cells, th[t].copy, th[t].want) \cup Bearers(th[t].seen, th[t].copy, th[t].want)
        BY <2>2 DEF Bearers
    <2> QED BY <2>1, <2>3
<1>14. Deleting(new) /\ Loads(new)
    BY <1>8, <1>10 DEF Deleting, Loads
<1>15. ~ (lock' = t)
    BY <1>1 DEF ReadCell, IInv, Locked
<1>16. Quieter(t, new)
    BY <1>1, <1>8, <1>9, <1>10, <1>11, <1>12, <1>13, <1>14, <1>15
       DEF ReadCell, Quieter, IInv, Numbers, Holding
<1> QED BY <1>16, QuieterStep

\* Behind the length of the store there are no sites, however far a deletion is.
LEMMA BlankBehind ==
    ASSUME IInv
    PROVE  /\ cur \in 1..cur /\ heap[cur].cells \in Seq(Cell) /\ heap[cur].len \in Nat
           /\ heap[cur].len <= Len(heap[cur].cells)
           /\ \A j \in 1..Len(heap[cur].cells) : j > heap[cur].len => heap[cur].cells[j] = Blank
<1>1. cur \in 1..cur /\ heap[cur].cells \in Seq(Cell) /\ heap[cur].len \in Nat
    BY HeapFacts DEF IInv
<1>2. heap[cur].len <= Len(heap[cur].cells)
    BY <1>1 DEF IInv, Slices
<1>3. ASSUME NEW j \in 1..Len(heap[cur].cells), j > heap[cur].len
      PROVE  heap[cur].cells[j] = Blank
    <2>1. CASE \A u \in Threads : th[u].at \notin {"shift", "cut"}
        <3>1. Sound(cur)
            BY <1>1, <2>1 DEF IInv, Slices
        <3> QED BY <1>1, <1>3, <3>1 DEF Sound, Slice
    <2>2. ASSUME NEW u \in Threads, th[u].at \in {"shift", "cut"}
          PROVE  heap[cur].cells[j] = Blank
        <3>1. Deleting(th[u])
            BY DEF IInv, Slices
        <3>2. CASE th[u].at = "shift"
            BY <1>1, <1>3, <3>1, <3>2 DEF Deleting, Slice
        <3>3. CASE th[u].at = "cut"
            <4>1. Slice(heap[cur].cells, heap[cur].len - 1, 0)
                BY <3>1, <3>3 DEF Deleting
            <4>2. ~ (j <= heap[cur].len - 1)
                BY <1>1, <1>3
            <4> QED BY <4>1, <4>2 DEF Slice
        <3> QED BY <2>2, <3>2, <3>3
    <2> QED BY <2>1, <2>2
<1> QED BY <1>1, <1>2, <1>3

\* The list of the store, and the sites in its cells.
LEMMA ListIsCells ==
    ASSUME IInv, NEW records \in SUBSET Site, NEW name \in Urls
    PROVE  /\ Content(cur).sites \in Seq(Cell)
           /\ Bearers(heap[cur].cells, records, name) \subseteq Bearers(Content(cur).sites, records, name)
<1> DEFINE cells == heap[cur].cells
           len == heap[cur].len
           list == SubSeq(cells, 1, len)
<1>1. /\ cells \in Seq(Cell) /\ len \in Nat /\ len <= Len(cells) /\ Len(cells) \in Nat
      /\ \A j \in 1..Len(cells) : j > len => cells[j] = Blank
    BY BlankBehind
<1>2. Content(cur).sites = list
    BY DEF Content
<1> HIDE DEF cells, len
<1>3. list \in Seq(Cell) /\ Len(list) = len /\ \A j \in 1..len : list[j] = cells[j]
    <2>1. \A j \in 1..len : cells[j] \in Cell
        BY <1>1
    <2> QED BY <1>1, <2>1, SubSeqProperties
<1> HIDE DEF list
<1>4. \A j \in 1..Len(cells) : cells[j] # Blank => \E k \in 1..Len(list) : list[k] = cells[j]
    BY <1>1, <1>3
<1>5. Bearers(cells, records, name) \subseteq Bearers(list, records, name)
    BY <1>1, <1>3, <1>4, FewerBear
<1> QED BY <1>2, <1>3, <1>5 DEF cells

\* No site of an empty list bears a name.
LEMMA NothingBears ==
    ASSUME NEW records, NEW name
    PROVE  Bearers(<<>>, records, name) = {}
BY DEF Bearers, Range

\* A call by name begins knowing who has the name.
LEMMA CallStep ==
    ASSUME IInv, NEW t \in Threads, NEW at \in {"copy", "get"}, NEW look \in Looks, Call(t, at, look)
    PROVE  IInv'
<1>1. PICK op \in {"edit", "remove"}, want \in Urls, url \in Urls \cup {"none"} :
        th' = [th EXCEPT ![t] =
                [Idle EXCEPT !.at = at, !.op = op, !.want = want, !.url = url, !.look = look,
                             !.bore = Bearers(Content(cur).sites, rows, want)]]
    BY SiteStoreAssumption DEF Call
<1> DEFINE bore == Bearers(Content(cur).sites, rows, want)
           new == [Idle EXCEPT !.at = at, !.op = op, !.want = want, !.url = url, !.look = look,
                               !.bore = bore]
<1>2. rows \in SUBSET Site /\ Idle \in Thread /\ 1 <= cur
    BY IdleFits, HeapFacts DEF IInv, Records
<1>3. bore \in SUBSET Ids /\ Bearers(heap[cur].cells, rows, want) \subseteq bore
    BY <1>2, ListIsCells, BearersAreIds
<1> HIDE DEF bore
<1>4. /\ new \in Thread /\ new.at = at /\ new.want = want /\ new.bore = bore /\ new.copy = {}
      /\ new.seen = <<>> /\ new.obj = 1
    <2>1. at \in Places /\ op \in Ops /\ want \in Urls \cup {"none"}
        BY DEF Places, Ops
    <2>2. new \in Thread
        BY <1>2, <1>3, <2>1 DEF Thread
    <2>3. /\ new.at = at /\ new.want = want /\ new.bore = bore /\ new.copy = {}
          /\ new.seen = <<>> /\ new.obj = 1
        BY DEF Idle
    <2> QED BY <2>2, <2>3
<1>5. th' = [th EXCEPT ![t] = new]
    BY <1>1 DEF bore
<1> HIDE DEF new
<1>6. Deleting(new) /\ Reads(new) /\ Quiet(new) /\ Loads(new)
    BY <1>2, <1>4, BlankIsNone DEF Deleting, Reads, Quiet, Loads
<1>7. Borne(new)
    <2>1. rows \cup {} = rows
        OBVIOUS
    <2> QED BY <1>3, <1>4, <2>1, NothingBears DEF Borne
<1>8. th[t].at \in {"idle", "done"} /\ jobs' \in 0..MaxJobs
    BY JobCounts DEF Call, IInv
<1>9. ~ (lock' = t)
    BY <1>8 DEF Call, IInv, Locked
<1>10. Quieter(t, new)
    BY <1>4, <1>5, <1>6, <1>7, <1>8, <1>9 DEF Call, Quieter, IInv, Numbers, Holding
<1> QED BY <1>10, QuieterStep

\* The records a call copies are those whose bearers it was told of.
LEMMA CopyStep ==
    ASSUME IInv, NEW t \in Threads, Copy(t)
    PROVE  IInv'
<1> DEFINE new == [th[t] EXCEPT !.at = "get", !.copy = rows]
<1>1. /\ th[t] \in Thread /\ th[t].at = "copy" /\ rows \in SUBSET Site
      /\ Reads(th[t]) /\ Borne(th[t])
    BY DEF Copy, At, IInv, Threaded, EachReads, EachBorne, Records
<1>2. /\ new \in Thread /\ new.at = "get" /\ new.want = th[t].want /\ new.bore = th[t].bore
      /\ new.copy = rows /\ new.seen = th[t].seen /\ new.obj = th[t].obj
    BY <1>1 DEF Thread, Places
<1>3. th' = [th EXCEPT ![t] = new]
    BY DEF Copy
<1> HIDE DEF new
<1>4. new.seen = <<>>
    BY <1>1, <1>2 DEF Reads
<1>5. Deleting(new) /\ Reads(new) /\ Quiet(new) /\ Loads(new)
    BY <1>1, <1>2, <1>4 DEF Deleting, Reads, Quiet, Loads
<1>6. Borne(new)
    <2>1. Bearers(heap[cur].cells, rows \cup rows, th[t].want)
            \subseteq Bearers(heap[cur].cells, rows \cup th[t].copy, th[t].want)
        BY DEF Bearers
    <2> QED BY <1>1, <1>2, <1>4, <2>1, NothingBears DEF Borne
<1>7. ~ (lock' = t)
    BY <1>1 DEF Copy, IInv, Locked
<1>8. Quieter(t, new)
    BY <1>1, <1>2, <1>3, <1>5, <1>6, <1>7 DEF Copy, Quieter, IInv, Numbers, Holding
<1> QED BY <1>8, QuieterStep

\* What the look-up can find bore the name.
LEMMA MatchesBore ==
    ASSUME IInv, NEW t \in Threads, th[t].want # "none"
    PROVE  Matches(t) \subseteq th[t].bore
<1>1. Bearers(th[t].seen, th[t].copy, th[t].want) \subseteq th[t].bore
    BY DEF IInv, EachBorne, Borne
<1>2. Matches(t) \subseteq Bearers(th[t].seen, th[t].copy, th[t].want)
    BY DEF Matches, Bearers, SeenIds
<1> QED BY <1>1, <1>2

\* The id a call settles on is that of a bearer of its name.
LEMMA ResolveStep ==
    ASSUME IInv, NEW t \in Threads, Resolve(t)
    PROVE  IInv'
<1>1. /\ th[t] \in Thread /\ th[t].at = "done" /\ th[t].want # "none"
      /\ Reads(th[t]) /\ Borne(th[t]) /\ 1 <= cur
    <2>1. 1 <= cur
        BY HeapFacts DEF IInv
    <2> QED BY <2>1 DEF Resolve, At, Calling, IInv, Threaded, EachReads, EachBorne
<1>2. Bearers(heap[cur].cells, rows \cup {}, th[t].want)
        \subseteq Bearers(heap[cur].cells, rows \cup th[t].copy, th[t].want)
    BY DEF Bearers
<1>3. <<>> \in Seq(Cell)
    OBVIOUS
<1>4. ASSUME NEW new \in Thread, th' = [th EXCEPT ![t] = new], new.at \in {"wait", "get"},
             new.obj <= cur, new.seen = <<>>, new.want = th[t].want, new.copy = {},
             new.bore = th[t].bore, new.at = "wait" => new.obj = 1 /\ new.id \in th[t].bore
      PROVE  IInv'
    <2>1. Deleting(new) /\ Reads(new) /\ Quiet(new) /\ Loads(new)
        BY <1>1, <1>4 DEF Deleting, Reads, Quiet, Loads
    <2>2. Borne(new)
        BY <1>1, <1>2, <1>4, NothingBears DEF Borne
    <2>3. ~ (lock' = t)
        BY <1>1 DEF Resolve, IInv, Locked
    <2>4. Quieter(t, new)
        BY <1>1, <1>4, <2>1, <2>2, <2>3 DEF Resolve, Quieter, IInv, Numbers, Holding
    <2> QED BY <2>4, QuieterStep
<1>5. CASE Matches(t) = {} /\ th[t].look # "rows"
    <2>1. th' = [th EXCEPT ![t] = Idle]
        BY <1>5 DEF Resolve
    <2> QED BY <1>1, <2>1, Refusing DEF Resolve, Holding, IInv, Numbers
<1>6. CASE Matches(t) = {} /\ th[t].look = "rows"
    <2> DEFINE new == [th[t] EXCEPT !.at = "get", !.look = "list", !.seen = <<>>, !.copy = {}]
    <2>1. th' = [th EXCEPT ![t] = new]
        BY <1>6 DEF Resolve
    <2>2. /\ new \in Thread /\ new.at = "get" /\ new.obj = th[t].obj /\ new.seen = <<>>
          /\ new.want = th[t].want /\ new.copy = {} /\ new.bore = th[t].bore
        BY <1>1, <1>3 DEF Thread, Places, Looks
    <2>3. th[t].obj <= cur
        BY <1>1 DEF Reads
    <2> HIDE DEF new
    <2> QED BY <1>4, <2>1, <2>2, <2>3
<1>7. CASE Matches(t) # {}
    <2>1. PICK id \in Matches(t) :
            th' = [th EXCEPT ![t] = [th[t] EXCEPT !.at = "wait", !.id = id, !.obj = 1, !.n = 0,
                                                  !.look = Kept(t), !.seen = <<>>, !.copy = {}]]
        BY <1>7 DEF Resolve
    <2> DEFINE new == [th[t] EXCEPT !.at = "wait", !.id = id, !.obj = 1, !.n = 0,
                                    !.look = Kept(t), !.seen = <<>>, !.copy = {}]
    <2>2. id \in th[t].bore
        BY <1>1, MatchesBore
    <2>3. id \in Ids
        BY <1>1, <2>2 DEF Thread
    <2>4. /\ new \in Thread /\ new.at = "wait" /\ new.obj = 1 /\ new.seen = <<>> /\ new.id = id
          /\ new.want = th[t].want /\ new.copy = {} /\ new.bore = th[t].bore
        <3>1. new \in Thread
            <4>1. /\ "wait" \in Places /\ Kept(t) \in Looks /\ {} \in SUBSET Site
                  /\ 1 \in Nat \ {0} /\ 0 \in Nat /\ id \in Ids \cup {0}
                BY <2>3 DEF Places, Looks, Kept
            <4>2. th[t] \in Thread
                BY <1>1
            <4> QED BY ONLY <4>1, <4>2, <1>3 DEF Thread
        <3>2. /\ new.at = "wait" /\ new.obj = 1 /\ new.seen = <<>> /\ new.id = id
              /\ new.want = th[t].want /\ new.copy = {} /\ new.bore = th[t].bore
            BY <1>1 DEF Thread
        <3> QED BY <3>1, <3>2
    <2>5. th' = [th EXCEPT ![t] = new]
        BY <2>1
    <2> HIDE DEF new
    <2> QED BY <1>1, <1>4, <2>2, <2>4, <2>5
<1> QED BY <1>5, <1>6, <1>7

----------------------------------------------------------------------------
(* A change begins. *)

Bears(r) ==
    r.want # "none" =>
        /\ Bearers(heap[cur].cells, rows \cup r.copy, r.want) \subseteq r.bore
        /\ Bearers(r.seen, r.copy, r.want) \subseteq r.bore
        /\ r.id \in r.bore

Started(t, op, id, url, at) == [Begun(t, op, id, url) EXCEPT !.at = at]

\* A request or call that gets the lock changes a store at rest.
LEMMA Beginning ==
    ASSUME IInv, NEW t \in Threads, NEW op \in Ops, NEW id \in Ids \cup {0},
           NEW url \in Urls \cup {"none"}, MayAsk(t), Asks(t, op, id, url),
           NEW at \in {"save", "shift"}
    PROVE  /\ Started(t, op, id, url, at) \in Thread
           /\ Started(t, op, id, url, at).at = at
           /\ Started(t, op, id, url, at).obj <= cur
           /\ Bears(Started(t, op, id, url, at))
           /\ lock = "free" /\ th[t].at \notin Holding
           /\ jobs' \in 0..MaxJobs
<1> DEFINE b == Begun(t, op, id, url)
           new == [b EXCEPT !.at = at]
<1>0. new = Started(t, op, id, url, at)
    BY DEF Started
<1>1. lock = "free" /\ th[t].at \notin Holding /\ jobs' \in 0..MaxJobs
    <2>1. lock = "free"
        BY DEF MayAsk
    <2>2. CASE Job(t)
        BY <2>1, <2>2, JobCounts, FreeIsSound DEF IInv
    <2>3. CASE At(t, "wait") /\ UNCHANGED jobs
        BY <2>1, <2>3, FreeIsSound DEF IInv, Numbers
    <2> QED BY <2>1, <2>2, <2>3 DEF Asks
<1>2. CASE Calling(t)
    <2>1. b = th[t] /\ th[t].at = "wait" /\ th[t].want # "none"
        BY <1>2 DEF Begun, Asks, Calling, At, Job, Free
    <2>2. th[t] \in Thread /\ Reads(th[t]) /\ Borne(th[t])
        BY DEF IInv, Threaded, EachReads, EachBorne
    <2>3. at \in Places
        BY DEF Places
    <2>4. /\ new \in Thread /\ new.at = at /\ new.obj = th[t].obj /\ new.seen = th[t].seen
          /\ new.want = th[t].want /\ new.copy = th[t].copy /\ new.bore = th[t].bore
          /\ new.id = th[t].id
        BY <2>1, <2>2, <2>3 DEF Thread
    <2> HIDE DEF new, b
    <2>5. new.obj <= cur /\ Bears(new)
        BY <2>1, <2>2, <2>4 DEF Reads, Borne, Bears
    <2> QED BY <1>0, <1>1, <2>4, <2>5
<1>3. CASE ~Calling(t)
    <2>1. b = [Idle EXCEPT !.op = op, !.id = id, !.url = url]
        BY <1>3 DEF Begun
    <2>2. Idle \in Thread /\ at \in Places /\ 1 <= cur
        <3>1. 1 <= cur
            BY HeapFacts DEF IInv
        <3> QED BY <3>1, IdleFits DEF Places, IInv
    <2> HIDE DEF b
    <2>3. b \in Thread /\ b.obj = 1 /\ b.want = "none"
        BY <2>1, <2>2 DEF Thread, Idle
    <2>4. new \in Thread /\ new.at = at /\ new.obj = 1 /\ new.want = "none"
        BY <2>2, <2>3 DEF Thread
    <2>5. new.obj <= cur /\ Bears(new)
        BY <2>2, <2>4 DEF Bears
    <2> HIDE DEF new
    <2> QED BY <1>0, <1>1, <2>4, <2>5
<1> QED BY <1>2, <1>3

\* A removal begins with the slice whole, its gap at the site to go.
LEMMA RemoveSiteStep ==
    ASSUME IInv, NEW t \in Threads, RemoveSite(t)
    PROVE  IInv'
<1>1. PICK id \in Ids :
        /\ Asks(t, "remove", id, "none")
        /\ \E i \in IF Index(id) = {} THEN {0} ELSE Index(id) :
             th' = [th EXCEPT ![t] = [Begun(t, "remove", id, "none") EXCEPT
                                        !.at = IF i = 0 THEN "save" ELSE "shift", !.pos = i]]
    BY DEF RemoveSite
<1>2. PICK i \in IF Index(id) = {} THEN {0} ELSE Index(id) :
        th' = [th EXCEPT ![t] = [Begun(t, "remove", id, "none") EXCEPT
                                   !.at = IF i = 0 THEN "save" ELSE "shift", !.pos = i]]
    BY <1>1
<1> DEFINE at == IF i = 0 THEN "save" ELSE "shift"
           begun == Started(t, "remove", id, "none", at)
           new == [begun EXCEPT !.pos = i]
<1>3. at \in {"save", "shift"} /\ (i # 0 <=> at = "shift")
    OBVIOUS
<1>4. th' = [th EXCEPT ![t] = new]
    BY <1>2 DEF Started
<1> HIDE DEF at
<1>5. /\ begun \in Thread /\ begun.at = at /\ begun.obj <= cur /\ Bears(begun)
      /\ lock = "free" /\ th[t].at \notin Holding
      /\ jobs' \in 0..MaxJobs
    <2>1. "remove" \in Ops /\ MayAsk(t)
        BY DEF Ops, RemoveSite
    <2> QED BY <1>1, <1>3, <2>1, Beginning
<1> HIDE DEF begun
<1>6. /\ cur \in 1..cur /\ heap[cur].len \in Nat /\ Sound(cur)
    BY <1>5, FreeIsSound, HeapFacts DEF IInv
<1>7. i \in 0..heap[cur].len /\ i \in Nat
    BY <1>6 DEF Index
<1>8. /\ new \in Thread /\ new.at = at /\ new.obj = begun.obj /\ new.pos = i
      /\ new.want = begun.want /\ new.copy = begun.copy /\ new.bore = begun.bore
      /\ new.seen = begun.seen /\ new.id = begun.id
    BY <1>5, <1>7 DEF Thread
<1> HIDE DEF new
<1>9. Deleting(new)
    <2> SUFFICES ASSUME at = "shift"
                 PROVE  new.pos \in 1..heap[cur].len /\ Slice(heap[cur].cells, heap[cur].len, new.pos)
        BY <1>3, <1>8 DEF Deleting
    <2>1. i \in 1..heap[cur].len
        BY <1>3, <1>6, <1>7
    <2>2. Slice(heap[cur].cells, heap[cur].len, i)
        BY <1>6, <2>1 DEF Sound, Slice
    <2> QED BY <1>8, <2>1, <2>2
<1>10. Reads(new) /\ Quiet(new) /\ Loads(new)
    BY <1>3, <1>5, <1>8 DEF Reads, Quiet, Loads
<1>11. Borne(new)
    BY <1>3, <1>5, <1>8 DEF Bears, Borne
<1>12. Quieter(t, new)
    BY <1>3, <1>4, <1>5, <1>8, <1>9, <1>10, <1>11 DEF RemoveSite, Quieter, IInv, Numbers, Holding
<1> QED BY <1>12, QuieterStep

----------------------------------------------------------------------------
(* Changes of the store in place. *)

InPlace(t, obj) ==
    /\ obj \in StoreObject
    /\ heap' = [heap EXCEPT ![cur] = obj]
    /\ lock \in {"free", t} /\ lock' = t
    /\ Others(t) /\ \A u \in Threads \ {t} : th'[u].raced = th[u].raced
    /\ th'[t].at \in Holding /\ th'[t].obj <= cur
    /\ file' = file /\ rows' = rows /\ drift' = drift /\ faults' = faults /\ jobs' \in 0..MaxJobs
    /\ used \subseteq used' /\ used' \subseteq Ids

\* A change of the current object keeps the invariant when the slice fits the step of
\* the change it leaves, and whoever reads it or means a site of it was told.
LEMMA InPlaceStep ==
    ASSUME IInv, NEW t \in Threads, NEW obj, InPlace(t, obj),
           Len(heap[cur].cells) <= Len(obj.cells), obj.len <= Len(obj.cells),
           th'[t].at = "save" => Slice(obj.cells, obj.len, 0),
           Deleting(th[t])',
           \A j \in 1..Len(obj.cells) : obj.cells[j] \in Site => obj.cells[j].id \in used',
           \A u \in Threads \ {t} :
             \/ th'[u].touched \/ th[u].want # "none" \/ th[u].at \notin {"header", "read"}
             \/ th[u].obj # cur
             \/ obj.cells = heap[cur].cells /\ obj.len = heap[cur].len
             \/ GrownAtEnd(cur),
           \A u \in Threads \ {t} : th[u].want # "none" =>
             Bearers(obj.cells, rows \cup th[u].copy, th[u].want) \subseteq th'[u].bore,
           Bears(th[t])'
    PROVE  IInv'
<1>1. /\ heap \in Seq(StoreObject) /\ cur = Len(heap) /\ cur \in Nat \ {0} /\ cur \in 1..cur
    BY HeapFacts DEF IInv
<1>2. /\ heap' \in Seq(StoreObject) /\ cur' = cur /\ heap'[cur] = obj /\ heap'[cur'] = obj
      /\ \A o \in 1..cur : o # cur => heap'[o] = heap[o]
      /\ Len(heap') = Len(heap)
    BY <1>1 DEF InPlace, cur
<1>3. Heaped'
    BY <1>1, <1>2 DEF Heaped, cur
<1>4. Records' /\ Threaded'
    BY DEF IInv, InPlace, Records, Threaded, Others
<1>5. Locked' /\ lock' \in Threads \cup {"free"}
    BY KeepLocked DEF InPlace, IInv, Numbers
<1>6. Numbers'
    BY <1>5 DEF InPlace, IInv, Numbers
<1>7. \A u \in Threads \ {t} : th[u].at \notin Holding /\ th'[u].at \notin Holding
    BY OneDeletes DEF InPlace, IInv, Others, Follows
<1>8. Slices'
    <2>1. \A o \in 1..cur : heap'[o].len <= Len(heap'[o].cells)
        BY <1>2 DEF IInv, Slices
    <2>2. \A o \in 1..cur : o # cur => Sound(o)'
        BY <1>2 DEF IInv, Slices, Sound
    <2>3. th'[t].at \notin {"shift", "cut"} => Sound(cur)'
        BY <1>2 DEF Sound, InPlace, Holding
    <2>4. \A u \in Threads : Deleting(th[u])'
        BY <1>7 DEF Deleting, Holding
    <2> QED BY <1>2, <2>1, <2>2, <2>3, <2>4 DEF Slices
<1>9. Minted'
    BY <1>2 DEF Minted
<1>10. EachReads'
    <2>1. \A o \in 1..cur : Len(heap[o].cells) <= Len(heap'[o].cells)
        <3>1. \A o \in 1..cur : Len(heap[o].cells) \in Nat
            BY HeapFacts DEF IInv
        <3> QED BY <1>2, <3>1
    <2>2. Reads(th[t])'
        BY <1>2 DEF Reads, InPlace, Holding
    <2> QED BY <1>1, <1>2, <1>3, <2>1, <2>2, KeepReads DEF IInv, InPlace
<1>11. EachQuiet'
    <2>1. Quiet(th[t])'
        BY DEF Quiet, InPlace, Holding
    <2>2. ASSUME NEW u \in Threads \ {t}
          PROVE  \/ th'[u].touched
                 \/ th[u].want # "none"
                 \/ th[u].at \notin {"header", "read"}
                 \/ heap'[th[u].obj].cells = heap[th[u].obj].cells
                      /\ heap'[th[u].obj].len = heap[th[u].obj].len
                 \/ GrownAtEnd(th[u].obj)
        <3>1. th[u].obj \in 1..cur
            BY <1>1 DEF IInv, EachReads, Reads, Threaded, Thread
        <3>2. CASE th[u].obj # cur
            BY <1>2, <3>1, <3>2
        <3>3. CASE th[u].obj = cur
            BY <1>2, <3>3
        <3> QED BY <3>2, <3>3
    <2> QED BY <1>1, <1>2, <1>3, <2>1, <2>2, KeepQuiet DEF IInv, InPlace
<1>12. EachLoads'
    <2>1. Loads(th[t])'
        BY DEF Loads, InPlace, Holding
    <2> QED BY <2>1, KeepLoads DEF IInv, InPlace
<1>13. EachBorne'
    <2>1. Borne(th[t])'
        BY DEF Borne, Bears, InPlace, Holding
    <2>2. \A o \in 1..cur : heap'[o].cells = heap[o].cells \/ (o = cur /\ cur' = cur)
        BY <1>2
    <2>3. rows \in SUBSET Site /\ rows' \in SUBSET Site /\ rows' = rows
        BY DEF IInv, Records, InPlace
    <2>4. \A u \in Threads \ {t} : th[u].want # "none" =>
             Bearers(heap'[cur'].cells, rows' \cup th[u].copy, th[u].want) \subseteq th'[u].bore
        BY <1>2, <2>3
    <2> QED BY <1>3, <2>1, <2>2, <2>3, <2>4, KeepBorne DEF IInv, InPlace
<1>14. DriftHasCause'
    BY SiteStoreAssumption DEF InPlace, DriftHasCause
<1> QED BY <1>3, <1>4, <1>5, <1>6, <1>8, <1>9, <1>10, <1>11, <1>12, <1>13, <1>14 DEF IInv

\* A setting is changed and no site is.
LEMMA SetStep ==
    ASSUME IInv, NEW t \in Threads, Set(t)
    PROVE  IInv'
<1> DEFINE new == Started(t, "set", 0, "none", "save")
           on == ~heap[cur].on
           obj == [heap[cur] EXCEPT !.on = on]
<1>1. /\ new \in Thread /\ new.at = "save" /\ new.obj <= cur /\ Bears(new)
      /\ lock = "free" /\ jobs' \in 0..MaxJobs
    <2>1. MayAsk(t) /\ Asks(t, "set", 0, "none") /\ "set" \in Ops
        BY DEF Set, Ops
    <2> QED BY <2>1, Beginning
<1>2. th' = [th EXCEPT ![t] = new] /\ heap' = [heap EXCEPT ![cur] = obj] /\ lock' = t
    BY DEF Set, Started
<1> HIDE DEF new
<1>3. /\ cur \in 1..cur /\ heap[cur] \in StoreObject /\ Sound(cur) /\ heap[cur].on \in BOOLEAN
      /\ heap[cur].len <= Len(heap[cur].cells) /\ Len(heap[cur].cells) \in Nat
    BY <1>1, FreeIsSound, HeapFacts DEF IInv, Slices
<1>4. on \in BOOLEAN
    BY <1>3
<1> HIDE DEF on
<1>5. obj \in StoreObject /\ obj.cells = heap[cur].cells /\ obj.len = heap[cur].len
    BY <1>3, <1>4 DEF StoreObject
<1> HIDE DEF obj
<1>6. /\ Others(t) /\ th'[t] = new /\ \A u \in Threads \ {t} : th'[u] = th[u]
    BY <1>1, <1>2 DEF Others, Follows, IInv, Threaded
<1>7. InPlace(t, obj)
    BY <1>1, <1>2, <1>5, <1>6 DEF InPlace, Set, Holding, IInv, Numbers
<1>8. heap'[cur'] = obj /\ cur' = cur
    BY <1>2, HeapFacts DEF cur, IInv
<1>9. Bears(th[t])'
    BY <1>1, <1>5, <1>6, <1>7, <1>8 DEF Bears, InPlace
<1>10. Deleting(th[t])'
    BY <1>1, <1>6 DEF Deleting
<1>11. \A u \in Threads \ {t} : th[u].want # "none" =>
         Bearers(obj.cells, rows \cup th[u].copy, th[u].want) \subseteq th'[u].bore
    BY <1>5, <1>6 DEF IInv, EachBorne, Borne
<1>12. Slice(obj.cells, obj.len, 0)
    BY <1>3, <1>5 DEF Sound
<1>13. \A j \in 1..Len(obj.cells) : obj.cells[j] \in Site => obj.cells[j].id \in used'
    BY <1>5, <1>7 DEF IInv, Minted, InPlace
<1>14. Len(heap[cur].cells) <= Len(obj.cells) /\ obj.len <= Len(obj.cells)
    BY <1>3, <1>5
<1> QED BY <1>5, <1>7, <1>9, <1>10, <1>11, <1>12, <1>13, <1>14, InPlaceStep

\* The shorter slice is sound.
LEMMA CutStep ==
    ASSUME IInv, NEW t \in Threads, Cut(t)
    PROVE  IInv'
<1> DEFINE new == [th[t] EXCEPT !.at = "save"]
           f == [th EXCEPT ![t] = new]
           len == heap[cur].len - 1
           obj == [heap[cur] EXCEPT !.len = len]
<1>1. /\ th[t] \in Thread /\ th[t].at = "cut" /\ lock = t /\ Reads(th[t]) /\ Borne(th[t])
      /\ heap[cur].len >= 1 /\ Slice(heap[cur].cells, len, 0)
    BY DEF Cut, At, IInv, Threaded, EachReads, EachBorne, Locked, Slices, Deleting
<1>2. /\ cur \in 1..cur /\ heap[cur] \in StoreObject /\ heap[cur].len \in Nat
      /\ Len(heap[cur].cells) \in Nat
    BY HeapFacts DEF IInv
<1>3. th' = Touched(f) /\ heap' = [heap EXCEPT ![cur] = obj] /\ lock' = t
    BY <1>1 DEF Cut
<1>4. /\ new \in Thread /\ new.at = "save" /\ new.obj = th[t].obj /\ new.want = th[t].want
      /\ new.copy = th[t].copy /\ new.seen = th[t].seen /\ new.bore = th[t].bore /\ new.id = th[t].id
    BY <1>1 DEF Thread, Places
<1>5. len \in Nat
    BY <1>1, <1>2
<1> HIDE DEF len
<1>6. obj \in StoreObject /\ obj.cells = heap[cur].cells /\ obj.len = len
    BY <1>2, <1>5 DEF StoreObject
<1> HIDE DEF new, obj
<1>7. f \in [Threads -> Thread] /\ f[t] = new /\ \A u \in Threads \ {t} : f[u] = th[u]
    BY <1>4 DEF IInv, Threaded
<1> HIDE DEF f
<1>8. /\ \A u \in Threads : Follows(th'[u], f[u]) /\ th'[u].raced = f[u].raced
      /\ th' \in [Threads -> Thread]
      /\ \A u \in Threads : f[u].at \in {"header", "read"} /\ f[u].obj = cur /\ f[u].want = "none"
                              => th'[u].touched
    BY <1>3, <1>7, Touching
<1>9. Others(t) /\ \A u \in Threads \ {t} : th'[u].raced = th[u].raced
    BY <1>7, <1>8 DEF Others
<1>10. th'[t].at = "save" /\ th'[t].obj = th[t].obj
    BY <1>4, <1>7, <1>8 DEF Follows
<1>11. InPlace(t, obj)
    BY <1>1, <1>3, <1>6, <1>9, <1>10 DEF InPlace, Cut, Holding, IInv, Numbers, Reads
<1>12. heap'[cur'] = obj /\ cur' = cur
    BY <1>3, HeapFacts DEF cur, IInv
<1>13. Bears(th[t])'
    <2>1. /\ th'[t].want = th[t].want /\ th'[t].copy = th[t].copy /\ th'[t].seen = th[t].seen
          /\ th'[t].id = th[t].id /\ th[t].bore \subseteq th'[t].bore /\ rows' = rows
        BY <1>4, <1>7, <1>8, <1>11 DEF Follows, InPlace
    <2>2. th[t].want # "none" =>
            /\ Bearers(heap[cur].cells, rows \cup th[t].copy, th[t].want) \subseteq th[t].bore
            /\ Bearers(th[t].seen, th[t].copy, th[t].want) \subseteq th[t].bore
            /\ th[t].id \in th[t].bore
        BY <1>1 DEF Borne
    <2> QED BY <1>6, <1>12, <2>1, <2>2 DEF Bears
<1>14. Deleting(th[t])'
    BY <1>10 DEF Deleting
<1>15. \A u \in Threads \ {t} : th[u].want # "none" =>
         Bearers(obj.cells, rows \cup th[u].copy, th[u].want) \subseteq th'[u].bore
    BY <1>6, <1>9 DEF IInv, EachBorne, Borne, Others, Follows
<1>16. Slice(obj.cells, obj.len, 0)
    BY <1>1, <1>6
<1>17. \A j \in 1..Len(obj.cells) : obj.cells[j] \in Site => obj.cells[j].id \in used'
    BY <1>6, <1>11 DEF IInv, Minted, InPlace
<1>18. Len(heap[cur].cells) <= Len(obj.cells) /\ obj.len <= Len(obj.cells)
    BY <1>2, <1>6, <1>16 DEF Slice
<1>19. \A u \in Threads \ {t} :
         th'[u].touched \/ th[u].want # "none" \/ th[u].at \notin {"header", "read"} \/ th[u].obj # cur
    BY <1>7, <1>8
<1> QED BY <1>11, <1>13, <1>14, <1>15, <1>16, <1>17, <1>18, <1>19, InPlaceStep

\* An element that moves down moves the gap up, and the last one leaves none.
LEMMA ShiftStep ==
    ASSUME IInv, NEW t \in Threads, Shift(t)
    PROVE  IInv'
<1> DEFINE i == th[t].pos
           last == i = heap[cur].len
           new == IF last THEN [th[t] EXCEPT !.at = "cut"] ELSE [th[t] EXCEPT !.pos = i + 1]
           f == [th EXCEPT ![t] = new]
           cell == IF last THEN Blank ELSE heap[cur].cells[i + 1]
           cells == [heap[cur].cells EXCEPT ![i] = cell]
           obj == [heap[cur] EXCEPT !.cells = cells]
           len == heap[cur].len
           old == heap[cur].cells
<1>1. /\ th[t] \in Thread /\ th[t].at = "shift" /\ lock = t /\ Reads(th[t]) /\ Borne(th[t])
      /\ i \in 1..len /\ Slice(old, len, i)
    BY DEF Shift, At, IInv, Threaded, EachReads, EachBorne, Locked, Slices, Deleting
<1>2. /\ cur \in 1..cur /\ heap[cur] \in StoreObject /\ len \in Nat
      /\ old \in Seq(Cell) /\ Len(old) \in Nat
    BY HeapFacts DEF IInv
<1>3. len <= Len(old) /\ i \in Nat /\ i \in 1..Len(old)
    BY <1>1, <1>2 DEF Slice
<1>4. th' = Touched(f) /\ heap' = [heap EXCEPT ![cur] = obj] /\ lock' = t
    <2>1. ~last <=> i < len
        BY <1>1, <1>2
    <2> QED BY <1>1, <2>1 DEF Shift
<1>5. /\ new \in Thread /\ new.obj = th[t].obj /\ new.want = th[t].want
      /\ new.copy = th[t].copy /\ new.seen = th[t].seen /\ new.bore = th[t].bore /\ new.id = th[t].id
      /\ IF last THEN new.at = "cut" ELSE new.at = "shift" /\ new.pos = i + 1
    <2>1. CASE last
        <3>1. new = [th[t] EXCEPT !.at = "cut"]
            BY <2>1
        <3> QED BY <1>1, <2>1, <3>1 DEF Thread, Places
    <2>2. CASE ~last
        <3>1. new = [th[t] EXCEPT !.pos = i + 1] /\ i + 1 \in Nat
            BY <1>3, <2>2
        <3> HIDE DEF new
        <3>2. new \in Thread
            BY <1>1, <3>1 DEF Thread
        <3>3. /\ new.obj = th[t].obj /\ new.want = th[t].want /\ new.copy = th[t].copy
              /\ new.seen = th[t].seen /\ new.bore = th[t].bore /\ new.id = th[t].id
              /\ new.at = "shift" /\ new.pos = i + 1
            BY <1>1, <3>1 DEF Thread
        <3> QED BY <2>2, <3>2, <3>3
    <2> QED BY <2>1, <2>2
<1>6. cell \in Cell /\ (~last => i + 1 \in 1..len)
    BY <1>1, <1>2, <1>3, BlankIsNone
<1>7. /\ cells \in Seq(Cell) /\ Len(cells) = Len(old)
      /\ cells[i] = cell /\ \A j \in 1..Len(old) : j # i => cells[j] = old[j]
    BY <1>2, <1>3, <1>6
<1> HIDE DEF new, cells
<1>8. obj \in StoreObject /\ obj.cells = cells /\ obj.len = len
    BY <1>2, <1>7 DEF StoreObject
<1> HIDE DEF obj
<1>9. f \in [Threads -> Thread] /\ f[t] = new /\ \A u \in Threads \ {t} : f[u] = th[u]
    BY <1>5 DEF IInv, Threaded
<1> HIDE DEF f
<1>10. /\ \A u \in Threads : Follows(th'[u], f[u]) /\ th'[u].raced = f[u].raced
       /\ th' \in [Threads -> Thread]
       /\ \A u \in Threads : f[u].at \in {"header", "read"} /\ f[u].obj = cur /\ f[u].want = "none"
                               => th'[u].touched
    BY <1>4, <1>9, Touching
<1>11. Others(t) /\ \A u \in Threads \ {t} : th'[u].raced = th[u].raced
    BY <1>9, <1>10 DEF Others
<1>12. /\ th'[t].at = new.at /\ th'[t].obj = th[t].obj /\ th'[t].pos = new.pos
       /\ new.at \in {"shift", "cut"}
    BY <1>5, <1>9, <1>10 DEF Follows
<1>13. InPlace(t, obj)
    BY <1>1, <1>4, <1>8, <1>11, <1>12 DEF InPlace, Shift, Holding, IInv, Numbers, Reads
<1>14. heap'[cur'] = obj /\ cur' = cur
    BY <1>4, HeapFacts DEF cur, IInv
<1>15. \A j \in 1..Len(cells) : cells[j] # Blank => \E k \in 1..Len(old) : old[k] = cells[j]
    <2>1. i + 1 \in 1..Len(old) \/ last
        BY <1>2, <1>3, <1>6
    <2>2. ~last => cells[i] = old[i + 1]
        BY <1>7
    <2>3. last => cells[i] = Blank
        BY <1>7
    <2> HIDE DEF last, i, old
    <2> QED BY <1>7, <2>1, <2>2, <2>3
<1>16. ASSUME NEW copy \in SUBSET Site, NEW name \in Urls
       PROVE  Bearers(cells, rows \cup copy, name) \subseteq Bearers(old, rows \cup copy, name)
    <2>1. rows \cup copy \in SUBSET Site
        BY DEF IInv, Records
    <2> QED BY <1>2, <1>7, <1>15, <2>1, FewerBear
<1>17. \A u \in Threads : th[u].want # "none" =>
         Bearers(obj.cells, rows \cup th[u].copy, th[u].want) \subseteq th'[u].bore
    <2> SUFFICES ASSUME NEW u \in Threads, th[u].want # "none"
                 PROVE  Bearers(obj.cells, rows \cup th[u].copy, th[u].want) \subseteq th'[u].bore
        OBVIOUS
    <2>1. th[u].want \in Urls /\ th[u].copy \in SUBSET Site
        BY DEF IInv, Threaded, Thread
    <2>2. Bearers(old, rows \cup th[u].copy, th[u].want) \subseteq th[u].bore
        BY DEF IInv, EachBorne, Borne
    <2>3. th[u].bore \subseteq th'[u].bore
        BY <1>5, <1>9, <1>10 DEF Follows
    <2>4. Bearers(cells, rows \cup th[u].copy, th[u].want) \subseteq Bearers(old, rows \cup th[u].copy, th[u].want)
        BY <1>16, <2>1
    <2> QED BY <1>8, <2>2, <2>3, <2>4
<1>18. Bears(th[t])'
    <2>1. /\ th'[t].want = th[t].want /\ th'[t].copy = th[t].copy /\ th'[t].seen = th[t].seen
          /\ th'[t].id = th[t].id /\ th[t].bore \subseteq th'[t].bore /\ rows' = rows
        BY <1>5, <1>9, <1>10, <1>13 DEF Follows, InPlace
    <2> QED BY <1>1, <1>14, <1>17, <2>1 DEF Bears, Borne
<1>19. Deleting(th[t])'
    <2>1. CASE last
        <3>1. Slice(cells, len - 1, 0)
            <4>1. \A j \in 1..Len(cells) : IF j <= len - 1 THEN cells[j] \in Site ELSE cells[j] = Blank
                BY <1>1, <1>2, <1>3, <1>7, <2>1 DEF Slice
            <4>2. \A j, k \in (1..(len - 1)) \ {0} : cells[j].id = cells[k].id => j = k
                BY <1>1, <1>2, <1>3, <1>7, <2>1 DEF Slice
            <4>3. len - 1 <= Len(cells)
                BY <1>2, <1>3, <1>7
            <4> QED BY <4>1, <4>2, <4>3 DEF Slice
        <3>2. th'[t].at = "cut" /\ len >= 1
            BY <1>1, <1>2, <1>5, <1>12, <2>1
        <3> QED BY <1>8, <1>14, <3>1, <3>2 DEF Deleting
    <2>2. CASE ~last
        <3>1. Slice(cells, len, i + 1)
            <4>1. cells[i] = old[i + 1] /\ i + 1 \in 1..len /\ i + 1 # i
                BY <1>3, <1>6, <1>7, <2>2
            <4>2. ASSUME NEW j \in 1..Len(cells)
                  PROVE  IF j <= len THEN cells[j] \in Site ELSE cells[j] = Blank
                <5>1. CASE j = i
                    <6>1. i <= len /\ i + 1 \in 1..Len(old) /\ i + 1 <= len
                        BY <1>1, <1>2, <1>3, <4>1
                    <6>2. old[i + 1] \in Site
                        BY <1>1, <6>1 DEF Slice
                    <6> QED BY <4>1, <5>1, <6>1, <6>2
                <5>2. CASE j # i
                    BY <1>1, <1>7, <5>2 DEF Slice
                <5> QED BY <5>1, <5>2
            <4>3. ASSUME NEW j \in (1..len) \ {i + 1}, NEW k \in (1..len) \ {i + 1}, cells[j].id = cells[k].id
                  PROVE  j = k
                <5> DEFINE from(x) == IF x = i THEN i + 1 ELSE x
                <5>1. /\ from(j) \in (1..len) \ {i} /\ from(k) \in (1..len) \ {i}
                      /\ (from(j) = from(k) => j = k)
                    BY <1>3, <4>1
                <5>2. cells[j] = old[from(j)] /\ cells[k] = old[from(k)]
                    <6>1. j \in 1..Len(old) /\ k \in 1..Len(old)
                        BY <1>2, <1>3
                    <6> QED BY <1>7, <4>1, <6>1
                <5> HIDE DEF from
                <5> QED BY <1>1, <4>3, <5>1, <5>2 DEF Slice
            <4>4. len <= Len(cells)
                BY <1>3, <1>7
            <4> QED BY <4>2, <4>3, <4>4 DEF Slice
        <3>2. th'[t].at = "shift" /\ th'[t].pos = i + 1 /\ i + 1 \in 1..len
            BY <1>5, <1>6, <1>12, <2>2
        <3> QED BY <1>8, <1>14, <3>1, <3>2 DEF Deleting
    <2> QED BY <2>1, <2>2
<1>20. \A j \in 1..Len(obj.cells) : obj.cells[j] \in Site => obj.cells[j].id \in used'
    <2>1. \A j \in 1..Len(old) : old[j] \in Site => old[j].id \in used'
        BY <1>13 DEF IInv, Minted, InPlace
    <2> HIDE DEF old
    <2> QED BY <1>8, <1>15, <2>1, BlankIsNone
<1>21. Len(heap[cur].cells) <= Len(obj.cells) /\ obj.len <= Len(obj.cells)
    BY <1>2, <1>3, <1>7, <1>8
<1>22. \A u \in Threads \ {t} :
         th'[u].touched \/ th[u].want # "none" \/ th[u].at \notin {"header", "read"} \/ th[u].obj # cur
    BY <1>9, <1>10
<1>23. th'[t].at # "save"
    BY <1>12
<1> QED BY <1>13, <1>17, <1>18, <1>19, <1>20, <1>21, <1>22, <1>23, InPlaceStep

\* Who is listed with the cells of a sound slice is listed with its list.
LEMMA SliceBears ==
    ASSUME NEW cells \in Seq(Cell), NEW len \in Nat, Slice(cells, len, 0),
           NEW list \in Seq(Site), Len(list) = len, \A j \in 1..len : list[j] = cells[j],
           NEW records \in SUBSET Site, NEW name \in Urls
    PROVE  list \in Seq(Cell) /\ Bearers(cells, records, name) \subseteq Bearers(list, records, name)
<1>1. list \in Seq(Cell)
    BY DEF Cell
<1>2. \A j \in 1..Len(cells) : cells[j] # Blank => \E k \in 1..Len(list) : list[k] = cells[j]
    BY DEF Slice
<1> QED BY <1>1, <1>2, FewerBear

\* Histories that grow twice have grown.
LEMMA Following ==
    ASSUME NEW p, NEW q, NEW r, Follows(p, q), Follows(q, r)
    PROVE  Follows(p, r)
BY DEF Follows

\* A change that makes obj of the store, of which the calls under way are told.
Told(t, new, obj, list, f) ==
    /\ lock = "free"
    /\ new \in Thread /\ new.at = "save" /\ new.obj <= cur /\ Bears(new)
    /\ obj \in StoreObject /\ heap' = [heap EXCEPT ![cur] = obj]
    /\ Slice(obj.cells, obj.len, 0) /\ Len(heap[cur].cells) <= Len(obj.cells)
    /\ list \in Seq(Site) /\ Len(list) = obj.len /\ \A j \in 1..obj.len : list[j] = obj.cells[j]
    /\ f \in [Threads -> Thread] /\ th' = Heard(f, list, rows)
    /\ Follows(f[t], new)
    /\ \A u \in Threads \ {t} : Follows(f[u], th[u]) /\ f[u].raced = th[u].raced
    /\ lock' = t /\ UNCHANGED <<file, rows, faults, drift>> /\ jobs' \in 0..MaxJobs
    /\ used \subseteq used' /\ used' \subseteq Ids
    /\ \A j \in 1..Len(obj.cells) : obj.cells[j] \in Site => obj.cells[j].id \in used'
    /\ \A u \in Threads \ {t} :
         \/ f[u].touched \/ th[u].want # "none" \/ th[u].at \notin {"header", "read"}
         \/ th[u].obj # cur \/ GrownAtEnd(cur)

\* Such a change keeps the invariant.
LEMMA ToldStep ==
    ASSUME IInv, NEW t \in Threads, NEW new, NEW obj, NEW list, NEW f, Told(t, new, obj, list, f)
    PROVE  IInv'
<1> USE DEF Told
<1>1. list \in Seq(Cell) /\ rows \in SUBSET Site
    BY DEF Cell, IInv, Records
<1>2. /\ th' \in [Threads -> Thread]
      /\ \A u \in Threads : /\ Follows(th'[u], f[u]) /\ th'[u].raced = f[u].raced
                            /\ f[u].want # "none" =>
                                 Bearers(list, rows \cup f[u].copy, f[u].want) \subseteq th'[u].bore
    BY <1>1, Hearing
<1>3. Follows(th'[t], new) /\ \A u \in Threads \ {t} : Follows(th'[u], th[u])
    BY <1>2, Following
<1>4. Follows(th'[t], new) /\ Others(t) /\ \A u \in Threads \ {t} : th'[u].raced = th[u].raced
    BY <1>2, <1>3 DEF Others
<1>5. th'[t].at = "save" /\ th'[t].obj = new.obj
    BY <1>4 DEF Follows
<1>6. InPlace(t, obj)
    BY <1>4, <1>5 DEF InPlace, Holding
<1>7. heap'[cur'] = obj /\ cur' = cur
    BY HeapFacts DEF cur, IInv
<1>8. ASSUME NEW u \in Threads, f[u].want # "none"
      PROVE  Bearers(obj.cells, rows \cup f[u].copy, f[u].want) \subseteq th'[u].bore
    <2>1. f[u].want \in Urls /\ rows \cup f[u].copy \in SUBSET Site
        BY <1>1, <1>8 DEF Thread
    <2>2. obj.cells \in Seq(Cell) /\ obj.len \in Nat
        BY DEF StoreObject
    <2>3. Bearers(obj.cells, rows \cup f[u].copy, f[u].want)
            \subseteq Bearers(list, rows \cup f[u].copy, f[u].want)
        BY <2>1, <2>2, SliceBears
    <2> QED BY <1>2, <1>8, <2>3
<1>9. Bears(th[t])'
    <2>1. /\ th'[t].want = new.want /\ th'[t].copy = new.copy /\ th'[t].seen = new.seen
          /\ th'[t].id = new.id /\ new.bore \subseteq th'[t].bore /\ rows' = rows
        BY <1>4 DEF Follows
    <2>2. f[t].want = new.want /\ f[t].copy = new.copy
        BY DEF Follows
    <2>3. new.want # "none" =>
            /\ Bearers(obj.cells, rows \cup new.copy, new.want) \subseteq th'[t].bore
            /\ Bearers(new.seen, new.copy, new.want) \subseteq new.bore
            /\ new.id \in new.bore
        BY <1>8, <2>2 DEF Bears
    <2> QED BY <1>7, <2>1, <2>3 DEF Bears
<1>10. Deleting(th[t])'
    BY <1>5 DEF Deleting
<1>11. \A u \in Threads \ {t} : th[u].want # "none" =>
         Bearers(obj.cells, rows \cup th[u].copy, th[u].want) \subseteq th'[u].bore
    <2> SUFFICES ASSUME NEW u \in Threads \ {t}, th[u].want # "none"
                 PROVE  Bearers(obj.cells, rows \cup th[u].copy, th[u].want) \subseteq th'[u].bore
        OBVIOUS
    <2>1. f[u].want = th[u].want /\ f[u].copy = th[u].copy
        BY DEF Follows
    <2> QED BY <1>8, <2>1
<1>12. obj.len <= Len(obj.cells)
    BY DEF Slice
<1>13. \A u \in Threads \ {t} :
             \/ th'[u].touched \/ th[u].want # "none" \/ th[u].at \notin {"header", "read"}
             \/ th[u].obj # cur \/ GrownAtEnd(cur)
    BY <1>2 DEF Follows
<1> QED BY <1>6, <1>9, <1>10, <1>11, <1>12, <1>13, InPlaceStep

\* An edit keeps the ids, and the calls hear of the new address.
LEMMA EditStep ==
    ASSUME IInv, NEW t \in Threads, Edit(t)
    PROVE  IInv'
<1>1. PICK id \in Ids, url \in NewUrls :
         /\ Asks(t, "edit", id, url)
         /\ IF Index(id) = {} THEN Refused(t)
            ELSE \E i \in Index(id) :
                   /\ lock' = t
                   /\ heap' = [heap EXCEPT ![cur].cells[i].url = url]
                   /\ LET begun == [Begun(t, "edit", id, url) EXCEPT !.at = "save"]
                      IN  th' = Heard(Touched([th EXCEPT ![t] = begun]), Content(cur)'.sites, rows)
    BY DEF Edit
<1> DEFINE new == Started(t, "edit", id, url, "save")
<1>2. /\ new \in Thread /\ new.at = "save" /\ new.obj <= cur /\ Bears(new)
      /\ lock = "free" /\ th[t].at \notin Holding /\ jobs' \in 0..MaxJobs
    <2>1. MayAsk(t) /\ "edit" \in Ops /\ url \in Urls \cup {"none"}
        BY SiteStoreAssumption DEF Edit, Ops
    <2> QED BY <1>1, <2>1, Beginning
<1>3. UNCHANGED <<file, used, rows, faults, drift>>
    BY DEF Edit
<1>4. CASE Index(id) = {}
    BY <1>1, <1>2, <1>3, <1>4, Refusing DEF Refused
<1>5. ASSUME NEW i \in Index(id), lock' = t,
             heap' = [heap EXCEPT ![cur].cells[i].url = url],
             th' = Heard(Touched([th EXCEPT ![t] = new]), Content(cur)'.sites, rows)
      PROVE  IInv'
    <2> DEFINE old == heap[cur].cells
               len == heap[cur].len
               site == [old[i] EXCEPT !.url = url]
               cells == [old EXCEPT ![i] = site]
               obj == [heap[cur] EXCEPT !.cells = cells]
               g == [th EXCEPT ![t] = new]
               f == Touched(g)
               list == SubSeq(cells, 1, len)
    <2> HIDE DEF new
    <2>1. /\ cur \in 1..cur /\ heap[cur] \in StoreObject /\ old \in Seq(Cell) /\ len \in Nat
          /\ Len(old) \in Nat /\ Slice(old, len, 0) /\ heap \in Seq(StoreObject) /\ cur = Len(heap)
        BY <1>2, FreeIsSound, HeapFacts DEF IInv, Sound
    <2>2. i \in 1..len /\ i \in 1..Len(old) /\ len <= Len(old) /\ old[i] \in Site
        BY <2>1 DEF Index, Slice
    <2>3. site \in Site /\ site.id = old[i].id /\ site \in Cell
        BY <2>2, SiteStoreAssumption DEF Site, Cell
    <2>4. heap' = [heap EXCEPT ![cur] = obj]
        BY <1>5
    <2> HIDE DEF site
    <2>5. /\ cells \in Seq(Cell) /\ Len(cells) = Len(old) /\ cells[i] = site
          /\ \A j \in 1..Len(old) : j # i => cells[j] = old[j]
        BY <2>1, <2>2, <2>3
    <2> HIDE DEF cells
    <2>6. obj \in StoreObject /\ obj.cells = cells /\ obj.len = len
        BY <2>1, <2>5 DEF StoreObject
    <2> HIDE DEF obj
    <2>7. Slice(cells, len, 0)
        <3>1. \A j \in 1..Len(cells) : IF j <= len THEN cells[j] \in Site ELSE cells[j] = Blank
            BY <2>1, <2>2, <2>3, <2>5 DEF Slice
        <3>2. \A j \in 1..len : cells[j].id = old[j].id
            BY <2>1, <2>2, <2>3, <2>5
        <3>3. \A j, k \in (1..len) \ {0} : cells[j].id = cells[k].id => j = k
            BY <2>1, <3>2 DEF Slice
        <3> QED BY <2>2, <2>5, <3>1, <3>3 DEF Slice
    <2>8. Content(cur)'.sites = list
        <3>1. cur' = cur /\ heap'[cur] = obj
            BY <2>1, <2>4 DEF cur
        <3>2. Content(cur)'.sites = SubSeq(heap'[cur'].cells, 1, heap'[cur'].len)
            BY DEF Content
        <3> QED BY <2>6, <3>1, <3>2
    <2>9. list \in Seq(Site) /\ Len(list) = len /\ \A j \in 1..len : list[j] = cells[j]
        BY <2>1, <2>5, <2>7, Listed
    <2> HIDE DEF list
    <2>10. g \in [Threads -> Thread] /\ g[t] = new /\ \A u \in Threads \ {t} : g[u] = th[u]
        BY <1>2 DEF IInv, Threaded
    <2>11. th' = Heard(f, list, rows)
        BY <1>5, <2>8
    <2> HIDE DEF g
    <2>12. /\ f \in [Threads -> Thread]
           /\ \A u \in Threads : /\ Follows(f[u], g[u]) /\ f[u].raced = g[u].raced
                                 /\ g[u].at \in {"header", "read"} /\ g[u].obj = cur /\ g[u].want = "none"
                                      => f[u].touched
        BY <2>10, Touching
    <2> HIDE DEF f
    <2>14. \A j \in 1..Len(cells) : cells[j] \in Site => cells[j].id \in used
        <3>1. \A j \in 1..Len(old) : old[j] \in Site => old[j].id \in used
            BY DEF IInv, Minted
        <3> QED BY <2>2, <2>3, <2>5, <3>1
    <2>15. \A u \in Threads \ {t} :
             f[u].touched \/ th[u].want # "none" \/ th[u].at \notin {"header", "read"} \/ th[u].obj # cur
        BY <2>10, <2>12
    <2>16. Follows(f[t], new) /\ \A u \in Threads \ {t} : Follows(f[u], th[u]) /\ f[u].raced = th[u].raced
        BY <2>10, <2>12
    <2>17. used \subseteq used' /\ used' \subseteq Ids /\ used' = used
        BY <1>3 DEF IInv, Numbers
    <2>18. Len(heap[cur].cells) <= Len(obj.cells)
        BY <2>1, <2>5, <2>6
    <2>19. Told(t, new, obj, list, f)
        <3> HIDE DEF len
        <3> QED BY <1>2, <1>3, <1>5, <2>4, <2>6, <2>7, <2>9, <2>11, <2>12, <2>14, <2>15, <2>16, <2>17, <2>18
               DEF Told
    <2> QED BY <2>19, ToldStep
<1> QED BY <1>1, <1>4, <1>5 DEF Started

\* An added site has an id of its own, behind all that readers go through.
LEMMA AddStep ==
    ASSUME IInv, NEW t \in Threads, Add(t)
    PROVE  IInv'
<1>1. PICK url \in Urls, id \in Ids \ used :
         /\ Asks(t, "add", id, url)
         /\ LET old == Content(cur).sites
                site == [id |-> id, url |-> url]
            IN  IF \E s \in Range(old) : s.url = url
                THEN Refused(t) /\ UNCHANGED used
                ELSE /\ lock' = t
                     /\ heap' = [heap EXCEPT ![cur] = Grown(cur, site)]
                     /\ used' = used \cup {id}
                     /\ LET begun == [Begun(t, "add", id, url) EXCEPT !.at = "save"]
                        IN  th' = Heard([th EXCEPT ![t] = begun], Append(old, site), rows)
    BY DEF Add
<1> DEFINE new == Started(t, "add", id, url, "save")
           site == [id |-> id, url |-> url]
           before == Content(cur).sites
<1>2. /\ new \in Thread /\ new.at = "save" /\ new.obj <= cur /\ Bears(new)
      /\ lock = "free" /\ th[t].at \notin Holding /\ jobs' \in 0..MaxJobs
    <2>1. MayAsk(t) /\ "add" \in Ops /\ url \in Urls \cup {"none"}
        BY DEF Add, Ops
    <2> QED BY <1>1, <2>1, Beginning
<1>3. UNCHANGED <<file, rows, faults, drift>>
    BY DEF Add
<1>4. CASE Refused(t) /\ UNCHANGED used
    BY <1>1, <1>2, <1>3, <1>4, Refusing DEF Refused
<1>5. ASSUME lock' = t, heap' = [heap EXCEPT ![cur] = Grown(cur, site)], used' = used \cup {id},
             th' = Heard([th EXCEPT ![t] = new], Append(before, site), rows)
      PROVE  IInv'
    <2> DEFINE old == heap[cur].cells
               len == heap[cur].len
               cells == IF len = Len(old) THEN Append(old, site) ELSE [old EXCEPT ![len + 1] = site]
               obj == Grown(cur, site)
               f == [th EXCEPT ![t] = new]
               list == Append(before, site)
    <2> HIDE DEF new
    <2>1. /\ cur \in 1..cur /\ heap[cur] \in StoreObject /\ old \in Seq(Cell) /\ len \in Nat
          /\ Len(old) \in Nat /\ Slice(old, len, 0) /\ Sound(cur)
          /\ heap \in Seq(StoreObject) /\ cur = Len(heap)
        BY <1>2, FreeIsSound, HeapFacts DEF IInv, Sound
    <2>2. /\ before \in Seq(Site) /\ Len(before) = len
          /\ \A j \in 1..len : before[j] = old[j]
        BY <1>2, FreeIsSound
    <2>3. site \in Site /\ site.id = id /\ site \in Cell /\ id \in Ids /\ id \notin used
        BY <1>1 DEF Site, Cell
    <2> HIDE DEF site, before
    <2>4. len <= Len(old)
        BY <2>1 DEF Slice
    <2>5. /\ cells \in Seq(Cell) /\ Len(old) <= Len(cells) /\ cells[len + 1] = site
          /\ len + 1 <= Len(cells) /\ Len(cells) \in Nat
          /\ \A j \in 1..Len(cells) : j # len + 1 => j \in 1..Len(old) /\ cells[j] = old[j]
        <3>1. CASE len = Len(old)
            <4>1. cells = Append(old, site)
                BY <3>1
            <4> HIDE DEF cells, old, len
            <4>2. /\ cells \in Seq(Cell) /\ Len(cells) = Len(old) + 1 /\ cells[Len(old) + 1] = site
                  /\ \A j \in 1..Len(old) : cells[j] = old[j]
                BY <2>1, <2>3, <4>1
            <4> QED BY <2>1, <3>1, <4>2
        <3>2. CASE len # Len(old)
            <4>1. cells = [old EXCEPT ![len + 1] = site] /\ len + 1 \in 1..Len(old)
                BY <2>1, <2>4, <3>2
            <4> HIDE DEF cells, old, len
            <4>2. /\ cells \in Seq(Cell) /\ Len(cells) = Len(old) /\ cells[len + 1] = site
                  /\ \A j \in 1..Len(old) : j # len + 1 => cells[j] = old[j]
                BY <2>1, <2>3, <4>1
            <4> QED BY <2>1, <4>1, <4>2
        <3> QED BY <3>1, <3>2
    <2>6. obj = [heap[cur] EXCEPT !.len = len + 1, !.cells = cells]
        BY DEF Grown
    <2> HIDE DEF cells
    <2>7. obj \in StoreObject /\ obj.cells = cells /\ obj.len = len + 1
        <3>1. len + 1 \in Nat /\ heap[cur] \in StoreObject
            BY <2>1
        <3> HIDE DEF obj, len
        <3> QED BY <2>5, <2>6, <3>1 DEF StoreObject
    <2>8. heap' = [heap EXCEPT ![cur] = obj]
        BY <1>5
    <2> HIDE DEF obj
    <2>9. \A j \in 1..Len(old) : old[j] \in Site => old[j].id \in used
        BY DEF IInv, Minted
    <2>10. Slice(cells, len + 1, 0)
        <3>1. \A j \in 1..Len(cells) : IF j <= len + 1 THEN cells[j] \in Site ELSE cells[j] = Blank
            <4> SUFFICES ASSUME NEW j \in 1..Len(cells)
                         PROVE  IF j <= len + 1 THEN cells[j] \in Site ELSE cells[j] = Blank
                OBVIOUS
            <4>1. CASE j = len + 1
                BY <2>1, <2>3, <2>5, <4>1
            <4>2. CASE j # len + 1
                <5>1. j \in 1..Len(old) /\ cells[j] = old[j]
                    BY <2>5, <4>2
                <5>2. (j <= len + 1) <=> (j <= len)
                    BY <2>1, <4>2
                <5> QED BY <2>1, <5>1, <5>2 DEF Slice
            <4> QED BY <4>1, <4>2
        <3>2. ASSUME NEW j \in (1..(len + 1)) \ {0}, NEW k \in (1..(len + 1)) \ {0}, cells[j].id = cells[k].id
              PROVE  j = k
            <4>1. \A x \in 1..len : cells[x] = old[x] /\ old[x] \in Site /\ old[x].id # id
                <5> SUFFICES ASSUME NEW x \in 1..len
                             PROVE  cells[x] = old[x] /\ old[x] \in Site /\ old[x].id # id
                    OBVIOUS
                <5>1. x \in 1..Len(cells) /\ x # len + 1 /\ x <= len
                    BY <2>1, <2>5
                <5>2. x \in 1..Len(old) /\ cells[x] = old[x]
                    BY <2>5, <5>1
                <5>3. old[x] \in Site
                    BY <2>1, <5>1, <5>2 DEF Slice
                <5> QED BY <2>3, <2>9, <5>2, <5>3
            <4>2. (j = len + 1 \/ j \in 1..len) /\ (k = len + 1 \/ k \in 1..len)
                BY <2>1
            <4>3. CASE j \in 1..len /\ k \in 1..len
                <5>1. old[j].id = old[k].id
                    BY <3>2, <4>1, <4>3
                <5> QED BY <2>1, <4>3, <5>1 DEF Slice
            <4> QED BY <2>3, <2>5, <3>2, <4>1, <4>2, <4>3
        <3>3. len + 1 <= Len(cells)
            BY <2>5
        <3> QED BY <3>1, <3>2, <3>3 DEF Slice
    <2>11. /\ list \in Seq(Site) /\ Len(list) = len + 1
           /\ \A j \in 1..(len + 1) : list[j] = cells[j]
        <3>1. /\ list \in Seq(Site) /\ Len(list) = len + 1 /\ list[len + 1] = site
              /\ \A j \in 1..len : list[j] = before[j]
            BY <2>2, <2>3
        <3>2. \A j \in 1..len : j \in 1..Len(cells) /\ j # len + 1
            BY <2>1, <2>5
        <3> HIDE DEF list, old, len
        <3>3. \A j \in 1..len : list[j] = cells[j]
            BY <2>2, <2>5, <3>1, <3>2
        <3> QED BY <2>1, <2>5, <3>1, <3>3
    <2> HIDE DEF list
    <2>12. f \in [Threads -> Thread] /\ f[t] = new /\ \A u \in Threads \ {t} : f[u] = th[u]
        BY <1>2 DEF IInv, Threaded
    <2>13. th' = Heard(f, list, rows)
        BY <1>5 DEF list
    <2> HIDE DEF f
    <2>14. Follows(f[t], new) /\ \A u \in Threads \ {t} : Follows(f[u], th[u]) /\ f[u].raced = th[u].raced
        BY <2>12 DEF Follows
    <2>15. used \subseteq used' /\ used' \subseteq Ids
        BY <1>5, <2>3 DEF IInv, Numbers
    <2>16. \A j \in 1..Len(cells) : cells[j] \in Site => cells[j].id \in used'
        BY <1>5, <2>3, <2>5, <2>9
    <2>17. GrownAtEnd(cur)
        <3>1. cur' = cur /\ heap'[cur] = obj
            BY <2>1, <2>8 DEF cur
        <3>2. len <= len + 1
            BY <2>1
        <3>3. \A j \in 1..len : cells[j] = old[j]
            BY <2>1, <2>4, <2>5
        <3>4. \A j \in 1..(len + 1) : cells[j] \in Site
            BY <2>1, <2>5, <2>10 DEF Slice
        <3> QED BY <2>1, <2>7, <3>1, <3>2, <3>3, <3>4 DEF GrownAtEnd
    <2>18. Len(heap[cur].cells) <= Len(obj.cells)
        BY <2>5, <2>7
    <2>19. Told(t, new, obj, list, f)
        <3> HIDE DEF len
        <3> QED BY <1>2, <1>3, <1>5, <2>7, <2>8, <2>10, <2>11, <2>12, <2>13, <2>14, <2>15, <2>16, <2>17, <2>18
               DEF Told
    <2> QED BY <2>19, ToldStep
<1> QED BY <1>1, <1>4, <1>5 DEF Started

----------------------------------------------------------------------------
(* Steps that leave the store alone. *)

Settled(f) ==
    /\ heap' = heap /\ used' = used
    /\ f \in [Threads -> Thread] /\ th' \in [Threads -> Thread]
    /\ \A u \in Threads : /\ Follows(th'[u], f[u])
                          /\ Deleting(f[u]) /\ Reads(f[u]) /\ Quiet(f[u])
                          /\ f[u].at \in Holding <=> lock' = u
                          /\ th[u].at \in {"shift", "cut"} => f[u].at \in {"shift", "cut"}
    /\ lock' \in {lock, "free"}
    /\ file' \in Contents \cup {Unreadable}
    /\ jobs' = jobs /\ faults' \in 0..MaxFaults /\ drift' \subseteq {"hand", "failed", "stale"}

\* Such a step keeps the invariant, if reloads and calls are told what it does.
LEMMA SettledStep ==
    ASSUME IInv, NEW f, Settled(f), EachLoads', EachBorne', Records', DriftHasCause'
    PROVE  IInv'
<1> USE DEF Settled
<1>1. Heaped' /\ cur' = cur /\ \A o : Sound(o)' <=> Sound(o)
    BY DEF IInv, Heaped, cur, Sound
<1>2. Numbers'
    BY DEF IInv, Numbers
<1>3. Threaded'
    BY DEF Threaded
<1>4. \A u \in Threads : /\ th'[u].at = f[u].at /\ th'[u].pos = f[u].pos /\ th'[u].obj = f[u].obj
                         /\ th'[u].n = f[u].n /\ th'[u].seen = f[u].seen /\ th'[u].want = f[u].want
                         /\ th'[u].was = f[u].was /\ (f[u].touched => th'[u].touched)
    BY DEF Follows
<1>5. Locked'
    BY <1>4 DEF Locked, Holding
<1>6. Slices'
    <2>1. \A o \in 1..cur :
            o # cur \/ (\A u \in Threads : th'[u].at \notin {"shift", "cut"}) => Sound(o)
        BY <1>4 DEF IInv, Slices
    <2>2. \A u \in Threads : Deleting(th[u])'
        BY <1>1, <1>4 DEF Deleting
    <2>3. \A o \in 1..cur : heap'[o].len <= Len(heap'[o].cells)
        BY DEF IInv, Slices
    <2> QED BY <1>1, <2>1, <2>2, <2>3 DEF Slices
<1>7. Minted'
    BY <1>1 DEF IInv, Minted
<1>8. EachReads'
    BY <1>1, <1>4 DEF EachReads, Reads
<1>9. EachQuiet'
    <2> SUFFICES ASSUME NEW u \in Threads
                 PROVE  Quiet(th[u])'
        BY DEF EachQuiet
    <2> DEFINE new == th'[u]
               old == f[u]
    <2>1. /\ Quiet(old) /\ heap' = heap
          /\ new.at = old.at /\ new.obj = old.obj /\ new.n = old.n /\ new.seen = old.seen
          /\ new.want = old.want /\ new.was = old.was /\ (old.touched => new.touched)
        BY <1>4
    <2> HIDE DEF Settled, old
    <2> QED BY <2>1 DEF Quiet
<1> QED BY <1>1, <1>2, <1>3, <1>5, <1>6, <1>7, <1>8, <1>9 DEF IInv

\* What a thread is right after its change was saved.
LEMMA SavedFits ==
    ASSUME IInv, NEW t \in Threads, th[t].at = "save"
    PROVE  /\ Saved(t) \in Thread /\ Saved(t).at \in {"idle", "forget"}
           /\ Deleting(Saved(t)) /\ Reads(Saved(t)) /\ Quiet(Saved(t)) /\ Borne(Saved(t))
<1> DEFINE new == [th[t] EXCEPT !.at = "forget"]
<1>1. /\ th[t] \in Thread /\ Reads(th[t]) /\ Borne(th[t])
    BY DEF IInv, Threaded, EachReads, EachBorne
<1>2. /\ new \in Thread /\ new.at = "forget" /\ new.obj = th[t].obj /\ new.want = th[t].want
      /\ new.copy = th[t].copy /\ new.seen = th[t].seen /\ new.bore = th[t].bore /\ new.id = th[t].id
    BY <1>1 DEF Thread, Places
<1>3. Saved(t) = new \/ Saved(t) = Idle
    BY DEF Saved
<1> HIDE DEF new
<1>4. Deleting(new) /\ Reads(new) /\ Quiet(new)
    BY <1>1, <1>2 DEF Deleting, Reads, Quiet
<1>5. Borne(new)
    BY <1>1, <1>2 DEF Borne
<1> QED BY <1>2, <1>3, <1>4, <1>5, IdleFits DEF IInv

\* Who saves holds the lock, and what is saved is a sound slice.
LEMMA SaverIsSound ==
    ASSUME IInv, NEW t \in Threads, th[t].at = "save"
    PROVE  /\ lock = t /\ Content(cur) \in Contents
           /\ \A u \in Threads : th[u].at \in Holding => u = t
<1>1. lock = t /\ \A u \in Threads : th[u].at \in Holding => u = t
    BY DEF IInv, Locked, Holding
<1>2. \A u \in Threads : th[u].at \notin {"shift", "cut"}
    BY <1>1 DEF Holding
<1>3. cur \in 1..cur
    BY HeapFacts DEF IInv
<1>4. Sound(cur)
    BY <1>2, <1>3 DEF IInv, Slices
<1> QED BY <1>1, <1>3, <1>4, SoundContent DEF IInv

\* A file that is written or edited is known to the reloads under way.
LEMMA WitnessLoads ==
    ASSUME IInv, NEW f \in [Threads -> Thread], file' \in Contents \cup {Unreadable},
           th' = Witness(f, file'),
           \A u \in Threads : f[u].at \in {"load", "swap"} => f[u] = th[u]
    PROVE  EachLoads'
<1> SUFFICES ASSUME NEW u \in Threads
             PROVE  Loads(th[u])'
    BY DEF EachLoads
<1>1. /\ Follows(th'[u], f[u])
      /\ f[u].at \in {"load", "swap"} =>
           file' \in th'[u].held /\ (th'[u].raced <=> th[u].at = "swap")
    BY Witnessing
<1>2. Loads(th[u])
    BY DEF IInv, EachLoads
<1> QED BY <1>1, <1>2 DEF Loads, Follows

\* With the store as it was and no new record, nobody new bears a name.
LEMMA SameBorne ==
    ASSUME NEW f \in [Threads -> Thread], heap' = heap, rows' \subseteq rows, th' \in [Threads -> Thread],
           \A u \in Threads : Follows(th'[u], f[u]) /\ Borne(f[u])
    PROVE  EachBorne'
<1> SUFFICES ASSUME NEW u \in Threads, th'[u].want # "none"
             PROVE  Borne(th[u])'
    BY DEF EachBorne, Borne
<1>1. /\ th'[u].at = f[u].at /\ th'[u].obj = f[u].obj /\ th'[u].seen = f[u].seen
      /\ th'[u].want = f[u].want /\ th'[u].copy = f[u].copy /\ th'[u].id = f[u].id
      /\ f[u].bore \subseteq th'[u].bore
    BY DEF Follows
<1>2. /\ Bearers(heap[cur].cells, rows \cup f[u].copy, f[u].want) \subseteq f[u].bore
      /\ f[u].at \in {"header", "read"} =>
           Bearers(heap[f[u].obj].cells, f[u].copy, f[u].want) \subseteq f[u].bore
      /\ Bearers(f[u].seen, f[u].copy, f[u].want) \subseteq f[u].bore
      /\ f[u].at \in {"wait", "shift", "cut", "save", "forget"} => f[u].id \in f[u].bore
    BY <1>1 DEF Borne
<1>3. Bearers(heap[cur].cells, rows' \cup f[u].copy, f[u].want)
        \subseteq Bearers(heap[cur].cells, rows \cup f[u].copy, f[u].want)
    BY DEF Bearers
<1>4. cur' = cur
    BY DEF cur
<1> QED BY <1>1, <1>2, <1>3, <1>4 DEF Borne

\* A fault is counted.
LEMMA FaultCounts ==
    ASSUME Numbers, Fault
    PROVE  faults' \in 0..MaxFaults
BY SiteStoreAssumption DEF Numbers, Fault

\* A save makes the file what the store is, or is counted as failed.
LEMMA SaveStep ==
    ASSUME IInv, NEW t \in Threads, Save(t)
    PROVE  IInv'
<1>1. /\ th[t].at = "save" /\ lock = t /\ Content(cur) \in Contents
      /\ \A u \in Threads : th[u].at \in Holding => u = t
    BY SaverIsSound DEF Save, At
<1>2. Records'
    BY DEF Save, IInv, Records
<1>3. CASE UNCHANGED faults /\ file' = Content(cur)
    <2> DEFINE f == [th EXCEPT ![t] = Saved(t)]
    <2>1. file' = Content(cur) /\ drift' = {} /\ lock' = "free" /\ th' = Witness(f, file')
          /\ UNCHANGED <<heap, used, jobs, rows>>
        <3>1. ~ (Fault /\ UNCHANGED faults)
            BY DEF Fault, IInv, Numbers
        <3> QED BY <1>3, <3>1 DEF Save
    <2>2. /\ f \in [Threads -> Thread] /\ f[t] = Saved(t)
          /\ \A u \in Threads \ {t} : f[u] = th[u]
        BY <1>1, SavedFits DEF IInv, Threaded
    <2>3. \A u \in Threads : f[u].at \notin Holding
        BY <1>1, <2>2, SavedFits DEF Holding
    <2> HIDE DEF f
    <2>4. th' \in [Threads -> Thread] /\ \A u \in Threads : Follows(th'[u], f[u])
        BY <1>1, <2>1, <2>2, Witnessing
    <2>5. \A u \in Threads : Deleting(f[u]) /\ Reads(f[u]) /\ Quiet(f[u]) /\ Borne(f[u])
        BY <1>1, <2>2, SavedFits DEF IInv, Slices, EachReads, EachQuiet, EachBorne
    <2>6. Settled(f)
        BY <1>1, <1>3, <2>1, <2>2, <2>3, <2>4, <2>5, SiteStoreAssumption DEF Settled, IInv, Numbers, Holding
    <2>7. EachLoads'
        BY <1>1, <2>1, <2>2, SavedFits, WitnessLoads
    <2>8. EachBorne'
        BY <2>1, <2>2, <2>4, <2>5, SameBorne
    <2>9. DriftHasCause'
        BY <2>1 DEF DriftHasCause, Content, cur
    <2> QED BY <1>2, <2>6, <2>7, <2>8, <2>9, SettledStep
<1>4. CASE Fault /\ drift' = drift \cup {"failed"} /\ th' = [th EXCEPT ![t] = Idle] /\ UNCHANGED file
    <2>1. lock' = "free" /\ UNCHANGED <<heap, used, jobs, rows>>
        BY DEF Save
    <2>2. /\ th' \in [Threads -> Thread] /\ th'[t] = Idle
          /\ \A u \in Threads \ {t} : th'[u] = th[u]
        BY <1>4, IdleFits DEF IInv, Threaded
    <2>3. \A u \in Threads : th'[u].at \notin Holding
        BY <1>1, <2>2, IdleFits DEF Holding, IInv
    <2>4. \A u \in Threads : Deleting(th'[u]) /\ Reads(th'[u]) /\ Quiet(th'[u]) /\ Loads(th'[u]) /\ Borne(th'[u])
        BY <2>2, IdleFits DEF IInv, Slices, EachReads, EachQuiet, EachLoads, EachBorne
    <2>4a. \A u \in Threads : Follows(th'[u], th'[u])
        BY DEF Follows
    <2>4b. \A u \in Threads : th[u].at \notin {"shift", "cut"}
        BY <1>1 DEF Holding
    <2>5. Settled(th')
        BY <1>1, <1>4, <2>1, <2>2, <2>3, <2>4, <2>4a, <2>4b, FaultCounts, SiteStoreAssumption
           DEF Settled, IInv, Numbers
    <2>6. EachLoads'
        BY <1>4, <2>4 DEF EachLoads, Loads
    <2>7. EachBorne'
        BY <2>1, <2>2, <2>4, <2>4a, SameBorne
    <2>8. DriftHasCause'
        BY <1>4 DEF DriftHasCause
    <2> QED BY <1>2, <2>5, <2>6, <2>7, <2>8, SettledStep
<1> QED BY <1>3, <1>4 DEF Save

\* An edit by hand is among the causes of a drift, and reloads under way see it.
LEMMA HandEditStep ==
    ASSUME IInv, HandEdit
    PROVE  IInv'
<1>1. /\ faults' \in 0..MaxFaults /\ file' \in Contents \cup {Unreadable}
      /\ drift' = drift \cup {"hand"} /\ th' = Witness(th, file')
      /\ UNCHANGED <<heap, lock, used, jobs, rows>>
    BY FaultCounts, SiteStoreAssumption DEF HandEdit, IInv
<1>2. th \in [Threads -> Thread]
    BY DEF IInv, Threaded
<1>3. \A u \in Threads : /\ th' \in [Threads -> Thread] /\ Follows(th'[u], th[u])
    BY <1>1, <1>2, Witnessing
<1>4. th' \in [Threads -> Thread]
    <2>1. CASE Threads = {}
        BY <1>1, <1>2, <2>1 DEF Witness
    <2>2. CASE Threads # {}
        BY <1>3, <2>2
    <2> QED BY <2>1, <2>2
<1>5. \A u \in Threads : Deleting(th[u]) /\ Reads(th[u]) /\ Quiet(th[u]) /\ Borne(th[u])
    BY DEF IInv, Slices, EachReads, EachQuiet, EachBorne
<1>6. Settled(th)
    BY <1>1, <1>2, <1>3, <1>4, <1>5 DEF Settled, IInv, Numbers, Locked, Holding
<1>7. EachLoads'
    BY <1>1, <1>2, WitnessLoads
<1>8. EachBorne'
    BY <1>1, <1>2, <1>3, <1>4, <1>5, SameBorne
<1>9. Records' /\ DriftHasCause'
    BY <1>1 DEF IInv, Records, DriftHasCause
<1> QED BY <1>6, <1>7, <1>8, <1>9, SettledStep

\* A round that records what it probed adds bearers only that the calls are told of.
LEMMA RecordStep ==
    ASSUME IInv, NEW t \in Threads, Record(t)
    PROVE  IInv'
<1> DEFINE seen == th[t].seen
           last == {i \in DOMAIN seen : \A j \in DOMAIN seen : seen[j].id = seen[i].id => j <= i}
           probed == {seen[i] : i \in last} \ {Blank}
           f == [th EXCEPT ![t] = Idle]
<1>1. /\ th[t].at = "done" /\ th[t].want = "none" /\ seen \in Seq(Cell)
      /\ UNCHANGED <<heap, lock, file, used, jobs, faults, drift>>
    BY DEF Record, At, Calling, IInv, Threaded, Thread
<1>2. rows' = probed \cup {r \in rows : r.id \notin SeenIds(t)}
    BY DEF Record
<1>3. th' = Heard(f, Content(cur).sites, rows')
    BY DEF Record
<1>4. \A p \in probed : p \in Site /\ p.id \in SeenIds(t)
    BY <1>1, BlankIsNone DEF SeenIds, Range, Cell
<1>5. \A p, q \in probed : p.id = q.id => p = q
    <2> SUFFICES ASSUME NEW i \in last, NEW j \in last, seen[i].id = seen[j].id
                 PROVE  seen[i] = seen[j]
        OBVIOUS
    <2>1. i \in Nat /\ j \in Nat /\ i <= j /\ j <= i
        BY <1>1
    <2> QED BY <2>1
<1> HIDE DEF probed
<1>6. Records'
    BY <1>2, <1>4, <1>5 DEF IInv, Records
<1>7. rows' \in SUBSET Site
    BY <1>6 DEF Records
<1>8. /\ f \in [Threads -> Thread] /\ f[t] = Idle /\ \A u \in Threads \ {t} : f[u] = th[u]
    BY IdleFits DEF IInv, Threaded
<1> HIDE DEF f
<1>9. \A name \in Urls, records \in SUBSET Site :
        /\ Content(cur).sites \in Seq(Cell)
        /\ Bearers(heap[cur].cells, records, name) \subseteq Bearers(Content(cur).sites, records, name)
    BY ListIsCells
<1>10. Content(cur).sites \in Seq(Cell)
    <2>1. cur \in 1..cur /\ heap[cur].cells \in Seq(Cell) /\ heap[cur].len \in Nat
          /\ heap[cur].len <= Len(heap[cur].cells)
        BY BlankBehind
    <2>2. \A j \in 1..heap[cur].len : heap[cur].cells[j] \in Cell
        BY <2>1
    <2> QED BY <2>1, <2>2, SubSeqProperties DEF Content
<1>11. /\ th' \in [Threads -> Thread]
       /\ \A u \in Threads : /\ Follows(th'[u], f[u]) /\ th'[u].raced = f[u].raced
                             /\ f[u].want # "none" =>
                                  Bearers(Content(cur).sites, rows' \cup f[u].copy, f[u].want) \subseteq th'[u].bore
    BY <1>3, <1>7, <1>8, <1>10, Hearing
<1>12. \A u \in Threads : Deleting(f[u]) /\ Reads(f[u]) /\ Quiet(f[u]) /\ Loads(f[u]) /\ Borne(f[u])
    BY <1>8, IdleFits DEF IInv, Slices, EachReads, EachQuiet, EachLoads, EachBorne
<1>13. Settled(f)
    <2>1. \A u \in Threads : (f[u].at \in Holding <=> lock' = u)
        BY <1>1, <1>8, IdleFits DEF IInv, Locked, Holding
    <2> QED BY <1>1, <1>8, <1>11, <1>12, <2>1 DEF Settled, IInv, Numbers
<1>14. EachLoads'
    BY <1>1, <1>11, <1>12 DEF EachLoads, Loads, Follows
<1>15. EachBorne'
    <2> SUFFICES ASSUME NEW u \in Threads, th'[u].want # "none"
                 PROVE  Borne(th[u])'
        BY DEF EachBorne, Borne
    <2>1. /\ th'[u].at = f[u].at /\ th'[u].obj = f[u].obj /\ th'[u].seen = f[u].seen
          /\ th'[u].want = f[u].want /\ th'[u].copy = f[u].copy /\ th'[u].id = f[u].id
          /\ f[u].bore \subseteq th'[u].bore
        BY <1>11 DEF Follows
    <2>2. f[u].want \in Urls /\ f[u].copy \in SUBSET Site /\ rows' \cup f[u].copy \in SUBSET Site
        BY <1>7, <1>8, <2>1 DEF Thread
    <2>3. Bearers(heap[cur].cells, rows' \cup f[u].copy, f[u].want)
            \subseteq Bearers(Content(cur).sites, rows' \cup f[u].copy, f[u].want)
        BY <1>9, <2>2
    <2>4. Bearers(Content(cur).sites, rows' \cup f[u].copy, f[u].want) \subseteq th'[u].bore
        BY <1>11, <2>1
    <2>5. /\ f[u].at \in {"header", "read"} =>
               Bearers(heap[f[u].obj].cells, f[u].copy, f[u].want) \subseteq f[u].bore
          /\ Bearers(f[u].seen, f[u].copy, f[u].want) \subseteq f[u].bore
          /\ f[u].at \in {"wait", "shift", "cut", "save", "forget"} => f[u].id \in f[u].bore
        BY <1>12, <2>1 DEF Borne
    <2>6. heap' = heap /\ cur' = cur
        BY <1>1 DEF cur
    <2> QED BY <2>1, <2>3, <2>4, <2>5, <2>6 DEF Borne
<1>16. DriftHasCause'
    BY <1>1 DEF IInv, DriftHasCause, Content, cur
<1> QED BY <1>6, <1>13, <1>14, <1>15, <1>16, SettledStep

----------------------------------------------------------------------------
(* Steps that bring in a store read from the file. *)

\* The object that is swapped in is sound, and the readers keep the old one.
LEMMA SwapStep ==
    ASSUME IInv, NEW t \in Threads, Swap(t)
    PROVE  IInv'
<1> DEFINE c == th[t].fresh
           f == [th EXCEPT ![t] = Idle]
<1>1. /\ th[t].at = "swap" /\ lock = "free" /\ heap' = Append(heap, Object(c))
      /\ used' = used \cup IdsOf(c) /\ UNCHANGED <<lock, file, jobs, faults, rows>>
      /\ drift' = IF th[t].raced THEN {"stale"} ELSE {}
    BY DEF Swap, At
<1>2. c \in Contents /\ (th[t].raced \/ c = file) /\ (th[t].raced \in BOOLEAN)
    BY <1>1 DEF IInv, EachLoads, Loads, Threaded, Thread, Numbers
<1>3. /\ Object(c) \in StoreObject /\ Slice(Object(c).cells, Object(c).len, 0)
      /\ Object(c).len = Len(Object(c).cells)
      /\ SubSeq(Object(c).cells, 1, Object(c).len) = c.sites
      /\ Object(c).cells = c.sites /\ Object(c).on = c.on
      /\ c = [sites |-> c.sites, on |-> c.on] /\ c.sites \in Seq(Site)
    BY <1>2, ObjectOf
<1>4. th' = Heard(f, c.sites, rows)
    BY DEF Swap
<1>5. /\ f \in [Threads -> Thread] /\ f[t] = Idle /\ \A u \in Threads \ {t} : f[u] = th[u]
    BY IdleFits DEF IInv, Threaded
<1>6. c.sites \in Seq(Cell) /\ rows \in SUBSET Site
    BY <1>3 DEF Cell, IInv, Records
<1>7. heap \in Seq(StoreObject) /\ cur = Len(heap) /\ cur \in Nat \ {0}
    BY HeapFacts DEF IInv
<1>8. \A u \in Threads : /\ Sound(cur) /\ th[u].at \notin Holding
    BY <1>1, FreeIsSound
<1> HIDE DEF f, c
<1>9. /\ heap' \in Seq(StoreObject) \ {<<>>} /\ cur' = cur + 1
      /\ heap'[cur + 1] = Object(c) /\ \A o \in 1..cur : heap'[o] = heap[o]
    BY <1>1, <1>3, <1>7 DEF cur
<1>10. /\ th' \in [Threads -> Thread]
       /\ \A u \in Threads : /\ Follows(th'[u], f[u]) /\ th'[u].raced = f[u].raced
                             /\ f[u].want # "none" =>
                                  Bearers(c.sites, rows \cup f[u].copy, f[u].want) \subseteq th'[u].bore
    BY <1>4, <1>5, <1>6, Hearing
<1>11. th'[t].at = "idle" /\ th'[t].want = "none" /\ th'[t].obj = 1 /\ Others(t)
    <2>1. Follows(th'[t], Idle) /\ \A u \in Threads \ {t} : Follows(th'[u], th[u])
        BY <1>5, <1>10
    <2>2. th'[t].at = "idle" /\ th'[t].want = "none" /\ th'[t].obj = 1
        BY <2>1 DEF Follows, Idle
    <2> QED BY <1>10, <2>1, <2>2 DEF Others
<1>12. Heaped' /\ Threaded'
    BY <1>9, <1>10 DEF Heaped, Threaded
<1>13. Records'
    BY <1>1 DEF IInv, Records
<1>14. Locked' /\ lock' \in Threads \cup {"free"}
    <2>1. ~ (lock' = t)
        BY <1>1, SiteStoreAssumption
    <2> QED BY <1>1, <1>11, <2>1, KeepLocked DEF IInv, Numbers, Holding
<1>15. IdsOf(c) \subseteq Ids
    <2>1. \A i \in DOMAIN c.sites : c.sites[i] \in Site
        BY <1>3
    <2> QED BY <2>1 DEF IdsOf, Site
<1>16. Numbers'
    BY <1>1, <1>14, <1>15 DEF IInv, Numbers
<1>17. Slices'
    <2>1. \A u \in Threads : th'[u].at \notin {"shift", "cut"}
        BY <1>8, <1>11 DEF Others, Follows, Holding
    <2>2. \A u \in Threads : Deleting(th[u])'
        BY <2>1 DEF Deleting
    <2>3. ASSUME NEW o \in 1..(cur + 1)
          PROVE  heap'[o].len <= Len(heap'[o].cells) /\ Sound(o)'
        <3>1. CASE o = cur + 1
            BY <1>3, <1>9, <3>1 DEF Sound, Slice
        <3>2. CASE o # cur + 1
            <4>1. o \in 1..cur
                BY <1>7, <3>2
            <4>2. Sound(o) /\ heap[o].len <= Len(heap[o].cells)
                BY <1>8, <4>1, <1>1, FreeIsSound DEF IInv, Slices, Holding
            <4> QED BY <1>9, <4>1, <4>2 DEF Sound
        <3> QED BY <3>1, <3>2
    <2> QED BY <1>9, <2>2, <2>3 DEF Slices
<1>18. Minted'
    <2>1. \A j \in 1..Len(c.sites) : c.sites[j].id \in used'
        BY <1>1, <1>3 DEF IdsOf
    <2> QED BY <1>3, <1>9, <2>1 DEF Minted
<1>19. EachReads'
    <2>1. Reads(th[t])'
        BY <1>7, <1>9, <1>11 DEF Reads
    <2>2. cur <= cur' /\ \A o \in 1..cur : Len(heap[o].cells) <= Len(heap'[o].cells)
        <3>1. \A o \in 1..cur : Len(heap[o].cells) \in Nat /\ heap'[o] = heap[o]
            BY <1>9, HeapFacts DEF IInv
        <3>2. \A o \in 1..cur : Len(heap[o].cells) <= Len(heap'[o].cells)
            BY <3>1
        <3> QED BY <1>7, <1>9, <3>2
    <2> QED BY <1>11, <1>12, <2>1, <2>2, KeepReads DEF IInv
<1>20. EachQuiet'
    <2>1. Quiet(th[t])'
        BY <1>11 DEF Quiet
    <2>2. \A u \in Threads \ {t} : heap'[th[u].obj] = heap[th[u].obj]
        BY <1>7, <1>9 DEF IInv, Threaded, Thread, EachReads, Reads
    <2>3. cur <= cur'
        BY <1>7, <1>9
    <2> QED BY <1>11, <1>12, <2>1, <2>2, <2>3, KeepQuiet DEF IInv
<1>21. EachLoads'
    <2>1. Loads(th[t])'
        BY <1>11 DEF Loads
    <2>2. \A u \in Threads \ {t} : th'[u].raced = th[u].raced
        BY <1>5, <1>10
    <2> QED BY <1>1, <1>11, <2>1, <2>2, KeepLoads DEF IInv
<1>22. EachBorne'
    <2>1. Borne(th[t])'
        BY <1>11 DEF Borne
    <2>2. \A u \in Threads \ {t} : th[u].want # "none" =>
             Bearers(heap'[cur'].cells, rows' \cup th[u].copy, th[u].want) \subseteq th'[u].bore
        BY <1>1, <1>3, <1>5, <1>9, <1>10
    <2>3. rows' \in SUBSET Site /\ \A o \in 1..cur : heap'[o].cells = heap[o].cells
        BY <1>1, <1>6, <1>9
    <2> QED BY <1>6, <1>11, <1>12, <2>1, <2>2, <2>3, KeepBorne DEF IInv
<1>23. DriftHasCause'
    <2> SUFFICES ASSUME drift' = {}
                 PROVE  file' = Content(cur)'
        BY DEF DriftHasCause
    <2>1. c = file
        BY <1>1, <1>2
    <2>2. Content(cur)' = [sites |-> c.sites, on |-> c.on]
        BY <1>3, <1>9 DEF Content
    <2> QED BY <1>1, <1>3, <2>1, <2>2
<1> QED BY <1>12, <1>13, <1>14, <1>16, <1>17, <1>18, <1>19, <1>20, <1>21, <1>22, <1>23 DEF IInv

\* A thread that has nothing in the daemon.
Resting(r) == r.at \in {"idle", "wait"} /\ r.obj = 1 /\ Borne(r)

\* A daemon that has just read its file, and does nothing yet.
Fresh(c) ==
    /\ c \in Contents
    /\ heap = <<Object(c)>> /\ lock = "free" /\ file = c
    /\ th \in [Threads -> Thread]
    /\ \A u \in Threads : Resting(th[u])
    /\ used \subseteq Ids /\ IdsOf(c) \subseteq used
    /\ jobs \in 0..MaxJobs /\ faults \in 0..MaxFaults /\ drift = {}

\* A daemon that has just read its file satisfies the invariant.
LEMMA FreshFits ==
    ASSUME NEW c, Fresh(c), Records
    PROVE  IInv
<1> USE DEF Fresh
<1>1. /\ Object(c) \in StoreObject /\ Slice(Object(c).cells, Object(c).len, 0)
      /\ Object(c).len = Len(Object(c).cells)
      /\ SubSeq(Object(c).cells, 1, Object(c).len) = c.sites
      /\ Object(c).cells = c.sites /\ Object(c).on = c.on
      /\ c = [sites |-> c.sites, on |-> c.on] /\ c.sites \in Seq(Site)
    BY ObjectOf
<1>2. heap \in Seq(StoreObject) \ {<<>>} /\ cur = 1 /\ heap[1] = Object(c)
    BY <1>1 DEF cur
<1>3. Heaped
    BY <1>2 DEF Heaped
<1>4. \A u \in Threads : /\ th[u].at \in {"idle", "wait"}
                         /\ Deleting(th[u]) /\ Reads(th[u]) /\ Quiet(th[u]) /\ Loads(th[u]) /\ Borne(th[u])
    BY <1>2 DEF Resting, Deleting, Reads, Quiet, Loads
<1>5. Numbers /\ Threaded /\ Locked
    BY <1>4, SiteStoreAssumption DEF Numbers, Threaded, Locked
<1>6. Slices
    BY <1>1, <1>2, <1>4 DEF Slices, Sound, Slice
<1>7. Minted
    <2>1. \A j \in 1..Len(c.sites) : c.sites[j].id \in used
        BY <1>1 DEF IdsOf
    <2> QED BY <1>1, <1>2, <2>1 DEF Minted
<1>8. EachReads /\ EachQuiet /\ EachLoads /\ EachBorne
    BY <1>4 DEF EachReads, EachQuiet, EachLoads, EachBorne
<1>9. DriftHasCause
    BY <1>1, <1>2 DEF DriftHasCause, Content
<1> QED BY <1>3, <1>5, <1>6, <1>7, <1>8, <1>9 DEF IInv

\* The same, of what is in sites.json at the moment.
LEMMA FreshFileFits == Fresh(file) /\ Records => IInv
BY FreshFits

\* A restart drops the memory and the threads of the daemon, and reads the file;
\* a command line that outlives it knows an id that bore its name.
LEMMA RestartStep ==
    ASSUME IInv, Restart
    PROVE  IInv'
<1>1. file \in Contents /\ UNCHANGED <<file, jobs>>
    BY DEF Restart, IInv, Numbers
<1>2. Records'
    BY DEF Restart, IInv, Records
<1>3. IdsOf(file) \subseteq Ids /\ file.sites \in Seq(Cell)
    <2>1. file.sites \in Seq(Site)
        BY <1>1 DEF Contents
    <2>2. \A i \in DOMAIN file.sites : file.sites[i] \in Site
        BY <2>1
    <2> QED BY <2>1, <2>2 DEF IdsOf, Site, Cell
<1>4. faults' \in 0..MaxFaults
    BY FaultCounts DEF Restart, IInv
<1>5. PICK alive \in SUBSET {t \in Threads : Outlives(t)} :
        th' = Heard([t \in Threads |-> IF t \in alive THEN th[t] ELSE Idle], file.sites, rows')
    BY DEF Restart
<1> DEFINE f == [t \in Threads |-> IF t \in alive THEN th[t] ELSE Idle]
<1>6. rows' \in SUBSET Site
    BY <1>2 DEF Records
<1>7. /\ f \in [Threads -> Thread]
      /\ \A u \in Threads : f[u] = Idle \/ (f[u] = th[u] /\ th[u].at = "wait")
    <2>1. Idle \in Thread /\ th \in [Threads -> Thread]
        BY IdleFits DEF IInv, Threaded
    <2>2. \A u \in alive : th[u].at = "wait"
        BY <1>5 DEF Outlives, At
    <2> QED BY <2>1, <2>2
<1>8. \A u \in Threads : /\ th' \in [Threads -> Thread] /\ Follows(th'[u], f[u])
                         /\ f[u].want # "none" =>
                              Bearers(file.sites, rows' \cup f[u].copy, f[u].want) \subseteq th'[u].bore
    <2>1. th' = Heard(f, file.sites, rows')
        BY <1>5
    <2> HIDE DEF f
    <2> QED BY <1>3, <1>6, <1>7, <2>1, Hearing
<1>9. heap' = <<Object(file)>> /\ cur' = 1 /\ heap'[cur'].cells = file.sites
    <2>1. Object(file).cells = file.sites
        BY <1>1, ObjectOf
    <2> QED BY <2>1 DEF Restart, cur
<1> HIDE DEF f
<1>10. ASSUME NEW u \in Threads
       PROVE  Resting(th[u])'
    <2>1. CASE f[u] = Idle
        <3>0. Follows(th'[u], Idle)
            BY <1>8, <2>1
        <3>1. th'[u].at = "idle" /\ th'[u].obj = 1 /\ th'[u].want = "none"
            BY <3>0 DEF Follows, Idle
        <3>2. Borne(th[u])'
            BY <3>1 DEF Borne
        <3> QED BY <3>1, <3>2 DEF Resting
    <2>2. CASE f[u] = th[u] /\ th[u].at = "wait"
        <3>1. /\ th'[u].at = "wait" /\ th'[u].obj = th[u].obj /\ th'[u].seen = th[u].seen
              /\ th'[u].want = th[u].want /\ th'[u].copy = th[u].copy /\ th'[u].id = th[u].id
              /\ th[u].bore \subseteq th'[u].bore
            BY <1>8, <2>2 DEF Follows
        <3>2. th[u].obj = 1 /\ Borne(th[u])
            BY <2>2 DEF IInv, EachReads, Reads, EachBorne
        <3>3. th[u].want # "none" =>
                Bearers(heap'[cur'].cells, rows' \cup th[u].copy, th[u].want) \subseteq th'[u].bore
            BY <1>8, <1>9, <2>2
        <3> QED BY <2>2, <3>1, <3>2, <3>3 DEF Resting, Borne
    <2> QED BY <1>7, <2>1, <2>2
<1>11. th' \in [Threads -> Thread]
    <2>1. CASE Threads = {}
        BY <1>5, <2>1 DEF Heard
    <2> QED BY <1>8, <2>1
<1>12. Fresh(file)'
    BY <1>1, <1>3, <1>4, <1>9, <1>10, <1>11 DEF Fresh, Restart, IInv, Numbers, IdsOf
<1> QED BY <1>2, <1>12, FreshFileFits, PTL

\* The first start.
LEMMA InitInv ==
    ASSUME Init
    PROVE  IInv
<1> DEFINE list == InitSites.sites
<1>1. InitSites \in Contents /\ list \in Seq(Site)
    BY SiteStoreAssumption DEF Contents
<1>2. \A i, j \in DOMAIN list : list[i].id = list[j].id => i = j
    BY <1>1 DEF Contents
<1>3. rows = {list[i] : i \in DOMAIN list} /\ used = {list[i].id : i \in DOMAIN list}
    BY DEF Init, Range, IdsOf
<1> HIDE DEF list
<1>4. Records
    <2>1. rows \subseteq Site
        BY <1>1, <1>3
    <2> QED BY <1>2, <1>3, <2>1 DEF Records
<1>5. used \subseteq Ids
    <2>1. \A i \in DOMAIN list : list[i] \in Site
        BY <1>1
    <2> QED BY <1>3, <2>1 DEF Site
<1>6. \A u \in Threads : th[u] = Idle /\ Resting(th[u])
    BY DEF Init, Resting, Borne, Idle
<1>7. Idle \in Thread
    BY DEF Idle, Thread, Places, Ops, Looks
<1>8. Fresh(InitSites)
    BY <1>1, <1>5, <1>6, <1>7, SiteStoreAssumption DEF Fresh, Init
<1> QED BY <1>4, <1>8, FreshFits

----------------------------------------------------------------------------
(* The invariant holds. *)

\* Every step.
LEMMA StepInv ==
    ASSUME IInv, [Next]_vars
    PROVE  IInv'
<1>1. CASE UNCHANGED vars
    <2>1. /\ th' = th /\ heap' = heap /\ lock' = lock /\ file' = file /\ used' = used /\ rows' = rows
          /\ jobs' = jobs /\ faults' = faults /\ drift' = drift
        BY <1>1 DEF vars
    <2>2. Settled(th)
        BY <2>1 DEF Settled, Follows, IInv, Numbers, Threaded, Locked, Slices, EachReads, EachQuiet, Holding
    <2>3. EachLoads' /\ EachBorne' /\ Records' /\ DriftHasCause'
        BY <2>1 DEF IInv, EachLoads, Loads, EachBorne, Borne, Records, DriftHasCause, Content, cur
    <2> QED BY <2>2, <2>3, SettledStep
<1>2. CASE HandEdit
    BY <1>2, HandEditStep
<1>3. CASE Restart
    BY <1>3, RestartStep
<1>4. ASSUME NEW t \in Threads,
             \/ Add(t) \/ Edit(t) \/ RemoveSite(t) \/ Shift(t) \/ Cut(t) \/ Set(t) \/ Save(t)
      PROVE  IInv'
    BY <1>4, AddStep, EditStep, RemoveSiteStep, ShiftStep, CutStep, SetStep, SaveStep
<1>5. ASSUME NEW t \in Threads,
             \/ Forget(t) \/ Reload(t) \/ Load(t) \/ Swap(t)
             \/ Get(t) \/ Header(t) \/ ReadCell(t) \/ Record(t)
      PROVE  IInv'
    BY <1>5, ForgetStep, ReloadStep, LoadStep, SwapStep, GetStep, HeaderStep, ReadCellStep, RecordStep
<1>6. ASSUME NEW t \in Threads, Tool(t) \/ Command(t) \/ Copy(t) \/ Resolve(t)
      PROVE  IInv'
    <2>1. Tool(t) => IInv'
        BY CallStep DEF Tool, Looks
    <2>2. Command(t) => IInv'
        BY CallStep DEF Command, Looks
    <2> QED BY <1>6, <2>1, <2>2, CopyStep, ResolveStep
<1> QED BY <1>1, <1>2, <1>3, <1>4, <1>5, <1>6 DEF Next

\* The invariant holds in every reachable state.
THEOREM Invariance == Spec => []IInv
BY InitInv, StepInv, PTL DEF Spec

----------------------------------------------------------------------------
(* What the invariant promises. *)

\* Whatever requests, readers, reloads, edits by hand and restarts do, every
\* variable keeps its type: a store nobody is changing is a list of sites with
\* ids of their own, the lock is held by the thread that changes or saves, and
\* no site has two records.
THEOREM SiteStoreTypes == Spec => []TypeOK
<1>1. ASSUME IInv
      PROVE  TypeOK
    <2>1. heap \in Seq([cells : Seq(Cell), len : Nat, on : BOOLEAN]) \ {<<>>}
        BY <1>1 DEF IInv, Heaped, StoreObject
    <2>2. ASSUME NEW o \in 1..cur
          PROVE  /\ heap[o].len <= Len(heap[o].cells)
                 /\ lock = "free" => Content(o) \in Contents
        <3>1. heap[o].len <= Len(heap[o].cells)
            BY <1>1 DEF IInv, Slices
        <3>2. ASSUME lock = "free"
              PROVE  Content(o) \in Contents
            <4>1. \A u \in Threads : th[u].at \notin {"shift", "cut"}
                BY <1>1, <3>2, FreeIsSound DEF Holding
            <4>2. Sound(o)
                BY <1>1, <4>1 DEF IInv, Slices
            <4> QED BY <1>1, <4>2, SoundContent DEF IInv
        <3> QED BY <3>1, <3>2
    <2>3. /\ lock \in Threads \cup {"free"} /\ file \in Contents \cup {Unreadable}
          /\ used \subseteq Ids /\ jobs \in 0..MaxJobs /\ faults \in 0..MaxFaults
          /\ drift \subseteq {"hand", "failed", "stale"}
        BY <1>1 DEF IInv, Numbers
    <2>4. rows \subseteq Site /\ \A r, s \in rows : r.id = s.id => r = s
        BY <1>1 DEF IInv, Records
    <2>5. /\ th \in [Threads -> Thread]
          /\ \A t \in Threads :
               /\ th[t].obj <= cur
               /\ th[t].at \in {"shift", "cut", "save"} <=> lock = t
        BY <1>1 DEF IInv, Threaded, Locked, EachReads, Reads
    <2> QED BY <2>1, <2>2, <2>3, <2>4, <2>5 DEF TypeOK
<1> QED BY <1>1, Invariance, PTL

\* The store in memory and sites.json say the same whenever nobody holds the
\* lock, unless a write failed, an edit by hand was not loaded or a reload was
\* overtaken: for any number of requests and reloads at once.
THEOREM SiteStoreDrift == Spec => []DriftHasCause
<1>1. IInv => DriftHasCause
    BY DEF IInv
<1> QED BY <1>1, Invariance, PTL

\* A reader that iterates after it released the lock has every site it began
\* with, and no blank one, if no site was removed or edited under it.
THEOREM SiteStoreReaders == Spec => []QuietReadsWhole
<1>1. ASSUME IInv
      PROVE  QuietReadsWhole
    <2> SUFFICES ASSUME NEW t \in Threads, th[t].at = "done", th[t].want = "none", ~th[t].touched
                 PROVE  /\ th[t].was \subseteq Range(th[t].seen)
                        /\ Blank \notin Range(th[t].seen)
        BY DEF QuietReadsWhole, At, Calling
    <2>1. Quiet(th[t]) /\ th[t].seen \in Seq(Cell)
        BY <1>1 DEF IInv, EachQuiet, Threaded, Thread
    <2>2. /\ \A j \in 1..Len(th[t].seen) : th[t].seen[j] \in Site
          /\ \A s \in th[t].was : \E j \in 1..Len(th[t].seen) : th[t].seen[j] = s
        BY <2>1 DEF Quiet
    <2>3. DOMAIN th[t].seen = 1..Len(th[t].seen)
        BY <2>1
    <2>4. Range(th[t].seen) = {th[t].seen[j] : j \in 1..Len(th[t].seen)}
        BY <2>3 DEF Range
    <2> QED BY <2>2, <2>4, BlankIsNone
<1> QED BY <1>1, Invariance, PTL

\* What a tool or a command changes by name is a site that had the name while
\* the call ran, however the look-up and the change are interleaved with others.
THEOREM SiteStoreNamed == Spec => []ToolHitsNamed
<1>1. ASSUME IInv
      PROVE  ToolHitsNamed
    BY <1>1 DEF IInv, EachBorne, Borne, ToolHitsNamed, Calling
<1> QED BY <1>1, Invariance, PTL

\* A step of one thread leaves the others where they are.
LEMMA OthersStay ==
    ASSUME IInv, NEW t \in Threads, NEW u \in Threads \ {t},
           \/ Add(t) \/ Edit(t) \/ RemoveSite(t) \/ Shift(t) \/ Cut(t) \/ Set(t) \/ Save(t)
           \/ Forget(t) \/ Reload(t) \/ Load(t) \/ Swap(t)
           \/ Get(t) \/ Header(t) \/ ReadCell(t) \/ Record(t)
           \/ Tool(t) \/ Command(t) \/ Copy(t) \/ Resolve(t)
    PROVE  th'[u].at = th[u].at
<1>1. th \in [Threads -> Thread] /\ th[u] \in Thread
    BY DEF IInv, Threaded
<1>2. \A new : [th EXCEPT ![t] = new][u] = th[u]
    BY <1>1
<1>3. ASSUME NEW new, NEW f, f = [th EXCEPT ![t] = new],
             \/ th' = f \/ th' = Touched(f)
             \/ \E list, records : th' = Heard(f, list, records)
             \/ \E list, records : th' = Heard(Touched(f), list, records)
             \/ \E c : th' = Witness(f, c)
      PROVE  th'[u].at = th[u].at
    <2>1. f[u] = th[u]
        BY <1>2, <1>3
    <2>2. Touched(f)[u].at = th[u].at
        BY <1>1, <2>1 DEF Touched, Thread
    <2>3. ASSUME NEW list, NEW records
          PROVE  Heard(f, list, records)[u].at = th[u].at
        BY <1>1, <2>1 DEF Heard, Thread
    <2>4. ASSUME NEW list, NEW records
          PROVE  Heard(Touched(f), list, records)[u].at = th[u].at
        BY <1>1, <2>1 DEF Heard, Touched, Thread
    <2>5. ASSUME NEW c
          PROVE  Witness(f, c)[u].at = th[u].at
        BY <1>1, <2>1 DEF Witness, Thread
    <2> QED BY <1>3, <2>1, <2>2, <2>3, <2>4, <2>5
<1>4. CASE Add(t)
    <2>1. PICK url \in Urls, id \in Ids \ used :
            \/ Refused(t)
            \/ th' = Heard([th EXCEPT ![t] = [Begun(t, "add", id, url) EXCEPT !.at = "save"]],
                           Append(Content(cur).sites, [id |-> id, url |-> url]), rows)
        BY <1>4 DEF Add
    <2>2. CASE Refused(t)
        BY <1>3, <2>2 DEF Refused
    <2>3. CASE ~Refused(t)
        <3> DEFINE new == [Begun(t, "add", id, url) EXCEPT !.at = "save"]
        <3>1. \E list, records : th' = Heard([th EXCEPT ![t] = new], list, records)
            BY <2>1, <2>3
        <3> HIDE DEF new
        <3> QED BY <1>3, <3>1
    <2> QED BY <2>2, <2>3
<1>5. CASE Edit(t)
    <2>1. PICK id \in Ids, url \in NewUrls :
            \/ Refused(t)
            \/ th' = Heard(Touched([th EXCEPT ![t] = [Begun(t, "edit", id, url) EXCEPT !.at = "save"]]),
                           Content(cur)'.sites, rows)
        BY <1>5 DEF Edit
    <2>2. CASE Refused(t)
        BY <1>3, <2>2 DEF Refused
    <2>3. CASE ~Refused(t)
        <3> DEFINE new == [Begun(t, "edit", id, url) EXCEPT !.at = "save"]
        <3>1. \E list, records : th' = Heard(Touched([th EXCEPT ![t] = new]), list, records)
            BY <2>1, <2>3
        <3> HIDE DEF new
        <3> QED BY <1>3, <3>1
    <2> QED BY <2>2, <2>3
<1>6. CASE Shift(t) \/ Cut(t)
    <2>1. \E new : th' = Touched([th EXCEPT ![t] = new])
        BY <1>6 DEF Shift, Cut
    <2> QED BY <1>3, <2>1
<1>7. CASE Save(t)
    <2>1. \E new : \/ th' = [th EXCEPT ![t] = new]
                  \/ th' = Witness([th EXCEPT ![t] = new], Content(cur))
        BY <1>7 DEF Save
    <2> QED BY <1>3, <2>1
<1>8. CASE Swap(t) \/ Record(t)
    <2>1. \E list, records : th' = Heard([th EXCEPT ![t] = Idle], list, records)
        BY <1>8 DEF Swap, Record
    <2> QED BY <1>3, <2>1
<1>9. CASE \/ RemoveSite(t) \/ Set(t) \/ Forget(t) \/ Reload(t) \/ Load(t) \/ Get(t) \/ Header(t)
           \/ ReadCell(t) \/ Tool(t) \/ Command(t) \/ Copy(t) \/ Resolve(t)
    BY <1>2, <1>9 DEF RemoveSite, Set, Forget, Reload, Load, Get, Header, ReadCell,
       Tool, Command, Call, Copy, Resolve
<1> QED BY <1>4, <1>5, <1>6, <1>7, <1>8, <1>9

\* No reload takes a site out of the store that every readable sites.json since
\* the reload began had.
THEOREM SiteStoreReloads == Spec => ReloadKeepsSites
<1> DEFINE KeepsSites(t) == \A id \in IdsOf(Content(cur)) \ IdsOf(Content(cur)') :
                        \E c \in th[t].held \ {Unreadable} : id \notin IdsOf(c)
           Keeps == \A t \in Threads :
                      At(t, "swap") /\ th'[t].at = "idle" /\ jobs' = jobs /\ faults' = faults => KeepsSites(t)
<1>1. ASSUME IInv, [Next]_vars
      PROVE  [Keeps]_vars
    <2> SUFFICES ASSUME Next, NEW t \in Threads, th[t].at = "swap", th'[t].at = "idle",
                        jobs' = jobs, faults' = faults
                 PROVE  KeepsSites(t)
        BY <1>1 DEF At
    <2>1. /\ th \in [Threads -> Thread] /\ th[t].fresh \in th[t].held \ {Unreadable}
          /\ th[t].fresh \in Contents
        BY <1>1 DEF IInv, Threaded, Thread, EachLoads, Loads
    <2>2. Swap(t)
        <3>1. jobs \in Nat /\ faults \in Nat
            BY <1>1, SiteStoreAssumption DEF IInv, Numbers
        <3>2. ~HandEdit /\ ~Restart
            BY <3>1 DEF HandEdit, Restart, Fault
        <3>3. PICK u \in Threads :
                \/ Add(u) \/ Edit(u) \/ RemoveSite(u) \/ Shift(u) \/ Cut(u) \/ Set(u) \/ Save(u)
                \/ Forget(u) \/ Reload(u) \/ Load(u) \/ Swap(u)
                \/ Get(u) \/ Header(u) \/ ReadCell(u) \/ Record(u)
                \/ Tool(u) \/ Command(u) \/ Copy(u) \/ Resolve(u)
            BY <3>2 DEF Next
        <3>4. CASE u = t
            <4>1. ~MayAsk(t) /\ ~Job(t)
                BY DEF MayAsk, Job, Free, At
            <4> QED BY <3>3, <3>4, <4>1 DEF Add, Edit, RemoveSite, Shift, Cut, Set, Save, Forget,
                     Reload, Load, Get, Header, ReadCell, Record, Tool, Command, Call, Copy, Resolve, At
        <3>5. CASE u # t
            BY <1>1, <3>3, <3>5, OthersStay
        <3> QED BY <3>4, <3>5
    <2>3. Content(cur)' = th[t].fresh
        <3>1. heap \in Seq(StoreObject) /\ cur = Len(heap) /\ cur \in Nat
            BY <1>1, HeapFacts DEF IInv
        <3>2. /\ Object(th[t].fresh) \in StoreObject /\ heap' = Append(heap, Object(th[t].fresh))
              /\ [sites |-> SubSeq(Object(th[t].fresh).cells, 1, Object(th[t].fresh).len),
                  on |-> Object(th[t].fresh).on] = th[t].fresh
            BY <2>1, <2>2, ObjectOf DEF Swap
        <3>3. cur' = cur + 1 /\ heap'[cur + 1] = Object(th[t].fresh)
            BY <3>1, <3>2 DEF cur
        <3> QED BY <3>2, <3>3 DEF Content
    <2> QED BY <2>1, <2>3
<1> QED BY <1>1, Invariance, PTL DEF Spec, ReloadKeepsSites
=============================================================================
