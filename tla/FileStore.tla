------------------------------ MODULE FileStore ------------------------------
(***************************************************************************)
(* One file of the config directory (store/store.go), written by the       *)
(* goroutines of a daemon and, while a second daemon is started by         *)
(* mistake, by those of both: Dir.Write puts a temporary file in place by  *)
(* a rename, Dir.Read reads what the name stood for when it was opened,    *)
(* Dir.Sweep removes the temporary files a daemon finds when it starts.    *)
(*                                                                         *)
(* A file is an inode; temporary names are random, so the inode also       *)
(* stands for the temporary name, which is never reused.  The file system  *)
(* is external: a rename or removal is atomic; after a loss of power the   *)
(* directory may lack the latest of them, and what was not synced may be   *)
(* lost.  Modes and symbolic links, which nothing here changes, are left   *)
(* out.                                                                    *)
(***************************************************************************)
EXTENDS Integers

CONSTANTS
    Daemons,
    Writers,    \* goroutines that write the file
    Readers,    \* goroutines that read it
    Owner,      \* the daemon each belongs to
    Data,       \* what is written
    MaxWrites,  \* temporary files ever created
    MaxFaults   \* losses of power, exits, and calls of the system that fail

NoFile == 0
NoData == "nothing"
Torn == "torn"
Failed == "failed"      \* what a read that failed returns

Inodes == 1..MaxWrites

ASSUME FileStoreAssumption ==
    /\ {MaxWrites, MaxFaults} \subseteq Nat
    /\ Owner \in [Writers \cup Readers -> Daemons]
    /\ {NoData, Torn, Failed} \cap Data = {}

VARIABLES
    file,      \* the inode the name stands for
    shown,     \* those it can stand for after a loss of power
    temps,     \* the inodes with a temporary name
    ino,       \* inode -> [data, whole, synced]
    used,      \* inodes ever created
    wr,        \* writer -> [at, tmp, data, result]
    rd,        \* reader -> [at, got]: the inode it has open, what it read last
    daemon,    \* daemon -> [at, list]
    faults,
    litter     \* history: temporary files no process is bound to remove

vars == <<file, shown, temps, ino, used, wr, rd, daemon, faults, litter>>
disk == <<file, shown, temps, ino, used>>

IdleWriter == [at |-> "idle", tmp |-> NoFile, data |-> NoData, result |-> "none"]
IdleReader == [at |-> NoFile, got |-> NoData]

\* What is read from an inode.
Content(i) ==
    IF i = NoFile THEN NoData ELSE IF ino[i].whole THEN ino[i].data ELSE Torn

\* The temporary files that have a writer.
Live == {wr[w].tmp : w \in Writers} \ {NoFile}

Inode == [data : Data \cup {NoData}, whole : BOOLEAN, synced : BOOLEAN]
Write == [at : {"idle", "create", "write", "sync", "close", "rename", "remove"},
          tmp : Inodes \cup {NoFile}, data : Data \cup {NoData},
          result : {"none", "ok", "error"}]
Read == [at : Inodes \cup {NoFile}, got : Data \cup {NoData, Failed}]
Daemon == [at : {"off", "load", "sweep", "up"}, list : SUBSET Inodes]

\* Each temporary file has one writer.
NoneShared == \A v, w \in Writers : v # w /\ wr[v].tmp = wr[w].tmp => wr[v].tmp = NoFile

TypeOK ==
    /\ file \in 0..used
    /\ shown \subseteq 0..used
    /\ temps \subseteq 1..used
    /\ ino \in [Inodes -> Inode]
    /\ used \in 0..MaxWrites
    /\ wr \in [Writers -> Write]
    /\ NoneShared
    /\ rd \in [Readers -> Read]
    /\ daemon \in [Daemons -> Daemon]
    /\ faults \in 0..MaxFaults
    /\ litter \subseteq 1..used

Init ==
    /\ file = NoFile
    /\ shown = {NoFile}
    /\ temps = {}
    /\ ino = [i \in Inodes |-> [data |-> NoData, whole |-> FALSE, synced |-> FALSE]]
    /\ used = 0
    /\ wr = [w \in Writers |-> IdleWriter]
    /\ rd = [r \in Readers |-> IdleReader]
    /\ daemon = [d \in Daemons |-> [at |-> "off", list |-> {}]]
    /\ faults = 0
    /\ litter = {}

Fault == faults < MaxFaults /\ faults' = faults + 1

----------------------------------------------------------------------------
(* Write. *)

At(w, here) == wr[w].at = here

Busy(d) ==
    \/ \E w \in Writers : Owner[w] = d /\ ~At(w, "idle")
    \/ \E r \in Readers : Owner[r] = d /\ rd[r].at # NoFile

\* A daemon that runs has many goroutines, one that is starting has one.
Runs(d) ==
    \/ daemon[d].at = "up"
    \/ daemon[d].at = "load" /\ ~Busy(d)

Call(w, d) ==
    /\ At(w, "idle")
    /\ Runs(Owner[w])
    /\ wr' = [wr EXCEPT ![w] = [IdleWriter EXCEPT !.at = "create", !.data = d]]
    /\ UNCHANGED <<disk, rd, daemon, faults, litter>>

\* Variant without O_EXCL: a temporary file there is already will do.
CreateShared(w) ==
    /\ At(w, "create")
    /\ \E i \in temps \cup {used + 1} :
         /\ i <= MaxWrites
         /\ used' = IF i > used THEN i ELSE used
         /\ temps' = temps \cup {i}
         /\ ino' = [ino EXCEPT ![i] = [data |-> wr[w].data, whole |-> FALSE, synced |-> FALSE]]
         /\ wr' = [wr EXCEPT ![w].at = "write", ![w].tmp = i]
    /\ UNCHANGED <<file, shown, rd, daemon, faults, litter>>

\* O_CREATE and O_EXCL under a name of its own.
Create(w) ==
    /\ At(w, "create")
    /\ used < MaxWrites
    /\ used' = used + 1
    /\ temps' = temps \cup {used'}
    /\ ino' = [ino EXCEPT ![used'].data = wr[w].data]
    /\ wr' = [wr EXCEPT ![w].at = "write", ![w].tmp = used']
    /\ UNCHANGED <<file, shown, rd, daemon, faults, litter>>

Fill(w) ==
    /\ At(w, "write")
    /\ ino' = [ino EXCEPT ![wr[w].tmp].whole = TRUE]
    /\ wr' = [wr EXCEPT ![w].at = "sync"]
    /\ UNCHANGED <<file, shown, temps, used, rd, daemon, faults, litter>>

\* Variant: the rename does not wait for the data.
SyncSkipped(w) ==
    /\ At(w, "sync")
    /\ wr' = [wr EXCEPT ![w].at = "close"]
    /\ UNCHANGED <<disk, rd, daemon, faults, litter>>

Sync(w) ==
    /\ At(w, "sync")
    /\ ino' = [ino EXCEPT ![wr[w].tmp].synced = TRUE]
    /\ wr' = [wr EXCEPT ![w].at = "close"]
    /\ UNCHANGED <<file, shown, temps, used, rd, daemon, faults, litter>>

Close(w) ==
    /\ At(w, "close")
    /\ wr' = [wr EXCEPT ![w].at = "rename"]
    /\ UNCHANGED <<disk, rd, daemon, faults, litter>>

Rename(w) ==
    /\ At(w, "rename")
    /\ wr[w].tmp \in temps
    /\ file' = wr[w].tmp
    /\ shown' = shown \cup {file'}
    /\ temps' = temps \ {wr[w].tmp}
    /\ wr' = [wr EXCEPT ![w] = [IdleWriter EXCEPT !.result = "ok"]]
    /\ UNCHANGED <<ino, used, rd, daemon, faults, litter>>

\* Any of these calls can fail; the rename does when the temporary file was
\* swept.  The deferred removal runs once there is a file to remove.
Fail(w) ==
    /\ wr[w].at \in {"create", "write", "sync", "close", "rename"}
    /\ \/ At(w, "rename") /\ wr[w].tmp \notin temps /\ UNCHANGED faults
       \/ Fault
    /\ wr' = [wr EXCEPT ![w] = IF At(w, "create") THEN [IdleWriter EXCEPT !.result = "error"]
                               ELSE [@ EXCEPT !.at = "remove"]]
    /\ UNCHANGED <<disk, rd, daemon, litter>>

\* Variant: the error is returned and nothing else done.
RemoveForgotten(w) ==
    /\ At(w, "remove")
    /\ wr' = [wr EXCEPT ![w] = [IdleWriter EXCEPT !.result = "error"]]
    /\ UNCHANGED <<disk, rd, daemon, faults, litter>>

\* The deferred removal, whose own error is ignored.
Remove(w) ==
    /\ At(w, "remove")
    /\ \/ temps' = temps \ {wr[w].tmp} /\ UNCHANGED <<faults, litter>>
       \/ Fault /\ UNCHANGED temps /\ litter' = litter \cup {wr[w].tmp}
    /\ wr' = [wr EXCEPT ![w] = [IdleWriter EXCEPT !.result = "error"]]
    /\ UNCHANGED <<file, shown, ino, used, rd, daemon>>

----------------------------------------------------------------------------
(* Read: the descriptor keeps the inode whatever becomes of the name. *)

\* A file that is not there is told from one that cannot be read.
Missing(r) ==
    /\ rd[r].at = NoFile
    /\ Runs(Owner[r])
    /\ file = NoFile
    /\ rd' = [rd EXCEPT ![r].got = NoData]
    /\ UNCHANGED <<disk, wr, daemon, faults, litter>>

Open(r) ==
    /\ rd[r].at = NoFile
    /\ Runs(Owner[r])
    /\ file # NoFile
    /\ rd' = [rd EXCEPT ![r].at = file]
    /\ UNCHANGED <<disk, wr, daemon, faults, litter>>

ReadAll(r) ==
    /\ rd[r].at # NoFile
    /\ rd' = [rd EXCEPT ![r] = [at |-> NoFile, got |-> Content(rd[r].at)]]
    /\ UNCHANGED <<disk, wr, daemon, faults, litter>>

\* The open, the stat or the read fails: the error is returned in place of what
\* was read.
ReadFails(r) ==
    /\ rd[r].at # NoFile \/ Runs(Owner[r])
    /\ Fault
    /\ rd' = [rd EXCEPT ![r] = [at |-> NoFile, got |-> Failed]]
    /\ UNCHANGED <<disk, wr, daemon, litter>>

----------------------------------------------------------------------------
(* A daemon: it reads its sites, writes them on a first run, and sweeps      *)
(* before its goroutines start; it can end at any point.                   *)

Start(d) ==
    /\ daemon[d].at = "off"
    /\ daemon' = [daemon EXCEPT ![d].at = "load"]
    /\ UNCHANGED <<disk, wr, rd, faults, litter>>

\* Sweep reads the directory; if that fails nothing is swept.
Sweep(d) ==
    /\ daemon[d].at = "load" /\ ~Busy(d)
    /\ \/ daemon' = [daemon EXCEPT ![d] = [at |-> "sweep", list |-> temps]] /\ UNCHANGED faults
       \/ Fault /\ daemon' = [daemon EXCEPT ![d] = [at |-> "up", list |-> {}]]
    /\ UNCHANGED <<disk, wr, rd, litter>>

\* The names it read go one by one, whoever they belong to; a failed removal is
\* passed over.
SweepOne(d) ==
    /\ daemon[d].at = "sweep"
    /\ \E i \in daemon[d].list :
         /\ daemon' = [daemon EXCEPT ![d].list = @ \ {i}]
         /\ \/ temps' = temps \ {i} /\ litter' = litter \ {i} /\ UNCHANGED faults
            \/ Fault /\ UNCHANGED <<temps, litter>>
    /\ UNCHANGED <<file, shown, ino, used, wr, rd>>

Swept(d) ==
    /\ daemon[d].at = "sweep" /\ daemon[d].list = {}
    /\ daemon' = [daemon EXCEPT ![d].at = "up"]
    /\ UNCHANGED <<disk, wr, rd, faults, litter>>

\* The process is killed, returns from main, or finds the port taken.
Exit(d) ==
    /\ daemon[d].at # "off"
    /\ Fault
    /\ daemon' = [daemon EXCEPT ![d] = [at |-> "off", list |-> {}]]
    /\ wr' = [w \in Writers |-> IF Owner[w] = d THEN IdleWriter ELSE wr[w]]
    /\ rd' = [r \in Readers |-> IF Owner[r] = d THEN IdleReader ELSE rd[r]]
    /\ litter' = litter \cup ({wr[w].tmp : w \in {v \in Writers : Owner[v] = d}} \ {NoFile})
    /\ UNCHANGED disk

----------------------------------------------------------------------------
(* The file system. *)

Flush ==
    /\ shown # {file}
    /\ shown' = {file}
    /\ UNCHANGED <<file, temps, ino, used, wr, rd, daemon, faults, litter>>

PowerLoss ==
    /\ Fault
    /\ file' \in shown
    /\ shown' = {file'}
    /\ temps' \in SUBSET ((1..used) \ {file'})
    /\ litter' = temps'
    /\ \E lost \in SUBSET {i \in 1..used : ~ino[i].synced} :
         ino' = [i \in Inodes |-> IF i \in lost THEN [ino[i] EXCEPT !.whole = FALSE] ELSE ino[i]]
    /\ wr' = [w \in Writers |-> IdleWriter]
    /\ rd' = [r \in Readers |-> IdleReader]
    /\ daemon' = [d \in Daemons |-> [at |-> "off", list |-> {}]]
    /\ UNCHANGED used

Next ==
    \/ \E w \in Writers :
         \/ \E d \in Data : Call(w, d)
         \/ Create(w) \/ Fill(w) \/ Sync(w) \/ Close(w) \/ Rename(w)
         \/ Fail(w) \/ Remove(w)
    \/ \E r \in Readers : Missing(r) \/ Open(r) \/ ReadAll(r) \/ ReadFails(r)
    \/ \E d \in Daemons : Start(d) \/ Sweep(d) \/ SweepOne(d) \/ Swept(d) \/ Exit(d)
    \/ Flush
    \/ PowerLoss

Spec == Init /\ [][Next]_vars

----------------------------------------------------------------------------
\* The package's promise (AtomicFile), kept by every interleaving of writers,
\* readers, sweeps of a second daemon, failing calls, exits and losses of power:
\* what a write returns is what happened to the file, and no reader and no
\* restart ever finds a content that was not written whole: a read that cannot
\* have it says so.
Promise == INSTANCE AtomicFile WITH
    value  <- Content(file),
    recent <- {Content(i) : i \in shown},
    pend   <- [w \in Writers |-> wr[w].data],
    result <- [w \in Writers |-> wr[w].result],
    open   <- [r \in Readers |-> Content(rd[r].at)],
    got    <- [r \in Readers |-> rd[r].got]

Implements == Promise!Spec

\* A temporary file outlives its write only when its process was cut off or its
\* removal failed, and then only to the next sweep that gets it.
LitterSwept == temps \subseteq Live \cup litter
=============================================================================
