------------------------------ MODULE AtomicFile ------------------------------
(***************************************************************************)
(* What the store package promises of one file (store/store.go): writers   *)
(* replace it whole or not at all and are told which; a reader gets the    *)
(* whole content it had at one moment, or an error; the end of a process   *)
(* drops what it had under way; a loss of power brings back, at worst, an  *)
(* older content, never a torn one.  FileStore implements it.              *)
(***************************************************************************)
CONSTANTS
    Writers,
    Readers,
    Data,      \* what is written
    NoData,    \* no file, or nothing under way; not one of Data
    Failed     \* the error of a read; not one of Data

VARIABLES
    value,     \* the content of the file
    recent,    \* the contents a loss of power can leave it with
    pend,      \* what each writer is writing
    result,    \* what its last write returned
    open,      \* what the file held when each reader opened it
    got        \* what its last read returned

vars == <<value, recent, pend, result, open, got>>

TypeOK ==
    /\ value \in Data \cup {NoData}
    /\ recent \subseteq Data \cup {NoData}
    /\ pend \in [Writers -> Data \cup {NoData}]
    /\ result \in [Writers -> {"none", "ok", "error"}]
    /\ open \in [Readers -> Data \cup {NoData}]
    /\ got \in [Readers -> Data \cup {NoData, Failed}]

Init ==
    /\ value = NoData
    /\ recent = {NoData}
    /\ pend = [w \in Writers |-> NoData]
    /\ result = [w \in Writers |-> "none"]
    /\ open = [r \in Readers |-> NoData]
    /\ got = [r \in Readers |-> NoData]

Call(w, d) ==
    /\ pend[w] = NoData
    /\ pend' = [pend EXCEPT ![w] = d]
    /\ result' = [result EXCEPT ![w] = "none"]
    /\ UNCHANGED <<value, recent, open, got>>

Commit(w) ==
    /\ pend[w] # NoData
    /\ value' = pend[w]
    /\ recent' = recent \cup {pend[w]}
    /\ pend' = [pend EXCEPT ![w] = NoData]
    /\ result' = [result EXCEPT ![w] = "ok"]
    /\ UNCHANGED <<open, got>>

Abort(w) ==
    /\ pend[w] # NoData
    /\ pend' = [pend EXCEPT ![w] = NoData]
    /\ result' = [result EXCEPT ![w] = "error"]
    /\ UNCHANGED <<value, recent, open, got>>

Open(r) ==
    /\ open[r] = NoData /\ value # NoData
    /\ open' = [open EXCEPT ![r] = value]
    /\ UNCHANGED <<value, recent, pend, result, got>>

Missing(r) ==
    /\ open[r] = NoData /\ value = NoData
    /\ got' = [got EXCEPT ![r] = NoData]
    /\ UNCHANGED <<value, recent, pend, result, open>>

Refuse(r) ==
    /\ got' = [got EXCEPT ![r] = Failed]
    /\ open' = [open EXCEPT ![r] = NoData]
    /\ UNCHANGED <<value, recent, pend, result>>

Return(r) ==
    /\ open[r] # NoData
    /\ got' = [got EXCEPT ![r] = open[r]]
    /\ open' = [open EXCEPT ![r] = NoData]
    /\ UNCHANGED <<value, recent, pend, result>>

\* The end of a process: its writers W and readers R are gone.
Die(W, R) ==
    /\ pend' = [w \in Writers |-> IF w \in W THEN NoData ELSE pend[w]]
    /\ result' = [w \in Writers |-> IF w \in W THEN "none" ELSE result[w]]
    /\ open' = [r \in Readers |-> IF r \in R THEN NoData ELSE open[r]]
    /\ got' = [r \in Readers |-> IF r \in R THEN NoData ELSE got[r]]
    /\ UNCHANGED <<value, recent>>

Flush ==
    /\ recent' = {value}
    /\ UNCHANGED <<value, pend, result, open, got>>

PowerLoss ==
    /\ value' \in recent
    /\ recent' = {value'}
    /\ pend' = [w \in Writers |-> NoData]
    /\ result' = [w \in Writers |-> "none"]
    /\ open' = [r \in Readers |-> NoData]
    /\ got' = [r \in Readers |-> NoData]

Next ==
    \/ \E w \in Writers : Commit(w) \/ Abort(w) \/ \E d \in Data : Call(w, d)
    \/ \E r \in Readers : Missing(r) \/ Open(r) \/ Return(r) \/ Refuse(r)
    \/ \E W \in SUBSET Writers, R \in SUBSET Readers : Die(W, R)
    \/ Flush
    \/ PowerLoss

Spec == Init /\ [][Next]_vars
=============================================================================
