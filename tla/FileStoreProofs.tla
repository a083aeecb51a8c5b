--------------------------- MODULE FileStoreProofs ---------------------------
(***************************************************************************)
(* For every number of daemons, writers, readers and failures: the file    *)
(* store keeps the promise of AtomicFile, and its litter is swept.         *)
(*                                                                         *)
(* The refinement rests on Ready: what a write has reached at each point,  *)
(* and that no inode the name stands for, or can come to stand for after a *)
(* loss of power, lacks its data.                                          *)
(***************************************************************************)
EXTENDS FileStore, TLAPS

\* An inode fit to be read, now and after a loss of power.
Fit(i) ==
    \/ i = NoFile
    \/ i \in 1..used /\ ino[i].data \in Data /\ ino[i].whole /\ ino[i].synced

\* How far a write has come.
Ready(w) ==
    /\ wr[w].tmp \in 0..used
    /\ wr[w].at = "idle" <=> wr[w].data = NoData
    /\ wr[w].at \in {"idle", "create"} <=> wr[w].tmp = NoFile
    /\ wr[w].at \in {"write", "sync", "close", "rename"} => ino[wr[w].tmp].data = wr[w].data
    /\ wr[w].at \in {"sync", "close", "rename"} => ino[wr[w].tmp].whole
    /\ wr[w].at \in {"close", "rename"} => ino[wr[w].tmp].synced

Whole ==
    /\ file \in shown
    /\ \A i \in shown : Fit(i)
    /\ \A r \in Readers : Fit(rd[r].at)
    /\ \A w \in Writers : Ready(w)

IInv == TypeOK /\ Whole

\* The empty directory.
LEMMA InitHolds == Init => IInv /\ LitterSwept
<1> SUFFICES ASSUME Init PROVE IInv /\ LitterSwept
    OBVIOUS
<1> USE FileStoreAssumption
<1>1. TypeOK
    BY DEF Init, TypeOK, IdleWriter, IdleReader, Inodes, NoFile, Inode, Write, Read, Daemon, NoneShared
<1>2. Whole
    BY DEF Init, Whole, Fit, Ready, IdleWriter, IdleReader, NoFile
<1>3. LitterSwept
    BY DEF Init, LitterSwept
<1> QED BY <1>1, <1>2, <1>3 DEF IInv

\* A function stays one of its kind when one value is replaced.
LEMMA Updated ==
    ASSUME NEW S, NEW T, NEW f \in [S -> T], NEW x \in S, NEW y \in T
    PROVE  [f EXCEPT ![x] = y] \in [S -> T]
OBVIOUS

\* Every step keeps the types, and no two writers ever share a temporary file.
LEMMA StepKeepsTypes == IInv /\ [Next]_vars => TypeOK'
<1> SUFFICES ASSUME IInv, [Next]_vars PROVE TypeOK'
    OBVIOUS
<1> USE FileStoreAssumption DEF At, NoFile, Inodes, disk
<1>a. TypeOK /\ Whole
    BY DEF IInv
<1>1. ASSUME NEW w \in Writers, NEW d \in Data, Call(w, d) PROVE TypeOK'
  <2> DEFINE new == [IdleWriter EXCEPT !.at = "create", !.data = d]
  <2>1. new \in Write /\ new.tmp = NoFile
    BY DEF IdleWriter, Write
  <2>2. wr' = [wr EXCEPT ![w] = new] /\ wr \in [Writers -> Write]
    BY <1>1, <1>a DEF Call, TypeOK
  <2> HIDE DEF new
  <2>3. wr' \in [Writers -> Write]
    BY <2>1, <2>2, Updated
  <2>4. NoneShared'
    BY <1>a, <2>1, <2>2 DEF TypeOK, NoneShared
  <2> QED BY <1>1, <1>a, <2>3, <2>4 DEF Call, TypeOK
<1>2. ASSUME NEW w \in Writers, Create(w) PROVE TypeOK'
  <2> DEFINE new == [wr[w] EXCEPT !.at = "write", !.tmp = used']
             inode == [ino[used'] EXCEPT !.data = wr[w].data]
  <2>1. used' \in 1..MaxWrites /\ used' = used + 1
    BY <1>2, <1>a DEF Create, TypeOK
  <2>2. wr[w] \in Write /\ ino[used'] \in Inode
    BY <1>a, <2>1 DEF TypeOK
  <2>3. new \in Write /\ new.tmp = used'
    BY <2>1, <2>2 DEF Write
  <2>4. inode \in Inode
    BY <2>2 DEF Inode, Write
  <2>5. wr' = [wr EXCEPT ![w] = new] /\ wr \in [Writers -> Write]
    BY <1>2, <1>a DEF Create, TypeOK
  <2>6. ino' = [ino EXCEPT ![used'] = inode] /\ ino \in [Inodes -> Inode]
    BY <1>2, <1>a DEF Create, TypeOK
  <2> HIDE DEF new, inode
  <2>7. wr' \in [Writers -> Write]
    BY <2>3, <2>5, Updated
  <2>8. ino' \in [Inodes -> Inode]
    BY <2>1, <2>4, <2>6, Updated
  <2>9. NoneShared'
    BY <1>a, <2>1, <2>3, <2>5 DEF TypeOK, NoneShared, Whole, Ready
  <2> QED BY <1>2, <1>a, <2>1, <2>7, <2>8, <2>9 DEF Create, TypeOK
<1>3. ASSUME NEW w \in Writers, Fill(w) PROVE TypeOK'
  <2> DEFINE new == [wr[w] EXCEPT !.at = "sync"]
             inode == [ino[wr[w].tmp] EXCEPT !.whole = TRUE]
  <2>1. wr[w] \in Write /\ wr[w].tmp \in Inodes
    BY <1>3, <1>a DEF Fill, TypeOK, Whole, Ready, Write
  <2>2. ino[wr[w].tmp] \in Inode
    BY <1>a, <2>1 DEF TypeOK
  <2>3. new \in Write /\ new.tmp = wr[w].tmp
    BY <2>1 DEF Write
  <2>4. inode \in Inode
    BY <2>2 DEF Inode
  <2>5. wr' = [wr EXCEPT ![w] = new] /\ wr \in [Writers -> Write]
    BY <1>3, <1>a DEF Fill, TypeOK
  <2>6. ino' = [ino EXCEPT ![wr[w].tmp] = inode] /\ ino \in [Inodes -> Inode]
    BY <1>3, <1>a DEF Fill, TypeOK
  <2> HIDE DEF new, inode
  <2>7. wr' \in [Writers -> Write]
    BY <2>3, <2>5, Updated
  <2>8. ino' \in [Inodes -> Inode]
    BY <2>1, <2>4, <2>6, Updated
  <2>9. NoneShared'
    BY <1>a, <2>3, <2>5 DEF TypeOK, NoneShared
  <2> QED BY <1>3, <1>a, <2>7, <2>8, <2>9 DEF Fill, TypeOK
<1>4. ASSUME NEW w \in Writers, Sync(w) PROVE TypeOK'
  <2> DEFINE new == [wr[w] EXCEPT !.at = "close"]
             inode == [ino[wr[w].tmp] EXCEPT !.synced = TRUE]
  <2>1. wr[w] \in Write /\ wr[w].tmp \in Inodes
    BY <1>4, <1>a DEF Sync, TypeOK, Whole, Ready, Write
  <2>2. ino[wr[w].tmp] \in Inode
    BY <1>a, <2>1 DEF TypeOK
  <2>3. new \in Write /\ new.tmp = wr[w].tmp
    BY <2>1 DEF Write
  <2>4. inode \in Inode
    BY <2>2 DEF Inode
  <2>5. wr' = [wr EXCEPT ![w] = new] /\ wr \in [Writers -> Write]
    BY <1>4, <1>a DEF Sync, TypeOK
  <2>6. ino' = [ino EXCEPT ![wr[w].tmp] = inode] /\ ino \in [Inodes -> Inode]
    BY <1>4, <1>a DEF Sync, TypeOK
  <2> HIDE DEF new, inode
  <2>7. wr' \in [Writers -> Write]
    BY <2>3, <2>5, Updated
  <2>8. ino' \in [Inodes -> Inode]
    BY <2>1, <2>4, <2>6, Updated
  <2>9. NoneShared'
    BY <1>a, <2>3, <2>5 DEF TypeOK, NoneShared
  <2> QED BY <1>4, <1>a, <2>7, <2>8, <2>9 DEF Sync, TypeOK
<1>5. ASSUME NEW w \in Writers, Close(w) PROVE TypeOK'
  <2> DEFINE new == [wr[w] EXCEPT !.at = "rename"]
  <2>1. wr[w] \in Write
    BY <1>a DEF TypeOK
  <2>2. new \in Write /\ new.tmp = wr[w].tmp
    BY <2>1 DEF Write
  <2>3. wr' = [wr EXCEPT ![w] = new] /\ wr \in [Writers -> Write]
    BY <1>5, <1>a DEF Close, TypeOK
  <2> HIDE DEF new
  <2>4. wr' \in [Writers -> Write]
    BY <2>2, <2>3, Updated
  <2>5. NoneShared'
    BY <1>a, <2>2, <2>3 DEF TypeOK, NoneShared
  <2> QED BY <1>5, <1>a, <2>4, <2>5 DEF Close, TypeOK
<1>6. ASSUME NEW w \in Writers, Rename(w) PROVE TypeOK'
    BY <1>6, <1>a DEF Rename, IdleWriter, TypeOK, Write, NoneShared
<1>7. ASSUME NEW w \in Writers, Fail(w) PROVE TypeOK'
  <2> DEFINE new == IF wr[w].at = "create" THEN [IdleWriter EXCEPT !.result = "error"]
                    ELSE [wr[w] EXCEPT !.at = "remove"]
  <2>1. wr[w] \in Write
    BY <1>a DEF TypeOK
  <2>2. new \in Write /\ new.tmp \in {NoFile, wr[w].tmp}
    BY <2>1 DEF Write, IdleWriter
  <2>3. wr' = [wr EXCEPT ![w] = new] /\ wr \in [Writers -> Write]
    BY <1>7, <1>a DEF Fail, TypeOK
  <2> HIDE DEF new
  <2>4. wr' \in [Writers -> Write]
    BY <2>2, <2>3, Updated
  <2>5. NoneShared'
    BY <1>a, <2>2, <2>3 DEF TypeOK, NoneShared
  <2>6. faults' \in 0..MaxFaults
    BY <1>7, <1>a DEF Fail, Fault, TypeOK
  <2> QED BY <1>7, <1>a, <2>4, <2>5, <2>6 DEF Fail, TypeOK
<1>8. ASSUME NEW w \in Writers, Remove(w) PROVE TypeOK'
  <2> DEFINE new == [IdleWriter EXCEPT !.result = "error"]
  <2>1. new \in Write /\ new.tmp = NoFile
    BY DEF Write, IdleWriter
  <2>2. wr' = [wr EXCEPT ![w] = new] /\ wr \in [Writers -> Write]
    BY <1>8, <1>a DEF Remove, TypeOK
  <2> HIDE DEF new
  <2>3. wr' \in [Writers -> Write]
    BY <2>1, <2>2, Updated
  <2>4. NoneShared'
    BY <1>a, <2>1, <2>2 DEF TypeOK, NoneShared
  <2>5. wr[w].tmp \in 1..used
    BY <1>8, <1>a DEF Remove, TypeOK, Whole, Ready
  <2>6. temps' \subseteq 1..used /\ litter' \subseteq 1..used /\ faults' \in 0..MaxFaults
    BY <1>8, <1>a, <2>5 DEF Remove, Fault, TypeOK
  <2> QED BY <1>8, <1>a, <2>3, <2>4, <2>6 DEF Remove, TypeOK
<1>9. ASSUME NEW r \in Readers, Open(r) PROVE TypeOK'
  <2> DEFINE new == [rd[r] EXCEPT !.at = file]
  <2>1. rd[r] \in Read /\ file \in Inodes \cup {NoFile}
    BY <1>a DEF TypeOK
  <2>2. new \in Read
    BY <2>1 DEF Read
  <2>3. rd' = [rd EXCEPT ![r] = new] /\ rd \in [Readers -> Read]
    BY <1>9, <1>a DEF Open, TypeOK
  <2> HIDE DEF new
  <2>4. rd' \in [Readers -> Read]
    BY <2>2, <2>3, Updated
  <2> QED BY <1>9, <1>a, <2>4 DEF Open, TypeOK, NoneShared
<1>10. ASSUME NEW r \in Readers, ReadAll(r) PROVE TypeOK'
  <2> DEFINE new == [at |-> NoFile, got |-> Content(rd[r].at)]
  <2>1. Content(rd[r].at) \in Data
    BY <1>10, <1>a DEF ReadAll, Whole, Fit, Content
  <2>2. new \in Read
    BY <2>1 DEF Read
  <2>3. rd' = [rd EXCEPT ![r] = new] /\ rd \in [Readers -> Read]
    BY <1>10, <1>a DEF ReadAll, TypeOK
  <2> HIDE DEF new
  <2>4. rd' \in [Readers -> Read]
    BY <2>2, <2>3, Updated
  <2> QED BY <1>10, <1>a, <2>4 DEF ReadAll, TypeOK, NoneShared
<1>18. ASSUME NEW r \in Readers, Missing(r) PROVE TypeOK'
  <2> DEFINE new == [rd[r] EXCEPT !.got = NoData]
  <2>1. rd[r] \in Read
    BY <1>a DEF TypeOK
  <2>2. new \in Read
    BY <2>1 DEF Read
  <2>3. rd' = [rd EXCEPT ![r] = new] /\ rd \in [Readers -> Read]
    BY <1>18, <1>a DEF Missing, TypeOK
  <2> HIDE DEF new
  <2>4. rd' \in [Readers -> Read]
    BY <2>2, <2>3, Updated
  <2> QED BY <1>18, <1>a, <2>4 DEF Missing, TypeOK, NoneShared
<1>19. ASSUME NEW r \in Readers, ReadFails(r) PROVE TypeOK'
  <2> DEFINE new == [at |-> NoFile, got |-> Failed]
  <2>1. new \in Read
    BY DEF Read
  <2>2. rd' = [rd EXCEPT ![r] = new] /\ rd \in [Readers -> Read]
    BY <1>19, <1>a DEF ReadFails, TypeOK
  <2> HIDE DEF new
  <2>3. rd' \in [Readers -> Read]
    BY <2>1, <2>2, Updated
  <2>4. faults' \in 0..MaxFaults
    BY <1>19, <1>a DEF ReadFails, Fault, TypeOK
  <2> QED BY <1>19, <1>a, <2>3, <2>4 DEF ReadFails, TypeOK, NoneShared
<1>20. ASSUME NEW d \in Daemons, Start(d) PROVE TypeOK'
    BY <1>20, <1>a DEF Start, TypeOK, Daemon, NoneShared
<1>11. ASSUME NEW d \in Daemons, Sweep(d) PROVE TypeOK'
  <2>a. temps \subseteq Inodes
    BY <1>a DEF TypeOK
  <2>b. /\ [at |-> "sweep", list |-> temps] \in Daemon
        /\ [at |-> "up", list |-> {}] \in Daemon
    BY <2>a DEF Daemon
  <2>1. PICK new \in Daemon : daemon' = [daemon EXCEPT ![d] = new]
    BY <1>11, <2>b DEF Sweep
  <2>2. daemon' \in [Daemons -> Daemon]
    BY <1>a, <2>1, Updated DEF TypeOK
  <2>3. faults' \in 0..MaxFaults
    BY <1>11, <1>a DEF Sweep, Fault, TypeOK
  <2> QED BY <1>11, <1>a, <2>2, <2>3 DEF Sweep, TypeOK, NoneShared
<1>12. ASSUME NEW d \in Daemons, SweepOne(d) PROVE TypeOK'
    BY <1>12, <1>a DEF SweepOne, Fault, TypeOK, Daemon, NoneShared
<1>13. ASSUME NEW d \in Daemons, Swept(d) PROVE TypeOK'
    BY <1>13, <1>a DEF Swept, TypeOK, Daemon, NoneShared
<1>14. ASSUME NEW d \in Daemons, Exit(d) PROVE TypeOK'
  <2>1. wr' \in [Writers -> Write] /\ NoneShared'
    BY <1>14, <1>a DEF Exit, IdleWriter, Write, NoneShared, TypeOK
  <2>2. rd' \in [Readers -> Read]
    BY <1>14, <1>a DEF Exit, IdleReader, Read, TypeOK
  <2>3. daemon' \in [Daemons -> Daemon] /\ faults' \in 0..MaxFaults
    BY <1>14, <1>a DEF Exit, Fault, Daemon, TypeOK
  <2>4. \A w \in Writers : wr[w].tmp \in 0..used
    BY <1>a DEF Whole, Ready
  <2> DEFINE orphans == {wr[w].tmp : w \in {v \in Writers : Owner[v] = d}} \ {NoFile}
  <2>c. orphans \subseteq 1..used
    BY <1>a, <2>4 DEF TypeOK
  <2>d. litter' = litter \cup orphans
    BY <1>14 DEF Exit
  <2> HIDE DEF orphans
  <2>5. litter' \subseteq 1..used
    BY <1>14, <1>a, <2>c, <2>d DEF Exit, TypeOK
  <2> QED BY <1>14, <1>a, <2>1, <2>2, <2>3, <2>5 DEF Exit, TypeOK
<1>15. CASE Flush
    BY <1>15, <1>a DEF Flush, TypeOK, NoneShared
<1>16. CASE PowerLoss
  <2>1. wr' \in [Writers -> Write] /\ NoneShared'
    BY <1>16 DEF PowerLoss, IdleWriter, Write, NoneShared
  <2>2. rd' \in [Readers -> Read]
    BY <1>16 DEF PowerLoss, IdleReader, Read
  <2>3. daemon' \in [Daemons -> Daemon] /\ faults' \in 0..MaxFaults
    BY <1>16, <1>a DEF PowerLoss, Fault, Daemon, TypeOK
  <2>4. \A i \in Inodes : [ino[i] EXCEPT !.whole = FALSE] \in Inode
    BY <1>a DEF TypeOK, Inode
  <2>5. ino' \in [Inodes -> Inode]
    BY <1>16, <1>a, <2>4 DEF PowerLoss, TypeOK
  <2>6. /\ file' \in 0..used' /\ shown' \subseteq 0..used' /\ used' \in 0..MaxWrites
        /\ temps' \subseteq 1..used' /\ litter' \subseteq 1..used'
    BY <1>16, <1>a DEF PowerLoss, TypeOK
  <2> QED BY <2>1, <2>2, <2>3, <2>5, <2>6 DEF TypeOK
<1>17. CASE UNCHANGED vars
    BY <1>17, <1>a DEF vars, TypeOK, NoneShared
<1> QED BY <1>1, <1>2, <1>3, <1>4, <1>5, <1>6, <1>7, <1>8, <1>9, <1>10, <1>11, <1>12, <1>13, <1>14, <1>15, <1>16, <1>17,
          <1>18, <1>19, <1>20 DEF Next

\* Every step keeps what the name can stand for whole.
LEMMA StepKeepsWhole == IInv /\ [Next]_vars => Whole'
<1> SUFFICES ASSUME IInv, [Next]_vars PROVE Whole'
    OBVIOUS
<1> USE FileStoreAssumption DEF At, NoFile
<1>1. ASSUME NEW w \in Writers, NEW d \in Data, Call(w, d) PROVE Whole'
    BY <1>1 DEF Call, IdleWriter, IInv, TypeOK, Inode, Write, Read, Daemon, NoneShared, Whole, Fit, Ready, disk, Inodes
<1>2. ASSUME NEW w \in Writers, Create(w) PROVE Whole'
    BY <1>2 DEF Create, IInv, TypeOK, Inode, Write, Read, Daemon, NoneShared, Whole, Fit, Ready, disk, Inodes
<1>3. ASSUME NEW w \in Writers, Fill(w) PROVE Whole'
    BY <1>3 DEF Fill, IInv, TypeOK, Inode, Write, Read, Daemon, NoneShared, Whole, Fit, Ready, disk, Inodes
<1>4. ASSUME NEW w \in Writers, Sync(w) PROVE Whole'
    BY <1>4 DEF Sync, IInv, TypeOK, Inode, Write, Read, Daemon, NoneShared, Whole, Fit, Ready, disk, Inodes
<1>5. ASSUME NEW w \in Writers, Close(w) PROVE Whole'
    BY <1>5 DEF Close, IInv, TypeOK, Inode, Write, Read, Daemon, NoneShared, Whole, Fit, Ready, disk, Inodes
<1>6. ASSUME NEW w \in Writers, Rename(w) PROVE Whole'
    BY <1>6 DEF Rename, IdleWriter, IInv, TypeOK, Inode, Write, Read, Daemon, NoneShared, Whole, Fit, Ready, disk, Inodes
<1>7. ASSUME NEW w \in Writers, Fail(w) PROVE Whole'
    BY <1>7 DEF Fail, IdleWriter, Fault, IInv, TypeOK, Inode, Write, Read, Daemon, NoneShared, Whole, Fit, Ready, disk, Inodes
<1>8. ASSUME NEW w \in Writers, Remove(w) PROVE Whole'
    BY <1>8 DEF Remove, IdleWriter, Fault, IInv, TypeOK, Inode, Write, Read, Daemon, NoneShared, Whole, Fit, Ready, disk, Inodes
<1>9. ASSUME NEW r \in Readers, Open(r) PROVE Whole'
    BY <1>9 DEF Open, IInv, TypeOK, Inode, Write, Read, Daemon, NoneShared, Whole, Fit, Ready, disk, Inodes
<1>10. ASSUME NEW r \in Readers, ReadAll(r) PROVE Whole'
    BY <1>10 DEF ReadAll, Content, IInv, TypeOK, Inode, Write, Read, Daemon, NoneShared, Whole, Fit, Ready, disk, Inodes
<1>18. ASSUME NEW r \in Readers, Missing(r) PROVE Whole'
    BY <1>18 DEF Missing, IInv, TypeOK, Inode, Write, Read, Daemon, NoneShared, Whole, Fit, Ready, disk, Inodes
<1>19. ASSUME NEW r \in Readers, ReadFails(r) PROVE Whole'
    BY <1>19 DEF ReadFails, Fault, IInv, TypeOK, Inode, Write, Read, Daemon, NoneShared, Whole, Fit, Ready, disk, Inodes
<1>20. ASSUME NEW d \in Daemons, Start(d) PROVE Whole'
    BY <1>20 DEF Start, IInv, TypeOK, Inode, Write, Read, Daemon, NoneShared, Whole, Fit, Ready, disk, Inodes
<1>11. ASSUME NEW d \in Daemons, Sweep(d) PROVE Whole'
    BY <1>11 DEF Sweep, Fault, IInv, TypeOK, Inode, Write, Read, Daemon, NoneShared, Whole, Fit, Ready, disk, Inodes
<1>12. ASSUME NEW d \in Daemons, SweepOne(d) PROVE Whole'
    BY <1>12 DEF SweepOne, Fault, IInv, TypeOK, Inode, Write, Read, Daemon, NoneShared, Whole, Fit, Ready, disk, Inodes
<1>13. ASSUME NEW d \in Daemons, Swept(d) PROVE Whole'
    BY <1>13 DEF Swept, IInv, TypeOK, Inode, Write, Read, Daemon, NoneShared, Whole, Fit, Ready, disk, Inodes
<1>14. ASSUME NEW d \in Daemons, Exit(d) PROVE Whole'
    BY <1>14 DEF Exit, IdleWriter, IdleReader, Fault, IInv, TypeOK, Inode, Write, Read, Daemon, NoneShared, Whole, Fit, Ready, disk, Inodes
<1>15. CASE Flush
    BY <1>15 DEF Flush, IInv, TypeOK, Inode, Write, Read, Daemon, NoneShared, Whole, Fit, Ready, disk, Inodes
<1>16. CASE PowerLoss
    BY <1>16 DEF PowerLoss, IdleWriter, IdleReader, Fault, IInv, TypeOK, Inode, Write, Read, Daemon, NoneShared, Whole, Fit, Ready, disk, Inodes
<1>17. CASE UNCHANGED vars
    BY <1>17 DEF vars, IInv, TypeOK, Inode, Write, Read, Daemon, NoneShared, Whole, Fit, Ready, disk, Inodes
<1> QED BY <1>1, <1>2, <1>3, <1>4, <1>5, <1>6, <1>7, <1>8, <1>9, <1>10, <1>11, <1>12, <1>13, <1>14, <1>15, <1>16, <1>17,
          <1>18, <1>19, <1>20 DEF Next

\* A temporary file leaves the care of its writer only to become litter.
LEMMA StepKeepsLitter == IInv /\ LitterSwept /\ [Next]_vars => LitterSwept'
<1> SUFFICES ASSUME IInv /\ LitterSwept, [Next]_vars PROVE LitterSwept'
    OBVIOUS
<1> USE FileStoreAssumption DEF At, NoFile
<1>1. ASSUME NEW w \in Writers, NEW d \in Data, Call(w, d) PROVE LitterSwept'
    BY <1>1 DEF Call, IdleWriter, IInv, TypeOK, Inode, Write, Read, Daemon, NoneShared, Whole, Ready, LitterSwept, Live, disk, Inodes
<1>2. ASSUME NEW w \in Writers, Create(w) PROVE LitterSwept'
    BY <1>2 DEF Create, IInv, TypeOK, Inode, Write, Read, Daemon, NoneShared, Whole, Ready, LitterSwept, Live, disk, Inodes
<1>3. ASSUME NEW w \in Writers, Fill(w) PROVE LitterSwept'
    BY <1>3 DEF Fill, IInv, TypeOK, Inode, Write, Read, Daemon, NoneShared, Whole, Ready, LitterSwept, Live, disk, Inodes
<1>4. ASSUME NEW w \in Writers, Sync(w) PROVE LitterSwept'
    BY <1>4 DEF Sync, IInv, TypeOK, Inode, Write, Read, Daemon, NoneShared, Whole, Ready, LitterSwept, Live, disk, Inodes
<1>5. ASSUME NEW w \in Writers, Close(w) PROVE LitterSwept'
    BY <1>5 DEF Close, IInv, TypeOK, Inode, Write, Read, Daemon, NoneShared, Whole, Ready, LitterSwept, Live, disk, Inodes
<1>6. ASSUME NEW w \in Writers, Rename(w) PROVE LitterSwept'
    BY <1>6 DEF Rename, IdleWriter, IInv, TypeOK, Inode, Write, Read, Daemon, NoneShared, Whole, Ready, LitterSwept, Live, disk, Inodes
<1>7. ASSUME NEW w \in Writers, Fail(w) PROVE LitterSwept'
    BY <1>7 DEF Fail, IdleWriter, Fault, IInv, TypeOK, Inode, Write, Read, Daemon, NoneShared, Whole, Ready, LitterSwept, Live, disk, Inodes
<1>8. ASSUME NEW w \in Writers, Remove(w) PROVE LitterSwept'
    BY <1>8 DEF Remove, IdleWriter, Fault, IInv, TypeOK, Inode, Write, Read, Daemon, NoneShared, Whole, Ready, LitterSwept, Live, disk, Inodes
<1>9. ASSUME NEW r \in Readers, Open(r) PROVE LitterSwept'
    BY <1>9 DEF Open, IInv, TypeOK, Inode, Write, Read, Daemon, NoneShared, Whole, Ready, LitterSwept, Live, disk, Inodes
<1>10. ASSUME NEW r \in Readers, ReadAll(r) PROVE LitterSwept'
    BY <1>10 DEF ReadAll, Content, IInv, TypeOK, Inode, Write, Read, Daemon, NoneShared, Whole, Ready, LitterSwept, Live, disk, Inodes
<1>18. ASSUME NEW r \in Readers, Missing(r) PROVE LitterSwept'
    BY <1>18 DEF Missing, IInv, TypeOK, Inode, Write, Read, Daemon, NoneShared, Whole, Ready, LitterSwept, Live, disk, Inodes
<1>19. ASSUME NEW r \in Readers, ReadFails(r) PROVE LitterSwept'
    BY <1>19 DEF ReadFails, Fault, IInv, TypeOK, Inode, Write, Read, Daemon, NoneShared, Whole, Ready, LitterSwept, Live, disk, Inodes
<1>20. ASSUME NEW d \in Daemons, Start(d) PROVE LitterSwept'
    BY <1>20 DEF Start, IInv, TypeOK, Inode, Write, Read, Daemon, NoneShared, Whole, Ready, LitterSwept, Live, disk, Inodes
<1>11. ASSUME NEW d \in Daemons, Sweep(d) PROVE LitterSwept'
    BY <1>11 DEF Sweep, Fault, IInv, TypeOK, Inode, Write, Read, Daemon, NoneShared, Whole, Ready, LitterSwept, Live, disk, Inodes
<1>12. ASSUME NEW d \in Daemons, SweepOne(d) PROVE LitterSwept'
    BY <1>12 DEF SweepOne, Fault, IInv, TypeOK, Inode, Write, Read, Daemon, NoneShared, Whole, Ready, LitterSwept, Live, disk, Inodes
<1>13. ASSUME NEW d \in Daemons, Swept(d) PROVE LitterSwept'
    BY <1>13 DEF Swept, IInv, TypeOK, Inode, Write, Read, Daemon, NoneShared, Whole, Ready, LitterSwept, Live, disk, Inodes
<1>14. ASSUME NEW d \in Daemons, Exit(d) PROVE LitterSwept'
    BY <1>14 DEF Exit, IdleWriter, IdleReader, Fault, IInv, TypeOK, Inode, Write, Read, Daemon, NoneShared, Whole, Ready, LitterSwept, Live, disk, Inodes
<1>15. CASE Flush
    BY <1>15 DEF Flush, IInv, TypeOK, Inode, Write, Read, Daemon, NoneShared, Whole, Ready, LitterSwept, Live, disk, Inodes
<1>16. CASE PowerLoss
    BY <1>16 DEF PowerLoss, IdleWriter, IdleReader, Fault, IInv, TypeOK, Inode, Write, Read, Daemon, NoneShared, Whole, Ready, LitterSwept, Live, disk, Inodes
<1>17. CASE UNCHANGED vars
    BY <1>17 DEF vars, IInv, TypeOK, Inode, Write, Read, Daemon, NoneShared, Whole, Ready, LitterSwept, Live, disk, Inodes
<1> QED BY <1>1, <1>2, <1>3, <1>4, <1>5, <1>6, <1>7, <1>8, <1>9, <1>10, <1>11, <1>12, <1>13, <1>14, <1>15, <1>16, <1>17,
          <1>18, <1>19, <1>20 DEF Next

----------------------------------------------------------------------------
(* The refinement. *)

\* What could be read from an inode that is fit stays what is read from it.
LEMMA FitStays == IInv /\ [Next]_vars => \A i : Fit(i) => Content(i)' = Content(i)
<1> SUFFICES ASSUME IInv, [Next]_vars, NEW i, Fit(i) PROVE Content(i)' = Content(i)
    OBVIOUS
<1> USE FileStoreAssumption DEF At, NoFile, Inodes
<1>a. TypeOK /\ Whole
    BY DEF IInv
<1>b. CASE i = NoFile
    BY <1>b DEF Content
<1>c. CASE i \in 1..used
  <2>1. i \in Inodes /\ ino \in [Inodes -> Inode]
    BY <1>a, <1>c DEF TypeOK
  <2>2. ino[i].whole = TRUE /\ ino[i].synced = TRUE
    BY <2>1, <1>c DEF Fit, Inode
  <2>3. SUFFICES ino'[i].whole = TRUE /\ ino'[i].data = ino[i].data
    BY <2>2 DEF Content
  <2>4. CASE UNCHANGED ino
    BY <2>2, <2>4
  <2>5. ASSUME NEW w \in Writers, Create(w) PROVE ino'[i].whole = TRUE /\ ino'[i].data = ino[i].data
    BY <2>1, <2>2, <2>5, <1>a, <1>c DEF Create, TypeOK, Inode
  <2>6. ASSUME NEW w \in Writers, Fill(w) PROVE ino'[i].whole = TRUE /\ ino'[i].data = ino[i].data
    BY <2>1, <2>2, <2>6 DEF Fill, Inode
  <2>7. ASSUME NEW w \in Writers, Sync(w) PROVE ino'[i].whole = TRUE /\ ino'[i].data = ino[i].data
    BY <2>1, <2>2, <2>7 DEF Sync, Inode
  <2>8. CASE PowerLoss
    BY <2>1, <2>2, <2>8 DEF PowerLoss
  <2> QED BY <2>4, <2>5, <2>6, <2>7, <2>8 DEF Next, vars, disk, Call, Close, Rename, Fail, Remove,
             Missing, Open, ReadAll, ReadFails, Start, Sweep, SweepOne, Swept, Exit, Flush
<1> QED BY <1>b, <1>c DEF Fit

\* So the file is unchanged to a reader where the name and its history are.
LEMMA DiskStays ==
    ASSUME IInv, [Next]_vars, UNCHANGED <<file, shown>>
    PROVE  UNCHANGED <<Content(file), {Content(i) : i \in shown}>>
<1>1. \A i \in shown : Content(i)' = Content(i)
    BY FitStays DEF IInv, Whole
<1>2. file \in shown
    BY DEF IInv, Whole
<1> QED BY <1>1, <1>2

\* And open descriptors keep what they stand for.
LEMMA ReadersStay ==
    ASSUME IInv, [Next]_vars, UNCHANGED rd
    PROVE  UNCHANGED <<[r \in Readers |-> Content(rd[r].at)], [r \in Readers |-> rd[r].got]>>
<1>1. \A r \in Readers : Content(rd[r].at)' = Content(rd[r].at)
  <2> SUFFICES ASSUME NEW r \in Readers PROVE Content(rd[r].at)' = Content(rd[r].at)
    OBVIOUS
  <2>1. Fit(rd[r].at)
    BY DEF IInv, Whole
  <2> DEFINE at == rd[r].at
  <2>2. at' = at
    OBVIOUS
  <2>3. \A i : Fit(i) => Content(i)' = Content(i)
    BY FitStays
  <2>4. Content(at)' = Content(at)
    BY <2>1, <2>2, <2>3 DEF Content
  <2> QED BY <2>4
<1> QED BY <1>1

\* A write that goes on, and one that ends in an error, leave the file alone.
LEMMA WriteGoesOn ==
    ASSUME IInv, [Next]_vars, UNCHANGED <<file, shown, rd>>,
           \A w \in Writers : wr'[w].data = wr[w].data /\ wr'[w].result = wr[w].result
    PROVE  UNCHANGED Promise!vars
BY DiskStays, ReadersStay DEF Promise!vars

\* Every step of the file store is one of the promise, or none that shows.
LEMMA StepIsPromised == IInv /\ [Next]_vars => [Promise!Next]_(Promise!vars)
<1> SUFFICES ASSUME IInv, [Next]_vars PROVE [Promise!Next]_(Promise!vars)
    OBVIOUS
<1> USE FileStoreAssumption DEF At, NoFile
<1>a. TypeOK /\ Whole
    BY DEF IInv
<1>b. \A w \in Writers : wr[w] \in Write
    BY <1>a DEF TypeOK
<1>1. ASSUME NEW w \in Writers, NEW d \in Data, Call(w, d) PROVE Promise!Next
  <2>1. UNCHANGED <<Content(file), {Content(i) : i \in shown}>>
    BY <1>1, DiskStays DEF Call, disk
  <2>2. UNCHANGED <<[r \in Readers |-> Content(rd[r].at)], [r \in Readers |-> rd[r].got]>>
    BY <1>1, ReadersStay DEF Call
  <2>3. wr[w].data = NoData
    BY <1>1, <1>a DEF Call, Whole, Ready
  <2>4. [v \in Writers |-> wr[v].data]' = [[v \in Writers |-> wr[v].data] EXCEPT ![w] = d]
    BY <1>1, <1>a DEF Call, IdleWriter, TypeOK
  <2>5. [v \in Writers |-> wr[v].result]' = [[v \in Writers |-> wr[v].result] EXCEPT ![w] = "none"]
    BY <1>1, <1>a DEF Call, IdleWriter, TypeOK
  <2>6. Promise!Call(w, d)
    BY <2>1, <2>2, <2>3, <2>4, <2>5 DEF Promise!Call
  <2> QED BY <2>6 DEF Promise!Next
<1>2. ASSUME NEW w \in Writers, Create(w) PROVE UNCHANGED Promise!vars
  <2>1. \A v \in Writers : wr'[v].data = wr[v].data /\ wr'[v].result = wr[v].result
    BY <1>2, <1>a, <1>b DEF Create, TypeOK, Write
  <2> QED BY <1>2, <2>1, WriteGoesOn DEF Create
<1>3. ASSUME NEW w \in Writers, Fill(w) PROVE UNCHANGED Promise!vars
  <2>1. \A v \in Writers : wr'[v].data = wr[v].data /\ wr'[v].result = wr[v].result
    BY <1>3, <1>a, <1>b DEF Fill, TypeOK, Write
  <2> QED BY <1>3, <2>1, WriteGoesOn DEF Fill
<1>4. ASSUME NEW w \in Writers, Sync(w) PROVE UNCHANGED Promise!vars
  <2>1. \A v \in Writers : wr'[v].data = wr[v].data /\ wr'[v].result = wr[v].result
    BY <1>4, <1>a, <1>b DEF Sync, TypeOK, Write
  <2> QED BY <1>4, <2>1, WriteGoesOn DEF Sync
<1>5. ASSUME NEW w \in Writers, Close(w) PROVE UNCHANGED Promise!vars
  <2>1. \A v \in Writers : wr'[v].data = wr[v].data /\ wr'[v].result = wr[v].result
    BY <1>5, <1>a, <1>b DEF Close, TypeOK, Write
  <2> QED BY <1>5, <2>1, WriteGoesOn DEF Close, disk
<1>6. ASSUME NEW w \in Writers, Rename(w) PROVE Promise!Next
  <2> DEFINE tmp == wr[w].tmp
  <2>1. tmp \in 1..used /\ ino[tmp].whole /\ ino[tmp].data = wr[w].data /\ wr[w].data # NoData
    BY <1>6, <1>a DEF Rename, Whole, Ready, TypeOK
  <2>2. file' = tmp /\ shown' = shown \cup {tmp} /\ ino' = ino
    BY <1>6 DEF Rename
  <2> HIDE DEF tmp
  <2>3. Content(tmp) = wr[w].data
    BY <2>1 DEF Content
  <2>4. \A i : (Content(i))' = IF i = NoFile THEN NoData
                               ELSE IF ino[i].whole THEN ino[i].data ELSE Torn
    BY <2>2 DEF Content
  <2>5. Content(file)' = wr[w].data
    BY <2>2, <2>3 DEF Content
  <2>6. {Content(i) : i \in shown}' = {Content(i) : i \in shown} \cup {wr[w].data}
    BY <2>2, <2>3 DEF Content
  <2>7. UNCHANGED <<[r \in Readers |-> Content(rd[r].at)], [r \in Readers |-> rd[r].got]>>
    BY <1>6, ReadersStay DEF Rename
  <2>8. [v \in Writers |-> wr[v].data]' = [[v \in Writers |-> wr[v].data] EXCEPT ![w] = NoData]
    BY <1>6, <1>a DEF Rename, IdleWriter, TypeOK
  <2>9. [v \in Writers |-> wr[v].result]' = [[v \in Writers |-> wr[v].result] EXCEPT ![w] = "ok"]
    BY <1>6, <1>a DEF Rename, IdleWriter, TypeOK
  <2>10. Promise!Commit(w)
    BY <2>1, <2>5, <2>6, <2>7, <2>8, <2>9 DEF Promise!Commit
  <2> QED BY <2>10 DEF Promise!Next
<1>c. ASSUME NEW w \in Writers, UNCHANGED <<file, shown, rd>>, wr[w].at # "idle",
             wr' = [wr EXCEPT ![w] = [IdleWriter EXCEPT !.result = "error"]]
      PROVE  Promise!Next
  <2>1. UNCHANGED <<Content(file), {Content(i) : i \in shown}>>
    BY <1>c, DiskStays
  <2>2. UNCHANGED <<[r \in Readers |-> Content(rd[r].at)], [r \in Readers |-> rd[r].got]>>
    BY <1>c, ReadersStay
  <2>3. wr[w].data # NoData
    BY <1>c, <1>a DEF Whole, Ready
  <2>4. [v \in Writers |-> wr[v].data]' = [[v \in Writers |-> wr[v].data] EXCEPT ![w] = NoData]
    BY <1>c, <1>a DEF IdleWriter, TypeOK
  <2>5. [v \in Writers |-> wr[v].result]' = [[v \in Writers |-> wr[v].result] EXCEPT ![w] = "error"]
    BY <1>c, <1>a DEF IdleWriter, TypeOK
  <2>6. Promise!Abort(w)
    BY <2>1, <2>2, <2>3, <2>4, <2>5 DEF Promise!Abort
  <2> QED BY <2>6 DEF Promise!Next
<1>7. ASSUME NEW w \in Writers, Fail(w) PROVE Promise!Next \/ UNCHANGED Promise!vars
  <2>1. UNCHANGED <<file, shown, rd>> /\ wr[w].at # "idle"
    BY <1>7 DEF Fail, disk
  <2>2. CASE At(w, "create")
    BY <1>7, <2>1, <2>2, <1>c DEF Fail
  <2>3. CASE ~At(w, "create")
    <3>1. \A v \in Writers : wr'[v].data = wr[v].data /\ wr'[v].result = wr[v].result
      BY <1>7, <1>a, <1>b, <2>3 DEF Fail, TypeOK, Write
    <3> QED BY <2>1, <3>1, WriteGoesOn
  <2> QED BY <2>2, <2>3
<1>8. ASSUME NEW w \in Writers, Remove(w) PROVE Promise!Next
    BY <1>8, <1>c DEF Remove
<1>9. ASSUME NEW r \in Readers, Open(r) PROVE Promise!Next
  <2>1. UNCHANGED <<Content(file), {Content(i) : i \in shown}>>
    BY <1>9, DiskStays DEF Open, disk
  <2>2. UNCHANGED <<[w \in Writers |-> wr[w].data], [w \in Writers |-> wr[w].result]>>
    BY <1>9 DEF Open
  <2>3. Content(file) # NoData /\ Content(rd[r].at) = NoData
    BY <1>9, <1>a DEF Open, Content, Whole, Fit
  <2>4. [q \in Readers |-> Content(rd[q].at)]'
            = [[q \in Readers |-> Content(rd[q].at)] EXCEPT ![r] = Content(file)]
    BY <1>9, <1>a DEF Open, Content, TypeOK, Read, disk
  <2>5. UNCHANGED [q \in Readers |-> rd[q].got]
    BY <1>9, <1>a DEF Open, TypeOK, Read
  <2>6. Promise!Open(r)
    BY <2>1, <2>2, <2>3, <2>4, <2>5 DEF Promise!Open
  <2> QED BY <2>6 DEF Promise!Next
<1>10. ASSUME NEW r \in Readers, ReadAll(r) PROVE Promise!Next
  <2>1. UNCHANGED <<Content(file), {Content(i) : i \in shown}>>
    BY <1>10, DiskStays DEF ReadAll, disk
  <2>2. UNCHANGED <<[w \in Writers |-> wr[w].data], [w \in Writers |-> wr[w].result]>>
    BY <1>10 DEF ReadAll
  <2>3. Content(rd[r].at) # NoData
    BY <1>10, <1>a DEF ReadAll, Content, Whole, Fit
  <2>4. [q \in Readers |-> Content(rd[q].at)]'
            = [[q \in Readers |-> Content(rd[q].at)] EXCEPT ![r] = NoData]
    BY <1>10, <1>a DEF ReadAll, Content, TypeOK, Read, disk
  <2>5. [q \in Readers |-> rd[q].got]'
            = [[q \in Readers |-> rd[q].got] EXCEPT ![r] = Content(rd[r].at)]
    BY <1>10, <1>a DEF ReadAll, TypeOK, Read
  <2>6. Promise!Return(r)
    BY <2>1, <2>2, <2>3, <2>4, <2>5 DEF Promise!Return
  <2> QED BY <2>6 DEF Promise!Next
<1>d. ASSUME UNCHANGED <<file, shown, wr, rd>> PROVE UNCHANGED Promise!vars
    BY <1>d, WriteGoesOn
<1>18. ASSUME NEW r \in Readers, Missing(r) PROVE Promise!Next
  <2>1. UNCHANGED <<Content(file), {Content(i) : i \in shown}>>
    BY <1>18, DiskStays DEF Missing, disk
  <2>2. UNCHANGED <<[w \in Writers |-> wr[w].data], [w \in Writers |-> wr[w].result]>>
    BY <1>18 DEF Missing
  <2>3. Content(file) = NoData /\ Content(rd[r].at) = NoData
    BY <1>18 DEF Missing, Content
  <2>4. \A q \in Readers : rd'[q].at = rd[q].at
    BY <1>18, <1>a DEF Missing, TypeOK, Read
  <2>5. UNCHANGED [q \in Readers |-> Content(rd[q].at)]
    BY <1>18, <2>4 DEF Missing, Content, disk
  <2>6. [q \in Readers |-> rd[q].got]' = [[q \in Readers |-> rd[q].got] EXCEPT ![r] = NoData]
    BY <1>18, <1>a DEF Missing, TypeOK, Read
  <2>7. Promise!Missing(r)
    BY <2>1, <2>2, <2>3, <2>5, <2>6 DEF Promise!Missing
  <2> QED BY <2>7 DEF Promise!Next
<1>19. ASSUME NEW r \in Readers, ReadFails(r) PROVE Promise!Next
  <2>1. UNCHANGED <<Content(file), {Content(i) : i \in shown}>>
    BY <1>19, DiskStays DEF ReadFails, disk
  <2>2. UNCHANGED <<[w \in Writers |-> wr[w].data], [w \in Writers |-> wr[w].result]>>
    BY <1>19 DEF ReadFails
  <2>3. [q \in Readers |-> Content(rd[q].at)]'
            = [[q \in Readers |-> Content(rd[q].at)] EXCEPT ![r] = NoData]
    BY <1>19, <1>a DEF ReadFails, Content, TypeOK, Read, disk
  <2>4. [q \in Readers |-> rd[q].got]' = [[q \in Readers |-> rd[q].got] EXCEPT ![r] = Failed]
    BY <1>19, <1>a DEF ReadFails, TypeOK, Read
  <2>5. Promise!Refuse(r)
    BY <2>1, <2>2, <2>3, <2>4 DEF Promise!Refuse
  <2> QED BY <2>5 DEF Promise!Next
<1>20. ASSUME NEW d \in Daemons, Start(d) PROVE UNCHANGED Promise!vars
    BY <1>20, <1>d DEF Start, disk
<1>11. ASSUME NEW d \in Daemons, Sweep(d) PROVE UNCHANGED Promise!vars
    BY <1>11, <1>d DEF Sweep, disk
<1>12. ASSUME NEW d \in Daemons, SweepOne(d) PROVE UNCHANGED Promise!vars
    BY <1>12, <1>d DEF SweepOne
<1>13. ASSUME NEW d \in Daemons, Swept(d) PROVE UNCHANGED Promise!vars
    BY <1>13, <1>d DEF Swept, disk
<1>14. ASSUME NEW d \in Daemons, Exit(d) PROVE Promise!Next
  <2> DEFINE W == {w \in Writers : Owner[w] = d}
             R == {r \in Readers : Owner[r] = d}
  <2>1. UNCHANGED <<Content(file), {Content(i) : i \in shown}>>
    BY <1>14, DiskStays DEF Exit, disk
  <2>2. [w \in Writers |-> wr[w].data]'
            = [w \in Writers |-> IF w \in W THEN NoData ELSE [v \in Writers |-> wr[v].data][w]]
    BY <1>14 DEF Exit, IdleWriter
  <2>3. [w \in Writers |-> wr[w].result]'
            = [w \in Writers |-> IF w \in W THEN "none" ELSE [v \in Writers |-> wr[v].result][w]]
    BY <1>14 DEF Exit, IdleWriter
  <2>4. [r \in Readers |-> Content(rd[r].at)]'
            = [r \in Readers |-> IF r \in R THEN NoData
                                 ELSE [q \in Readers |-> Content(rd[q].at)][r]]
    BY <1>14 DEF Exit, IdleReader, Content, disk
  <2>5. [r \in Readers |-> rd[r].got]'
            = [r \in Readers |-> IF r \in R THEN NoData ELSE [q \in Readers |-> rd[q].got][r]]
    BY <1>14 DEF Exit, IdleReader
  <2> HIDE DEF W, R
  <2>6. Promise!Die(W, R)
    BY <2>1, <2>2, <2>3, <2>4, <2>5 DEF Promise!Die
  <2>7. W \in SUBSET Writers /\ R \in SUBSET Readers
    BY DEF W, R
  <2> QED BY <2>6, <2>7 DEF Promise!Next
<1>15. CASE Flush
  <2>1. {Content(i) : i \in shown}' = {Content(file)}
    BY <1>15 DEF Flush, Content
  <2>2. UNCHANGED Content(file)
    BY <1>15 DEF Flush, Content
  <2>3. UNCHANGED <<[r \in Readers |-> Content(rd[r].at)], [r \in Readers |-> rd[r].got],
                    [w \in Writers |-> wr[w].data], [w \in Writers |-> wr[w].result]>>
    BY <1>15, ReadersStay DEF Flush
  <2> QED BY <2>1, <2>2, <2>3 DEF Promise!Next, Promise!Flush
<1>16. CASE PowerLoss
  <2>1. Content(file)' \in {Content(i) : i \in shown}
    <3>1. PICK i \in shown : file' = i
      BY <1>16 DEF PowerLoss
    <3>2. Content(i)' = Content(i)
      BY FitStays, <1>a DEF Whole
    <3> QED BY <3>1, <3>2 DEF Content
  <2>2. {Content(i) : i \in shown}' = {Content(file)'}
    BY <1>16 DEF PowerLoss, Content
  <2>3. /\ [w \in Writers |-> wr[w].data]' = [w \in Writers |-> NoData]
        /\ [w \in Writers |-> wr[w].result]' = [w \in Writers |-> "none"]
    BY <1>16 DEF PowerLoss, IdleWriter
  <2>4. /\ [r \in Readers |-> Content(rd[r].at)]' = [r \in Readers |-> NoData]
        /\ [r \in Readers |-> rd[r].got]' = [r \in Readers |-> NoData]
    BY <1>16 DEF PowerLoss, IdleReader, Content
  <2> QED BY <2>1, <2>2, <2>3, <2>4 DEF Promise!Next, Promise!PowerLoss
<1>17. CASE UNCHANGED vars
    BY <1>17, <1>d DEF vars
<1> QED BY <1>1, <1>2, <1>3, <1>4, <1>5, <1>6, <1>7, <1>8, <1>9, <1>10, <1>11, <1>12, <1>13, <1>14, <1>15, <1>16, <1>17,
          <1>18, <1>19, <1>20 DEF Next

\* The empty directory is the promise's.
LEMMA InitIsPromised == Init => Promise!Init
BY DEF Init, Promise!Init, Content, IdleWriter, IdleReader, NoFile

----------------------------------------------------------------------------

\* The invariant every proof rests on: the types, and what Whole says of the
\* inodes the name can stand for.
LEMMA Invariance == Spec => []IInv
<1>1. Init => IInv
    BY InitHolds
<1>2. IInv /\ [Next]_vars => IInv'
    BY StepKeepsTypes, StepKeepsWhole DEF IInv
<1> QED BY <1>1, <1>2, PTL DEF Spec

\* The types hold, and no two writers share a temporary file (Dir.Write's O_EXCL).
THEOREM FileStoreTypes == Spec => []TypeOK
BY Invariance, PTL DEF IInv

\* A temporary file is its writer's to remove, or the next sweep's (Dir.Sweep).
THEOREM FileStoreLitter == Spec => []LitterSwept
<1>1. Init => LitterSwept
    BY InitHolds
<1>2. IInv /\ LitterSwept /\ [Next]_vars => LitterSwept'
    BY StepKeepsLitter
<1> QED BY <1>1, <1>2, Invariance, PTL DEF Spec

\* The store keeps its promise: the write that returns nil has replaced the file,
\* the one that returns an error has not, and no reader, no second daemon's sweep
\* and no loss of power ever brings to light a content not written whole.
THEOREM FileStoreImplements == Spec => Implements
<1>1. Init => Promise!Init
    BY InitIsPromised
<1>2. IInv /\ [Next]_vars => [Promise!Next]_(Promise!vars)
    BY StepIsPromised
<1> QED BY <1>1, <1>2, Invariance, PTL DEF Spec, Implements, Promise!Spec

=============================================================================
