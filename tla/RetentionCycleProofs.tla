------------------------ MODULE RetentionCycleProofs ------------------------
(***************************************************************************)
(* What a retention cycle removes and what a restore puts back, for any    *)
(* policy and any number of days, faults and restores.                     *)
(*                                                                         *)
(* Everything rests on who may touch what: a cycle runs in a live server,  *)
(* a restore beside a dead one (Apart). So the database a backup copied    *)
(* stands still until the rows are gone, and the file a restore copied     *)
(* stands still until the swap.                                            *)
(***************************************************************************)
EXTENDS RetentionCycle, SequenceTheorems, TLAPS

Days == 0..LastDay
Logs == {None} \cup [id : Nat, rows : SUBSET Days]
Databases == [image : SUBSET Days, id : Nat, log : Logs]
StagedFiles == [image : SUBSET Days, id : Nat, whole : BOOLEAN, log : Logs]
BackupFiles == [written : Days, whole : BOOLEAN, rows : SUBSET Days]
Receipts == [rows : SUBSET Days, whole : BOOLEAN]

TypeOK ==
  /\ day \in Days /\ up \in BOOLEAN
  /\ main \in Databases
  /\ DOMAIN files \subseteq Days
  /\ files \in [DOMAIN files -> BackupFiles]
  /\ pc \in {"idle", "copying", "copied", "receipt", "commit", "pruned", "expiring"}
  /\ job \in Days
  /\ window \subseteq Days
  /\ doomed \subseteq Days
  /\ journal \in Seq(Seq(Receipts))
  /\ pruned \subseteq Days
  /\ covered \in BOOLEAN
  /\ rpc \in {"idle", "cleared", "copied", "checking", "checked", "unlogged"}
  /\ staged \in StagedFiles \cup {None}
  /\ restores \in Nat /\ faults \in Nat

\* Cycles run while the server is up, restores while it is down.
Apart == (pc # "idle" => up) /\ (rpc # "idle" => ~up)

\* The file of the running cycle, and what it holds.
CycleBacked ==
  /\ pc = "copying" => job \in DOMAIN files /\ ~files[job].whole
  /\ pc \notin {"idle", "copying"} => job \in DOMAIN files /\ files[job].whole
  /\ pc = "copied" => Content(main) \subseteq files[job].rows
  /\ pc \in {"receipt", "commit"} => window \subseteq files[job].rows
  /\ pc \notin {"receipt", "commit"} => window = {}

\* A row with a complete receipt.
Receipted(lines, r) ==
  \E i \in DOMAIN lines : \E j \in DOMAIN lines[i] : lines[i][j].whole /\ r \in lines[i][j].rows

ReceiptsWritten ==
  /\ \A r \in pruned : Receipted(journal, r)
  /\ pc = "commit" => \A r \in window : Receipted(journal, r)

\* A file is no older than its cycle, and no pass unlinks that of its own.
JobSpared ==
  /\ job <= day
  /\ \A f \in DOMAIN files : f <= files[f].written
  /\ pc # "expiring" => doomed = {}
  /\ job \notin doomed

\* What the restore under way has in hand.
IsBackup(f) == f \in DOMAIN files /\ staged.whole = files[f].whole /\ staged.image = files[f].rows
StagedBacked ==
  /\ rpc = "cleared" /\ staged # None => staged.log = None
  /\ rpc \in {"copied", "checking", "checked", "unlogged"} =>
       /\ staged \in StagedFiles
       /\ \E f \in Days : IsBackup(f)
  /\ rpc \in {"copied", "checked", "unlogged"} => staged.log = None
  /\ rpc = "checking" => staged.log = None \/ staged.log.rows = staged.image
  /\ rpc \in {"checked", "unlogged"} => staged.whole
  /\ rpc = "unlogged" => main.log = None

IInv == TypeOK /\ Apart /\ CycleBacked /\ ReceiptsWritten /\ JobSpared /\ StagedBacked /\ BackupSurvives

-----------------------------------------------------------------------------
(* What the operators return. *)

\* What an opener reads of a database or of a staged copy is a set of rows.
LEMMA ContentType ==
  /\ \A db \in Databases : Content(db) \subseteq Days
  /\ \A db \in StagedFiles : Content(db) \subseteq Days
BY DEF Databases, StagedFiles, Logs, Content

\* A commit and a clean close leave a database.
LEMMA DatabaseType ==
  ASSUME NEW db \in Databases, NEW rows \in SUBSET Days
  PROVE  Committed(db, rows) \in Databases /\ Checkpointed(db) \in Databases
<1>1. Committed(db, rows) \in Databases
  <2>1. Committed(db, rows) = [image |-> db.image, id |-> db.id, log |-> [id |-> db.id, rows |-> rows]]
    BY DEF Committed, Databases
  <2>2. db.image \in SUBSET Days /\ db.id \in Nat
    BY DEF Databases
  <2> QED BY <2>1, <2>2 DEF Databases, Logs
<1>2. Content(db) \in SUBSET Days
  BY ContentType
<1>3. Checkpointed(db) \in Databases
  <2> DEFINE closed == [db EXCEPT !.image = Content(db)]
  <2>1. closed \in Databases
    BY <1>2 DEF Databases
  <2>2. Checkpointed(db) = [closed EXCEPT !.log = None]
    BY DEF Checkpointed
  <2> HIDE DEF closed
  <2> QED BY <2>1, <2>2 DEF Databases, Logs
<1> QED BY <1>1, <1>3

\* An append to the journal forgets no receipt, and a complete one counts,
\* on a line of its own or behind a torn one.
LEMMA AppendedKeeps ==
  ASSUME journal \in Seq(Seq(Receipts)), NEW chunk \in Receipts
  PROVE  /\ Appended(chunk) \in Seq(Seq(Receipts))
         /\ \A r : Receipted(journal, r) => Receipted(Appended(chunk), r)
         /\ chunk.whole => \A r \in chunk.rows : Receipted(Appended(chunk), r)
<1>1. CASE journal = <<>> \/ Last(Last(journal)).whole
  <2> DEFINE lines == Append(journal, <<chunk>>)
  <2>1. Appended(chunk) = lines
    BY <1>1 DEF Appended
  <2>2. <<chunk>> \in Seq(Receipts)
    OBVIOUS
  <2>3. lines \in Seq(Seq(Receipts))
    BY <2>2
  <2>4. \A i \in DOMAIN journal : i \in DOMAIN lines /\ lines[i] = journal[i]
    OBVIOUS
  <2>5. Len(lines) \in DOMAIN lines /\ lines[Len(lines)] = <<chunk>>
    OBVIOUS
  <2>6. 1 \in DOMAIN <<chunk>> /\ <<chunk>>[1] = chunk
    OBVIOUS
  <2> HIDE DEF lines
  <2>7. \A r : Receipted(journal, r) => Receipted(lines, r)
    BY <2>4 DEF Receipted
  <2>8. chunk.whole => \A r \in chunk.rows : Receipted(lines, r)
    BY <2>5, <2>6 DEF Receipted
  <2> QED BY <2>1, <2>3, <2>7, <2>8
<1>2. CASE ~(journal = <<>> \/ Last(Last(journal)).whole)
  <2> DEFINE n == Len(journal)
             line == Append(journal[n], chunk)
             lines == Append(Front(journal), line)
  <2>1. Appended(chunk) = lines
    BY <1>2 DEF Appended, Last
  <2>2. n \in Nat \ {0} /\ journal[n] \in Seq(Receipts)
    BY <1>2
  <2>3. line \in Seq(Receipts)
    BY <2>2
  <2>4. Front(journal) \in Seq(Seq(Receipts)) /\ Len(Front(journal)) = n - 1
        /\ \A i \in 1..(n - 1) : Front(journal)[i] = journal[i]
    <3>1. Front(journal) = SubSeq(journal, 1, n - 1)
      BY DEF Front
    <3>2. \A i \in 1..(n - 1) : journal[i] \in Seq(Receipts)
      BY <2>2
    <3>3. 1 \in Int /\ n - 1 \in Int /\ n - 1 - 1 + 1 = n - 1
      BY <2>2
    <3> HIDE DEF n
    <3>4. /\ SubSeq(journal, 1, n - 1) \in Seq(Seq(Receipts))
          /\ Len(SubSeq(journal, 1, n - 1)) = IF 1 <= n - 1 THEN n - 1 - 1 + 1 ELSE 0
          /\ \A i \in 1..(n - 1 - 1 + 1) : SubSeq(journal, 1, n - 1)[i] = journal[1 + i - 1]
      BY ONLY <3>2, <3>3, SubSeqProperties
    <3> QED BY <3>1, <3>3, <3>4, <2>2
  <2>5. lines \in Seq(Seq(Receipts)) /\ Len(lines) = n
    BY <2>2, <2>3, <2>4
  <2>6. \A i \in 1..(n - 1) : i \in DOMAIN lines /\ lines[i] = journal[i]
    BY <2>2, <2>4
  <2>7. n \in DOMAIN lines /\ lines[n] = line
    BY <2>2, <2>4
  <2>8. \A j \in DOMAIN journal[n] : j \in DOMAIN line /\ line[j] = journal[n][j]
    BY <2>2
  <2>9. Len(line) \in DOMAIN line /\ line[Len(line)] = chunk
    BY <2>2
  <2>10. DOMAIN journal = 1..n
    OBVIOUS
  <2> HIDE DEF lines, line
  <2>11. \A r : Receipted(journal, r) => Receipted(lines, r)
    <3> SUFFICES ASSUME NEW r, Receipted(journal, r) PROVE Receipted(lines, r)
      OBVIOUS
    <3>0. PICK i \in DOMAIN journal : \E j \in DOMAIN journal[i] : journal[i][j].whole /\ r \in journal[i][j].rows
      BY DEF Receipted
    <3>1. PICK j \in DOMAIN journal[i] : journal[i][j].whole /\ r \in journal[i][j].rows
      BY <3>0
    <3>2. CASE i = n
      BY <3>1, <3>2, <2>7, <2>8 DEF Receipted
    <3>3. CASE i # n
      <4>1. i \in 1..(n - 1)
        BY <3>3, <2>2, <2>10
      <4>2. i \in DOMAIN lines /\ lines[i] = journal[i]
        BY <4>1, <2>6
      <4> QED BY <3>1, <4>2 DEF Receipted
    <3> QED BY <3>2, <3>3
  <2> QED BY <2>1, <2>5, <2>7, <2>9, <2>11 DEF Receipted
<1> QED BY <1>1, <1>2

-----------------------------------------------------------------------------
(* The initial state, and what a step leaves apart. *)

\* The first state is typed, apart, and has nothing to answer for.
LEMMA InitIInv == Init => IInv
<1> SUFFICES ASSUME Init PROVE IInv
  OBVIOUS
<1>1. TypeOK
  <2>1. files \in [DOMAIN files -> BackupFiles] /\ DOMAIN files = {}
    BY DEF Init
  <2>2. main \in Databases
    BY DEF Init, Databases, Logs
  <2>3. journal \in Seq(Seq(Receipts))
    BY DEF Init
  <2>4. 0 \in Days
    BY PolicyAssumption DEF Days
  <2>5. staged \in StagedFiles \cup {None} /\ restores \in Nat /\ faults \in Nat
    BY DEF Init
  <2> QED BY <2>1, <2>2, <2>3, <2>4, <2>5 DEF Init, TypeOK
<1>2. Apart /\ CycleBacked /\ ReceiptsWritten /\ JobSpared /\ StagedBacked /\ BackupSurvives
  BY DEF Init, Apart, CycleBacked, ReceiptsWritten, JobSpared, StagedBacked, BackupSurvives
<1> QED BY <1>1, <1>2 DEF IInv

\* Server and restore program stay out of each other's way.
LEMMA ApartStep == Apart /\ [Next]_vars => Apart'
<1> SUFFICES ASSUME Apart, [Next]_vars PROVE Apart'
  OBVIOUS
<1> USE DEF Apart, Halted, RestoreStep
<1>1. CASE Tick \/ InsertEvent \/ StartBackup \/ FinishBackup
  BY <1>1 DEF Tick, InsertEvent, StartBackup, FinishBackup, restore, cycle
<1>2. CASE Pass
  BY <1>2 DEF Pass, BeginPrune, AppendReceipt, Commit, ListExpired, UnlinkNext, EndCycle, restore
<1>3. CASE Fault
  BY <1>3 DEF Fault, FailBackup, TearReceipt, FailCommit, Crash, restore
<1>4. CASE Stop \/ Boot
  BY <1>4 DEF Stop, Boot, restore, cycle
<1>5. CASE Restoring
  BY <1>5 DEF Restoring, ClearStaged, CopyToStaged, NothingToCopy, OpenStaged, CheckStaged,
      DropMainLog, Swap, KillRestore, cycle
<1>6. CASE UNCHANGED vars
  BY <1>6 DEF vars, cycle, restore
<1> QED BY <1>1, <1>2, <1>3, <1>4, <1>5, <1>6 DEF Next

-----------------------------------------------------------------------------
(* One lemma per conjunct of the invariant. *)

\* Every step keeps the types.
LEMMA TypeStep == TypeOK /\ StagedBacked /\ [Next]_vars => TypeOK'
<1> SUFFICES ASSUME TypeOK, StagedBacked, [Next]_vars PROVE TypeOK'
  OBVIOUS
<1> USE DEF TypeOK, RestoreStep, Halted, Struck
<1>0. Content(main) \in SUBSET Days
  BY ContentType
<1>1. CASE Tick
  <2>1. day + 1 \in Days
    BY <1>1, PolicyAssumption DEF Tick, Days
  <2> QED BY <1>1, <2>1 DEF Tick, cycle, restore
<1>2. CASE InsertEvent
  <2>1. main' \in Databases
    BY <1>2, <1>0, DatabaseType DEF InsertEvent
  <2> QED BY <1>2, <2>1 DEF InsertEvent, cycle, restore
<1>3. CASE StartBackup
  <2>1. files' \in [DOMAIN files' -> BackupFiles] /\ DOMAIN files' \subseteq Days
    BY <1>3 DEF StartBackup, BackupFiles
  <2> QED BY <1>3, <2>1 DEF StartBackup, restore
<1>4. CASE FinishBackup
  <2>1. files' \in [DOMAIN files' -> BackupFiles] /\ DOMAIN files' \subseteq Days
    BY <1>4, <1>0 DEF FinishBackup, BackupFiles
  <2> QED BY <1>4, <2>1 DEF FinishBackup, restore
<1>5. \A f : Without(f) \in [DOMAIN Without(f) -> BackupFiles] /\ DOMAIN Without(f) \subseteq Days
  BY DEF Without
<1>6. CASE FailBackup
  <2>1. files' \in [DOMAIN files' -> BackupFiles] /\ DOMAIN files' \subseteq Days
    BY <1>6, <1>5 DEF FailBackup
  <2>2. 0 \in Days
    BY PolicyAssumption DEF Days
  <2> QED BY <1>6, <2>1, <2>2 DEF FailBackup, restore
<1>7. CASE BeginPrune
  <2>1. ExpiredWindow \subseteq Days
    BY <1>0 DEF ExpiredWindow
  <2> QED BY <1>7, <2>1 DEF BeginPrune, restore
<1>8. \A whole \in BOOLEAN : Receipt(whole) \in Receipts
  BY DEF Receipt, Receipts
<1>9. CASE AppendReceipt
  <2>1. journal' \in Seq(Seq(Receipts))
    BY <1>9, <1>8, AppendedKeeps DEF AppendReceipt
  <2> QED BY <1>9, <2>1 DEF AppendReceipt, restore
<1>10. CASE TearReceipt
  <2>1. journal' \in Seq(Seq(Receipts))
    BY <1>10, <1>8, AppendedKeeps DEF TearReceipt
  <2>2. 0 \in Days
    BY PolicyAssumption DEF Days
  <2>3. /\ UNCHANGED <<day, up, main, files, doomed, pruned, covered, rpc, staged, restores>>
        /\ pc' = "idle" /\ job' = 0 /\ window' = {} /\ faults' \in Nat
    BY <1>10 DEF TearReceipt, restore
  <2> QED BY <2>1, <2>2, <2>3
<1>11. CASE Commit
  <2>1. main' \in Databases
    BY <1>11, <1>0, DatabaseType DEF Commit
  <2> QED BY <1>11, <2>1 DEF Commit, restore
<1>12. CASE FailCommit
  <2>1. 0 \in Days
    BY PolicyAssumption DEF Days
  <2> QED BY <1>12, <2>1 DEF FailCommit, restore
<1>13. CASE ListExpired
  <2>1. ExpiredFiles \subseteq Days
    BY DEF ExpiredFiles
  <2> QED BY <1>13, <2>1 DEF ListExpired, restore
<1>14. CASE UnlinkNext
  <2>1. files' \in [DOMAIN files' -> BackupFiles] /\ DOMAIN files' \subseteq Days
    BY <1>14, <1>5 DEF UnlinkNext
  <2> QED BY <1>14, <2>1 DEF UnlinkNext, restore
<1>15. CASE EndCycle
  <2>1. 0 \in Days
    BY PolicyAssumption DEF Days
  <2> QED BY <1>15, <2>1 DEF EndCycle, restore
<1>16. CASE Stop
  <2>1. files' \in [DOMAIN files' -> BackupFiles] /\ DOMAIN files' \subseteq Days
    BY <1>16, <1>5 DEF Stop
  <2>2. 0 \in Days
    BY PolicyAssumption DEF Days
  <2>3. main' \in Databases
    BY <1>16, DatabaseType DEF Stop
  <2> QED BY <1>16, <2>1, <2>2, <2>3 DEF Stop, restore
<1>17. CASE Crash
  <2>1. journal' \in Seq(Seq(Receipts))
    BY <1>17, <1>8, AppendedKeeps DEF Crash
  <2>2. 0 \in Days
    BY PolicyAssumption DEF Days
  <2>3. /\ UNCHANGED <<day, main, files, pruned, covered, rpc, staged, restores>>
        /\ pc' = "idle" /\ job' = 0 /\ window' = {} /\ doomed' = {} /\ up' = FALSE /\ faults' \in Nat
    BY <1>17 DEF Crash, restore
  <2> QED BY <2>1, <2>2, <2>3
<1>18. CASE Boot
  BY <1>18 DEF Boot, cycle, restore
<1>19. CASE ClearStaged
  <2>1. staged' \in StagedFiles \cup {None}
    BY <1>19 DEF ClearStaged, StagedFiles, Logs
  <2> QED BY <1>19, <2>1 DEF ClearStaged, cycle
<1>20. ASSUME NEW f \in 0..LastDay, CopyToStaged(f) PROVE TypeOK'
  <2>1. files[f] \in BackupFiles
    BY <1>20 DEF CopyToStaged
  <2>2. IF staged = None THEN None \in Logs ELSE staged.log \in Logs
    BY DEF StagedFiles, Logs
  <2>3. staged' \in StagedFiles
    BY <1>20, <2>1, <2>2 DEF CopyToStaged, StagedFiles, BackupFiles
  <2> QED BY <1>20, <2>3 DEF CopyToStaged, cycle
<1>21. CASE NothingToCopy
  BY <1>21 DEF NothingToCopy, cycle
<1>22. CASE OpenStaged
  <2>1. staged \in StagedFiles
    BY <1>22 DEF OpenStaged, StagedBacked
  <2>2. staged' \in StagedFiles
    BY <1>22, <2>1 DEF OpenStaged, StagedFiles, Logs
  <2> QED BY <1>22, <2>2 DEF OpenStaged, cycle
<1>23. CASE CheckStaged
  <2>1. staged \in StagedFiles
    BY <1>23 DEF CheckStaged, StagedBacked
  <2>2. Content(staged) \in SUBSET Days
    BY <2>1, ContentType
  <2>3. staged' \in StagedFiles
    BY <1>23, <2>1, <2>2 DEF CheckStaged, StagedFiles, Logs
  <2> QED BY <1>23, <2>3 DEF CheckStaged, cycle
<1>24. CASE DropMainLog
  <2>1. main' \in Databases
    BY <1>24 DEF DropMainLog, Databases, Logs
  <2> QED BY <1>24, <2>1 DEF DropMainLog, cycle
<1>25. CASE Swap
  <2>1. staged \in StagedFiles
    BY <1>25 DEF Swap, StagedBacked
  <2>2. main' \in Databases
    BY <1>25, <2>1 DEF Swap, Databases, StagedFiles
  <2> QED BY <1>25, <2>2 DEF Swap, cycle
<1>26. CASE KillRestore
  BY <1>26 DEF KillRestore, cycle
<1>27. CASE UNCHANGED vars
  BY <1>27 DEF vars, cycle, restore
<1> QED
  BY <1>1, <1>2, <1>3, <1>4, <1>6, <1>7, <1>9, <1>10, <1>11, <1>12, <1>13, <1>14, <1>15, <1>16, <1>17,
     <1>18, <1>19, <1>20, <1>21, <1>22, <1>23, <1>24, <1>25, <1>26, <1>27
  DEF Next, Pass, Fault, Restoring

\* The running cycle keeps its file, whole from the last page on and holding
\* what the pass takes out: nothing is stored and nothing is restored meanwhile.
LEMMA CycleStep ==
  TypeOK /\ Apart /\ CycleBacked /\ JobSpared /\ [Next]_vars => CycleBacked'
<1> SUFFICES ASSUME TypeOK, Apart, CycleBacked, JobSpared, [Next]_vars PROVE CycleBacked'
  OBVIOUS
<1> USE DEF CycleBacked, RestoreStep, Halted
<1>1. CASE Tick
  BY <1>1 DEF Tick, cycle
<1>2. CASE InsertEvent
  BY <1>2 DEF InsertEvent, cycle
<1>3. CASE StartBackup
  BY <1>3 DEF StartBackup
<1>4. CASE FinishBackup
  BY <1>4 DEF FinishBackup, TypeOK
<1>5. CASE Fault \/ Stop
  BY <1>5 DEF Fault, FailBackup, TearReceipt, FailCommit, Crash, Stop
<1>6. CASE BeginPrune
  BY <1>6 DEF BeginPrune, ExpiredWindow
<1>7. CASE AppendReceipt \/ Commit \/ EndCycle
  BY <1>7 DEF AppendReceipt, Commit, EndCycle
<1>8. CASE ListExpired
  BY <1>8 DEF ListExpired
<1>9. CASE UnlinkNext
  <2>1. PICK f \in doomed : files' = Without(f)
    BY <1>9 DEF UnlinkNext
  <2>2. f # job
    BY <2>1 DEF JobSpared
  <2>3. job \in DOMAIN files' /\ files'[job] = files[job]
    BY <1>9, <2>1, <2>2 DEF UnlinkNext, Without
  <2> QED BY <1>9, <2>3 DEF UnlinkNext
<1>10. CASE Boot
  BY <1>10 DEF Boot, cycle
<1>11. CASE Restoring
  <2>1. pc = "idle" /\ pc' = pc /\ window' = window
    BY <1>11 DEF Restoring, ClearStaged, CopyToStaged, NothingToCopy, OpenStaged, CheckStaged,
        DropMainLog, Swap, KillRestore, cycle, Apart
  <2> QED BY <2>1
<1>12. CASE UNCHANGED vars
  BY <1>12 DEF vars, cycle
<1> QED
  BY <1>1, <1>2, <1>3, <1>4, <1>5, <1>6, <1>7, <1>8, <1>9, <1>10, <1>11, <1>12 DEF Next, Pass, Fault

\* The receipt of the open window is complete before the pass may commit, and
\* no line of the journal is ever taken back.
LEMMA ReceiptStep == TypeOK /\ ReceiptsWritten /\ [Next]_vars => ReceiptsWritten'
<1> SUFFICES ASSUME TypeOK, ReceiptsWritten, [Next]_vars PROVE ReceiptsWritten'
  OBVIOUS
<1> USE DEF ReceiptsWritten, RestoreStep, Halted
<1>1. CASE Tick \/ InsertEvent \/ StartBackup \/ FinishBackup \/ Boot \/ Stop
  BY <1>1 DEF Tick, InsertEvent, StartBackup, FinishBackup, Boot, Stop, cycle
<1>2. CASE FailBackup \/ FailCommit
  BY <1>2 DEF FailBackup, FailCommit
<1>3. CASE BeginPrune \/ ListExpired \/ UnlinkNext \/ EndCycle
  BY <1>3 DEF BeginPrune, ListExpired, UnlinkNext, EndCycle
<1>4. \A whole \in BOOLEAN :
        /\ Receipt(whole) \in Receipts
        /\ Receipt(whole).whole = whole /\ Receipt(whole).rows = window
  BY DEF Receipt, Receipts, TypeOK
<1>5. CASE AppendReceipt
  <2>1. /\ \A r : Receipted(journal, r) => Receipted(journal', r)
        /\ \A r \in window : Receipted(journal', r)
    BY <1>4, <1>5, AppendedKeeps DEF AppendReceipt, TypeOK
  <2> QED BY <1>5, <2>1 DEF AppendReceipt
<1>6. CASE TearReceipt \/ Crash
  <2>1. \A r : Receipted(journal, r) => Receipted(journal', r)
    BY <1>4, <1>6, AppendedKeeps DEF TearReceipt, Crash, TypeOK
  <2> QED BY <1>6, <2>1 DEF TearReceipt, Crash
<1>7. CASE Commit
  BY <1>7 DEF Commit
<1>8. CASE Restoring
  <2>1. UNCHANGED <<pc, window, journal>> /\ pruned' \subseteq pruned
    BY <1>8 DEF Restoring, ClearStaged, CopyToStaged, NothingToCopy, OpenStaged, CheckStaged,
        DropMainLog, Swap, KillRestore, cycle
  <2> QED BY <2>1
<1>9. CASE UNCHANGED vars
  BY <1>9 DEF vars, cycle
<1> QED BY <1>1, <1>2, <1>3, <1>5, <1>6, <1>7, <1>8, <1>9 DEF Next, Pass, Fault

\* The file of the cycle is as young as the cycle, and the rule is a day at least.
LEMMA SparedStep == TypeOK /\ Apart /\ JobSpared /\ [Next]_vars => JobSpared'
<1> SUFFICES ASSUME TypeOK, Apart, JobSpared, [Next]_vars PROVE JobSpared'
  OBVIOUS
<1> USE DEF JobSpared, RestoreStep, Halted
<1>0. day \in Nat /\ job \in Nat
  BY PolicyAssumption DEF TypeOK, Days
<1>1. CASE Tick \/ InsertEvent \/ Boot
  BY <1>0, <1>1 DEF Tick, InsertEvent, Boot, cycle
<1>2. CASE StartBackup
  BY <1>0, <1>2 DEF StartBackup
<1>11. CASE FinishBackup
  <2>1. DOMAIN files' = DOMAIN files /\ \A f \in DOMAIN files : f # job => files'[f] = files[f]
    BY <1>11 DEF FinishBackup
  <2>2. job \in DOMAIN files => files'[job].written = day
    BY <1>11 DEF FinishBackup
  <2>3. UNCHANGED <<day, job, doomed>> /\ pc' # "expiring" /\ pc # "expiring"
    BY <1>11 DEF FinishBackup
  <2>4. \A f \in DOMAIN files' : f <= files'[f].written
    BY <2>1, <2>2
  <2> QED BY <2>3, <2>4
<1>3. CASE FailBackup \/ Stop
  BY <1>0, <1>3 DEF FailBackup, Stop, Without
<1>4. CASE TearReceipt \/ FailCommit \/ Crash
  <2>1. UNCHANGED <<day, files>> /\ job' = 0 /\ pc' = "idle" /\ doomed' = {}
    BY <1>4 DEF TearReceipt, FailCommit, Crash
  <2> QED BY <1>0, <2>1
<1>5. CASE BeginPrune \/ AppendReceipt \/ Commit
  BY <1>5 DEF BeginPrune, AppendReceipt, Commit
<1>6. CASE ListExpired
  <2>1. \A n \in Nat : job <= n => ~(n < job - BackupDays)
    BY <1>0, PolicyAssumption
  <2>2. \A f \in DOMAIN files : files[f].written \in Nat
    BY PolicyAssumption DEF TypeOK, BackupFiles, Days
  <2>3. job \notin ExpiredFiles
    BY <2>1, <2>2 DEF ExpiredFiles
  <2> QED BY <1>6, <2>3 DEF ListExpired
<1>7. CASE UnlinkNext
  BY <1>7 DEF UnlinkNext, Without
<1>8. CASE EndCycle
  BY <1>0, <1>8 DEF EndCycle
<1>9. CASE Restoring
  <2>1. UNCHANGED <<day, pc, job, doomed, files>>
    BY <1>9 DEF Restoring, ClearStaged, CopyToStaged, NothingToCopy, OpenStaged, CheckStaged,
        DropMainLog, Swap, KillRestore, cycle
  <2> QED BY <2>1
<1>10. CASE UNCHANGED vars
  BY <1>10 DEF vars, cycle
<1> QED
  BY <1>1, <1>2, <1>3, <1>4, <1>5, <1>6, <1>7, <1>8, <1>9, <1>10, <1>11 DEF Next, Pass, Fault

\* Once there is a complete backup there is one: an unfinished file goes when a
\* cycle fails, and a pass that unlinks has completed a file it spares.
LEMMA SurvivesStep ==
  TypeOK /\ Apart /\ CycleBacked /\ JobSpared /\ BackupSurvives /\ [Next]_vars => BackupSurvives'
<1> SUFFICES ASSUME TypeOK, Apart, CycleBacked, JobSpared, BackupSurvives, [Next]_vars
             PROVE  BackupSurvives'
  OBVIOUS
<1> USE DEF BackupSurvives, RestoreStep
<1>1. CASE Tick \/ InsertEvent \/ Boot
  BY <1>1 DEF Tick, InsertEvent, Boot
<1>2. CASE StartBackup
  <2>1. \A f \in DOMAIN files : f \in DOMAIN files' /\ files'[f] = files[f]
    BY <1>2 DEF StartBackup
  <2>2. covered' = covered
    BY <1>2 DEF StartBackup
  <2> QED BY <2>1, <2>2
<1>3. CASE FinishBackup
  <2>1. job \in DOMAIN files
    BY <1>3 DEF FinishBackup, CycleBacked
  <2>2. DOMAIN files' = DOMAIN files
    BY <1>3 DEF FinishBackup
  <2>3. files'[job] = [written |-> day, whole |-> TRUE, rows |-> Content(main)]
    BY <1>3, <2>1 DEF FinishBackup
  <2> QED BY <2>1, <2>2, <2>3
<1>4. CASE FailBackup \/ Stop
  <2>1. files' = files \/ (pc = "copying" /\ files' = Without(job))
    <3>1. FailBackup => files' = files \/ (pc = "copying" /\ files' = Without(job))
      BY Zenon DEF FailBackup
    <3>2. Stop => files' = files \/ (pc = "copying" /\ files' = Without(job))
      <4> SUFFICES ASSUME Stop PROVE files' = files \/ (pc = "copying" /\ files' = Without(job))
        OBVIOUS
      <4>1. files' \in IF pc = "copying" THEN {files, Without(job)} ELSE {files}
        BY Zenon DEF Stop
      <4>2. CASE pc = "copying"
        BY <4>1, <4>2, Zenon
      <4>3. CASE pc # "copying"
        BY <4>1, <4>3, Zenon
      <4> QED BY <4>2, <4>3
    <3> QED BY <1>4, <3>1, <3>2
  <2>2. covered' = covered
    BY <1>4 DEF FailBackup, Stop
  <2>3. CASE files' = files
    BY <2>2, <2>3
  <2>4. CASE pc = "copying" /\ files' = Without(job)
    <3>1. ~files[job].whole
      BY <2>4 DEF CycleBacked
    <3>2. \A f \in DOMAIN files : f # job => f \in DOMAIN files' /\ files'[f] = files[f]
      BY <2>4 DEF Without
    <3> QED BY <2>2, <3>1, <3>2
  <2> QED BY <2>1, <2>3, <2>4
<1>5. CASE TearReceipt \/ FailCommit \/ Crash
  BY <1>5 DEF TearReceipt, FailCommit, Crash
<1>6. CASE BeginPrune \/ AppendReceipt \/ Commit \/ ListExpired \/ EndCycle
  BY <1>6 DEF BeginPrune, AppendReceipt, Commit, ListExpired, EndCycle
<1>7. CASE UnlinkNext
  <2>1. PICK f \in doomed : files' = Without(f)
    BY <1>7 DEF UnlinkNext
  <2>2. f # job
    BY <2>1 DEF JobSpared
  <2>3. job \in DOMAIN files /\ files[job].whole
    BY <1>7 DEF UnlinkNext, CycleBacked
  <2>4. job \in DOMAIN files' /\ files'[job] = files[job]
    BY <2>1, <2>2, <2>3 DEF Without
  <2> QED BY <2>3, <2>4
<1>8. CASE Restoring
  <2>1. UNCHANGED <<covered, files>>
    BY <1>8 DEF Restoring, ClearStaged, CopyToStaged, NothingToCopy, OpenStaged, CheckStaged,
        DropMainLog, Swap, KillRestore
  <2> QED BY <2>1
<1>9. CASE UNCHANGED vars
  BY <1>9 DEF vars
<1> QED BY <1>1, <1>2, <1>3, <1>4, <1>5, <1>6, <1>7, <1>8, <1>9 DEF Next, Pass, Fault

\* The staged file is a backup once it is copied, checked before it may count,
\* and without a log of an earlier life; the old log goes before the swap.
LEMMA StagedStep == TypeOK /\ Apart /\ StagedBacked /\ [Next]_vars => StagedBacked'
<1> SUFFICES ASSUME TypeOK, Apart, StagedBacked, [Next]_vars PROVE StagedBacked'
  OBVIOUS
<1> USE DEF StagedBacked, RestoreStep, IsBackup
<1>1. CASE rpc = "idle" /\ rpc' = "idle"
  BY <1>1
<1>2. CASE Tick \/ InsertEvent \/ StartBackup \/ FinishBackup \/ Pass \/ Fault \/ Stop \/ Boot
  <2>1. rpc = "idle" /\ rpc' = rpc
    BY <1>2 DEF Tick, InsertEvent, StartBackup, FinishBackup, Pass, BeginPrune, AppendReceipt, Commit,
        ListExpired, UnlinkNext, EndCycle, Fault, FailBackup, TearReceipt, FailCommit, Crash, Stop,
        Boot, restore, Apart
  <2> QED BY <1>1, <2>1
<1>3. CASE ClearStaged
  BY <1>3 DEF ClearStaged, TypeOK, StagedFiles
<1>4. ASSUME NEW f \in 0..LastDay, CopyToStaged(f) PROVE StagedBacked'
  <2>1. /\ rpc' = "copied" /\ files' = files /\ f \in DOMAIN files /\ f \in Days
        /\ staged' = [image |-> files[f].rows, id |-> restores, whole |-> files[f].whole,
                      log |-> IF staged = None THEN None ELSE staged.log]
    BY <1>4 DEF CopyToStaged, Days
  <2>2. (IF staged = None THEN None ELSE staged.log) = None
    BY <1>4 DEF CopyToStaged
  <2>3. files[f] \in BackupFiles
    BY <2>1 DEF TypeOK
  <2>4. staged' \in StagedFiles /\ staged'.log = None
    BY <2>1, <2>2, <2>3 DEF StagedFiles, BackupFiles, Logs, TypeOK
  <2>5. IsBackup(f)'
    BY <2>1
  <2> QED BY <2>1, <2>4, <2>5
<1>5. CASE NothingToCopy \/ KillRestore
  BY <1>5 DEF NothingToCopy, KillRestore
<1>6. CASE OpenStaged
  <2>1. staged \in StagedFiles /\ staged.log = None /\ files' = files /\ rpc' = "checking"
    BY <1>6 DEF OpenStaged
  <2>2. staged' = [staged EXCEPT !.log = [id |-> staged.id, rows |-> staged.image]]
    BY <1>6, <2>1 DEF OpenStaged
  <2>3. /\ staged' \in StagedFiles /\ staged'.whole = staged.whole /\ staged'.image = staged.image
        /\ staged'.log.rows = staged'.image
    BY <2>1, <2>2 DEF StagedFiles, Logs
  <2> QED BY <1>6, <2>1, <2>3 DEF OpenStaged
<1>7. CASE CheckStaged
  <2>1. staged \in StagedFiles /\ Content(staged) = staged.image /\ files' = files
    BY <1>7 DEF CheckStaged, Content
  <2>2. /\ staged' \in StagedFiles /\ staged'.whole = staged.whole /\ staged'.image = staged.image
        /\ staged'.log = None
    <3> DEFINE read == [staged EXCEPT !.image = Content(staged)]
    <3>1. read = staged
      BY <2>1 DEF StagedFiles
    <3>2. staged' = [read EXCEPT !.log = None]
      BY <1>7 DEF CheckStaged
    <3> HIDE DEF read
    <3> QED BY <2>1, <3>1, <3>2 DEF StagedFiles, Logs
  <2>3. rpc = "checking" /\ (rpc' = "idle" \/ (rpc' = "checked" /\ staged.whole))
    BY <1>7 DEF CheckStaged
  <2>4. \E f \in Days : IsBackup(f)
    BY <2>3
  <2>5. \E f \in Days : IsBackup(f)'
    BY <2>1, <2>2, <2>4
  <2>6. CASE rpc' = "idle"
    BY <2>6
  <2>7. CASE rpc' = "checked" /\ staged.whole
    BY <2>2, <2>5, <2>7
  <2> QED BY <2>3, <2>6, <2>7
<1>8. CASE DropMainLog
  <2>1. main'.log = None /\ rpc' = "unlogged" /\ UNCHANGED <<staged, files>>
    BY <1>8 DEF DropMainLog, TypeOK, Databases
  <2> QED BY <1>8, <2>1 DEF DropMainLog
<1>9. CASE Swap
  BY <1>9 DEF Swap
<1>10. CASE UNCHANGED vars
  BY <1>10 DEF vars, restore
<1> QED BY <1>2, <1>3, <1>4, <1>5, <1>6, <1>7, <1>8, <1>9, <1>10 DEF Next, Restoring

-----------------------------------------------------------------------------
(* The theorems. *)

\* The invariant holds in every state.
THEOREM RetentionInductive == Spec => []IInv
<1>1. IInv /\ [Next]_vars => IInv'
  BY TypeStep, ApartStep, CycleStep, ReceiptStep, SparedStep, SurvivesStep, StagedStep DEF IInv
<1> QED BY InitIInv, <1>1, PTL DEF Spec

\* Databases, backup files, receipts and the two programs' places keep the
\* shapes the module declares.
THEOREM RetentionTypes == Spec => []TypeOK
<1>1. IInv => TypeOK
  BY DEF IInv
<1> QED BY <1>1, RetentionInductive, PTL

\* runRetentionPrune: no deletion commits before its receipt is in the bytes of
\* the journal, whatever failed or died around it.
THEOREM ReceiptsPrecedeDeletions == Spec => []ReceiptWritten
<1>1. IInv => ReceiptWritten
  BY DEF IInv, ReceiptsWritten, Receipted, ReceiptWritten
<1> QED BY <1>1, RetentionInductive, PTL

\* runBackupRetention: from the first complete backup on, one complete backup
\* stays in the directory.
THEOREM LastBackupSurvives == Spec => []BackupSurvives
<1>1. IInv => BackupSurvives
  BY DEF IInv
<1> QED BY <1>1, RetentionInductive, PTL

\* createBackupScheduler: a pass takes a row away only when the backup of its own
\* cycle is complete and holds the row.
THEOREM PrunedRowsAreBackedUp == Spec => PrunedIsKept
<1> DEFINE Lost == pruned' \ pruned # {}
           Kept == /\ job \in DOMAIN files /\ files[job].whole
                   /\ pruned' \ pruned \subseteq files[job].rows
<1>1. IInv /\ [Next]_vars => [Lost => Kept]_vars
  <2> SUFFICES ASSUME IInv, Next, Lost PROVE Kept
    BY DEF vars
  <2>1. Commit
    BY DEF Next, Pass, Fault, Restoring, Tick, InsertEvent, StartBackup, FinishBackup, BeginPrune,
       AppendReceipt, ListExpired, UnlinkNext, EndCycle, FailBackup, TearReceipt, FailCommit, Crash,
       Stop, Boot, ClearStaged, CopyToStaged, NothingToCopy, OpenStaged, CheckStaged, DropMainLog,
       Swap, KillRestore
  <2>2. pruned' \ pruned \subseteq window
    BY <2>1 DEF Commit
  <2> QED BY <2>1, <2>2 DEF Commit, IInv, CycleBacked
<1> QED BY <1>1, RetentionInductive, PTL DEF Spec, PrunedIsKept

\* restoreDatabase: the database is its last image until a checked copy takes its
\* place, and then it is one backup to the row.
THEOREM RestoresAreExact == Spec => RestoreExact
<1> DEFINE Other == main'.id # main.id
           Exact == /\ staged.whole
                    /\ \E f \in DOMAIN files : Content(main') = files[f].rows
<1>1. IInv /\ [Next]_vars => [Other => Exact]_vars
  <2> SUFFICES ASSUME IInv, Next, Other PROVE Exact
    BY DEF vars
  <2>0. main \in Databases
    BY DEF IInv, TypeOK
  <2>1. \A rows \in SUBSET Days : Committed(main, rows).id = main.id /\ Checkpointed(main).id = main.id
    BY <2>0 DEF Committed, Checkpointed, Databases
  <2>2. Content(main) \in SUBSET Days /\ day \in Days
    BY ContentType, <2>0 DEF IInv, TypeOK
  <2>3. ~InsertEvent /\ ~Commit
    BY <2>1, <2>2 DEF InsertEvent, Commit
  <2>4. ~Stop /\ ~DropMainLog
    BY <2>0, <2>1 DEF Stop, DropMainLog, Databases
  <2>5. Swap
    BY <2>3, <2>4 DEF Next, Pass, Fault, Restoring, Tick, StartBackup, FinishBackup, BeginPrune,
       AppendReceipt, ListExpired, UnlinkNext, EndCycle, FailBackup, TearReceipt, FailCommit, Crash,
       Boot, ClearStaged, CopyToStaged, NothingToCopy, OpenStaged, CheckStaged, KillRestore
  <2>6. staged.whole /\ main.log = None /\ \E f \in Days : IsBackup(f)
    BY <2>5 DEF Swap, RestoreStep, IInv, StagedBacked
  <2>7. Content(main') = staged.image
    BY <2>0, <2>5, <2>6 DEF Swap, Content, Databases
  <2> QED BY <2>6, <2>7 DEF IsBackup
<1> QED BY <1>1, RetentionInductive, PTL DEF Spec, RestoreExact
=============================================================================
