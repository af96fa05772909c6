--------------------------- MODULE RetentionCycle ---------------------------
(***************************************************************************)
(* The daily backup with the retention pass chained to it, and the restore *)
(* that takes a backup in place of the database.                           *)
(*                                                                         *)
(* The online backup yields to other work between pages. Once it is done,  *)
(* the pass runs without yielding (row prune, receipt, commit, expiry of   *)
(* backup files), so only a fault falls between two of its steps: a        *)
(* failing write, a failing commit, or the death of the process. A restore *)
(* is a program run by hand while the server is down, and may die too.     *)
(*                                                                         *)
(* A row of the events table is the day it occurred on, a backup file the  *)
(* day its cycle began. A database is an image and a write-ahead log; the  *)
(* log holds every commit since the image was last checkpointed and is     *)
(* replayed into whatever image an opener finds beside it.                 *)
(***************************************************************************)
EXTENDS Integers, Sequences, FiniteSets, SequencesExt

CONSTANTS
  EventsDays,     \* age in days past which a row of events expires
  BackupDays,     \* age in days past which a backup file expires
  KeepMinimum,    \* newest backup files no pass removes
  MaxRowsPerRun,  \* rows one pass may remove
  LastDay,        \* bound: days of a behaviour
  MaxRestores,    \* bound: restores of a behaviour
  MaxFaults,      \* bound: failing writes and deaths of a behaviour
  None            \* no log, no file at hand

\* assertRetentionPolicy: every number of a rule is a positive integer.
ASSUME PolicyAssumption ==
  /\ EventsDays \in Nat \ {0}
  /\ BackupDays \in Nat \ {0}
  /\ KeepMinimum \in Nat \ {0}
  /\ MaxRowsPerRun \in Nat \ {0}
  /\ LastDay \in Nat
  /\ MaxRestores \in Nat
  /\ MaxFaults \in Nat

VARIABLES
  day,       \* today
  up,        \* the server runs
  main,      \* the database file: its image, which database it is, its log
  files,     \* the backup files: a function from a day to a file
  pc,        \* where the cycle stands
  job,       \* the day of the running cycle
  window,    \* the rows the open transaction removes
  doomed,    \* backup files the pass has still to unlink
  journal,   \* the receipt file: a sequence of lines of chunks
  pruned,    \* history: rows whose deletion committed
  covered,   \* history: some backup has been completed
  rpc,       \* where a restore stands
  staged,    \* the file the restore copies into and checks
  restores,  \* restores begun so far
  faults     \* failing writes and deaths so far

cycle == <<pc, job, window, doomed>>
restore == <<rpc, staged, restores>>
vars == <<day, up, main, files, cycle, journal, pruned, covered, restore, faults>>

-----------------------------------------------------------------------------
(* Databases *)

\* What an opener reads: the log is replayed into the image beside it.
Content(db) == IF db.log = None THEN db.image ELSE db.log.rows

Committed(db, rows) == [db EXCEPT !.log = [id |-> db.id, rows |-> rows]]

\* A clean close checkpoints the log and removes it.
Checkpointed(db) == [db EXCEPT !.image = Content(db), !.log = None]

-----------------------------------------------------------------------------
(* The server at work *)

Struck == faults < MaxFaults /\ faults' = faults + 1

\* Neither the pass, which holds one instant, nor a restore looks at the clock.

Tick ==
  /\ day < LastDay
  /\ pc \in {"idle", "copying"} /\ rpc = "idle"
  /\ day' = day + 1
  /\ UNCHANGED <<up, main, files, cycle, journal, pruned, covered, restore, faults>>

\* A hook event is stored, while no pass holds the thread.
InsertEvent ==
  /\ up /\ pc \in {"idle", "copying"}
  /\ day \notin Content(main) \cup pruned
  /\ main' = Committed(main, Content(main) \cup {day})
  /\ UNCHANGED <<day, up, files, cycle, journal, pruned, covered, restore, faults>>

\* The timer, or a manual runOnce: one cycle at a time. The file is there,
\* and matches the naming convention, from its first page on.
StartBackup ==
  /\ up /\ pc = "idle"
  /\ day \notin DOMAIN files
  /\ pc' = "copying"
  /\ job' = day
  /\ files' = [f \in DOMAIN files \cup {day} |->
                 IF f = day THEN [written |-> day, whole |-> FALSE, rows |-> {}]
                 ELSE files[f]]
  /\ UNCHANGED <<day, up, main, window, doomed, journal, pruned, covered, restore, faults>>

\* The last page is copied; writes of this connection went along with it.
FinishBackup ==
  /\ pc = "copying"
  /\ pc' = "copied"
  /\ files' = [files EXCEPT ![job] = [written |-> day, whole |-> TRUE,
                                      rows |-> Content(main)]]
  /\ covered' = TRUE
  /\ UNCHANGED <<day, up, main, job, window, doomed, journal, pruned, restore, faults>>

Without(f) == [g \in DOMAIN files \ {f} |-> files[g]]

\* The pass runs although the backup was rejected: a mutant.
FailBackupOn ==
  /\ pc = "copying"
  /\ pc' = "copied"
  /\ files' \in {files, Without(job)}
  /\ Struck
  /\ UNCHANGED <<day, up, main, job, window, doomed, journal, pruned, covered, restore>>

\* The backup rejects: logged, and nothing is deleted in this cycle. The
\* library may or may not have removed the file it had begun.
FailBackup ==
  /\ pc = "copying"
  /\ pc' = "idle" /\ job' = 0
  /\ files' \in {files, Without(job)}
  /\ Struck
  /\ UNCHANGED <<day, up, main, window, doomed, journal, pruned, covered, restore>>

-----------------------------------------------------------------------------
(* The retention pass, at the cycle's own day *)

\* At most MaxRowsPerRun expired rows, oldest first.
ExpiredWindow ==
  LET expired == {r \in Content(main) : r < job - EventsDays}
  IN {r \in expired : Cardinality({q \in expired : q < r}) < MaxRowsPerRun}

\* The backup files older than the rule allows, but for the newest of all.
ExpiredFiles ==
  {f \in DOMAIN files :
     /\ Cardinality({g \in DOMAIN files : files[g].written > files[f].written}) >= KeepMinimum
     /\ files[f].written < job - BackupDays}

\* The rows are deleted first and the receipt is left for later: a mutant.
BeginPruneBare ==
  /\ pc = "copied"
  /\ window' = ExpiredWindow
  /\ pc' = IF ExpiredWindow = {} THEN "pruned" ELSE "commit"
  /\ UNCHANGED <<day, up, main, files, job, doomed, journal, pruned, covered, restore, faults>>

\* The transaction opens: its window is measured and deleted, not committed.
BeginPrune ==
  /\ pc = "copied"
  /\ window' = ExpiredWindow
  /\ pc' = IF ExpiredWindow = {} THEN "pruned" ELSE "receipt"
  /\ UNCHANGED <<day, up, main, files, job, doomed, journal, pruned, covered, restore, faults>>

\* An append lands behind what the file ends with: on a line of its own after
\* a newline, else on the torn line.
Appended(chunk) ==
  IF journal = <<>> \/ Last(Last(journal)).whole THEN Append(journal, <<chunk>>)
  ELSE Append(Front(journal), Append(Last(journal), chunk))

Receipt(whole) == [rows |-> window, whole |-> whole]

\* Written in full and flushed, inside the transaction.
AppendReceipt ==
  /\ pc = "receipt"
  /\ journal' = Appended(Receipt(TRUE))
  /\ pc' = "commit"
  /\ UNCHANGED <<day, up, main, files, job, window, doomed, pruned, covered, restore, faults>>

\* The write stops part-way and throws: the transaction rolls back.
TearReceipt ==
  /\ pc = "receipt"
  /\ journal' = Appended(Receipt(FALSE))
  /\ pc' = "idle" /\ job' = 0
  /\ window' = {}
  /\ Struck
  /\ UNCHANGED <<day, up, main, files, doomed, pruned, covered, restore>>

Commit ==
  /\ pc = "commit"
  /\ main' = Committed(main, Content(main) \ window)
  /\ pruned' = pruned \cup window
  /\ window' = {}
  /\ pc' = "pruned"
  /\ UNCHANGED <<day, up, files, job, doomed, journal, covered, restore, faults>>

\* The commit fails: rolled back, with a receipt for what did not happen.
FailCommit ==
  /\ pc = "commit"
  /\ pc' = "idle" /\ job' = 0
  /\ window' = {}
  /\ Struck
  /\ UNCHANGED <<day, up, main, files, doomed, journal, pruned, covered, restore>>

ListExpired ==
  /\ pc = "pruned"
  /\ doomed' = ExpiredFiles
  /\ pc' = "expiring"
  /\ UNCHANGED <<day, up, main, files, job, window, journal, pruned, covered, restore, faults>>

\* One file at a time, the newest of those that go first.
UnlinkNext ==
  /\ pc = "expiring"
  /\ \E f \in doomed :
       /\ \A g \in doomed : files[g].written <= files[f].written
       /\ files' = Without(f)
       /\ doomed' = doomed \ {f}
  /\ UNCHANGED <<day, up, main, pc, job, window, journal, pruned, covered, restore, faults>>

\* The list is done, or a file could not be removed and the pass stops.
EndCycle ==
  /\ pc = "expiring"
  /\ pc' = "idle" /\ job' = 0
  /\ doomed' = {}
  /\ UNCHANGED <<day, up, main, files, window, journal, pruned, covered, restore, faults>>

-----------------------------------------------------------------------------
(* Shutdown, crash and boot *)

\* The cycle dies with the process; an open transaction is not in the log.
Halted == pc' = "idle" /\ job' = 0 /\ window' = {} /\ doomed' = {}

\* server close: the timer is cleared and the database closed, under an
\* online backup if one is on its way. A pass is not interrupted.
Stop ==
  /\ up /\ pc \in {"idle", "copying"}
  /\ up' = FALSE
  /\ main' = Checkpointed(main)
  /\ files' \in IF pc = "copying" THEN {files, Without(job)} ELSE {files}
  /\ Halted
  /\ UNCHANGED <<day, journal, pruned, covered, restore, faults>>

\* The process is killed between any two steps, or inside the append.
Crash ==
  /\ up
  /\ up' = FALSE
  /\ Halted
  /\ journal' \in IF pc = "receipt" THEN {journal, Appended(Receipt(FALSE))} ELSE {journal}
  /\ Struck
  /\ UNCHANGED <<day, main, files, pruned, covered, restore>>

\* openDatabase recovers the log; the boot report is a dry run.
Boot ==
  /\ ~up /\ rpc = "idle"
  /\ up' = TRUE
  /\ UNCHANGED <<day, main, files, cycle, journal, pruned, covered, restore, faults>>

-----------------------------------------------------------------------------
(* restoreDatabase *)

RestoreStep(from, to) == rpc = from /\ rpc' = to

\* Leftover sidecars of an earlier staged copy go first.
ClearStaged ==
  /\ ~up /\ restores < MaxRestores
  /\ RestoreStep("idle", "cleared")
  /\ restores' = restores + 1
  /\ staged' = IF staged = None THEN None ELSE [staged EXCEPT !.log = None]
  /\ UNCHANGED <<day, up, main, files, cycle, journal, pruned, covered, faults>>

CopyToStaged(f) ==
  /\ RestoreStep("cleared", "copied")
  /\ f \in DOMAIN files
  /\ staged' = [image |-> files[f].rows, id |-> restores, whole |-> files[f].whole,
                log |-> IF staged = None THEN None ELSE staged.log]
  /\ UNCHANGED <<day, up, main, files, cycle, journal, pruned, covered, restores, faults>>

\* There is no such backup: the copy throws, and nothing else was touched.
NothingToCopy ==
  /\ RestoreStep("cleared", "idle")
  /\ files = <<>>
  /\ UNCHANGED <<day, up, main, files, cycle, journal, pruned, covered, staged, restores, faults>>

\* The copy is opened, which gives it a log of its own.
OpenStaged ==
  /\ RestoreStep("copied", "checking")
  /\ staged' = IF staged.log # None THEN staged
               ELSE [staged EXCEPT !.log = [id |-> staged.id, rows |-> staged.image]]
  /\ UNCHANGED <<day, up, main, files, cycle, journal, pruned, covered, restores, faults>>

\* integrity_check, then the handle is closed whatever it said. A file that
\* was never finished fails it, and the restore throws.
CheckStaged ==
  /\ RestoreStep("checking", IF staged.whole THEN "checked" ELSE "idle")
  /\ staged' = [staged EXCEPT !.image = Content(staged), !.log = None]
  /\ UNCHANGED <<day, up, main, files, cycle, journal, pruned, covered, restores, faults>>

\* The log of the replaced database stays: a mutant.
KeepMainLog ==
  /\ RestoreStep("checked", "unlogged")
  /\ UNCHANGED <<day, up, main, files, cycle, journal, pruned, covered, staged, restores, faults>>

\* The log of the database being replaced goes before the swap.
DropMainLog ==
  /\ RestoreStep("checked", "unlogged")
  /\ main' = [main EXCEPT !.log = None]
  /\ UNCHANGED <<day, up, files, cycle, journal, pruned, covered, staged, restores, faults>>

Swap ==
  /\ RestoreStep("unlogged", "idle")
  /\ main' = [main EXCEPT !.image = staged.image, !.id = staged.id]
  /\ staged' = None
  /\ pruned' = pruned \ staged.image
  /\ UNCHANGED <<day, up, files, cycle, journal, covered, restores, faults>>

\* The restore is killed between two steps.
KillRestore ==
  /\ rpc # "idle"
  /\ rpc' = "idle"
  /\ Struck
  /\ UNCHANGED <<day, up, main, files, cycle, journal, pruned, covered, staged, restores>>

-----------------------------------------------------------------------------

Init ==
  /\ day = 0
  /\ up = TRUE
  /\ main = [image |-> {}, id |-> 0, log |-> None]
  /\ files = <<>>
  /\ pc = "idle" /\ job = 0 /\ window = {} /\ doomed = {}
  /\ journal = <<>>
  /\ pruned = {}
  /\ covered = FALSE
  /\ rpc = "idle" /\ staged = None /\ restores = 0
  /\ faults = 0

Pass == BeginPrune \/ AppendReceipt \/ Commit \/ ListExpired \/ UnlinkNext \/ EndCycle

Fault == FailBackup \/ TearReceipt \/ FailCommit \/ Crash

Restoring ==
  \/ ClearStaged
  \/ \E f \in 0..LastDay : CopyToStaged(f)
  \/ NothingToCopy \/ OpenStaged \/ CheckStaged \/ DropMainLog \/ Swap
  \/ KillRestore

Next ==
  \/ Tick \/ InsertEvent \/ StartBackup \/ FinishBackup
  \/ Pass
  \/ Fault
  \/ Stop \/ Boot
  \/ Restoring

Spec == Init /\ [][Next]_vars

-----------------------------------------------------------------------------
(* Properties *)

\* A pass takes a row from the database only when the backup of its own cycle
\* is complete and holds it: a failed or dying backup deletes nothing.
PrunedIsKept ==
  [][pruned' \ pruned # {} =>
       /\ job \in DOMAIN files /\ files[job].whole
       /\ pruned' \ pruned \subseteq files[job].rows]_vars

\* No deletion commits before its receipt is in the journal's bytes, whatever
\* failed or died around it.
ReceiptWritten ==
  \A r \in pruned : \E i \in DOMAIN journal : \E j \in DOMAIN journal[i] :
    journal[i][j].whole /\ r \in journal[i][j].rows

\* From the first complete backup on, one complete backup stays in the
\* directory: neither age nor the files of dead cycles, which the floor
\* counts, let a pass remove the last one.
BackupSurvives == covered => \E f \in DOMAIN files : files[f].whole

\* The database is its last image until a checked copy takes its place, and
\* then it is one backup to the row.
RestoreExact ==
  [][main'.id # main.id =>
       /\ staged.whole
       /\ \E f \in DOMAIN files : Content(main') = files[f].rows]_vars

=============================================================================
