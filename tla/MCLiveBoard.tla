---------------------------- MODULE MCLiveBoard ----------------------------
(***************************************************************************)
(* Finite instances for TLC of three programs that read what others write  *)
(* meanwhile: the live board, which patches a snapshot with frames; the    *)
(* cache that re-reads transcripts; and the installer that rewrites a      *)
(* settings file. They share no state, so a behaviour is one of them, and  *)
(* the two agents, the two files and the two processes may be the same two *)
(* values.                                                                 *)
(***************************************************************************)
EXTENDS LiveBoard, TLC

CONSTANTS x, y, Newline, Lead, Trail, Wide, Bad,
          Files, OverlapBytes, MaxFileBytes, MaxCacheBytes, MaxCacheEntries,
          MaxChanges, MaxClock,
          None, Events, Wired, Options, Foreign, Ambiguous, Runs,
          Milliseconds, BackupNames, MaxRuns, MaxEdits

VARIABLES
  subject,  \* what this behaviour is of
  clock, disk, changes, cache, total, read, answer, known,
  file, temp, backups, run, runs, edits, replaced

rereading == <<clock, disk, changes, cache, total, read, answer, known>>
installed == <<file, temp, backups, run, runs, edits, replaced>>

\* Lines that grow one another; the same with the first line rewritten under
\* an unchanged end; torn ends, one of them inside a character; one too large.
Transcripts ==
  {<<x, Newline>>,
   <<x, Newline, Lead>>,
   <<x, Newline, Lead, Trail, Newline>>,
   <<x, Newline, y, Newline>>,
   <<y, Newline, y, Newline>>,
   <<x, Newline, y, Newline, x>>,
   <<y, Newline, y, Newline, x, Newline>>,
   <<x, Newline, x, Newline, x, Newline, x>>}

\* Contents the owner of the settings file may write: hand-formatted, with a
\* foreign command beside one of ours, with a list of no entries, with a
\* malformed or an unplaceable event.
Settings(shape, hooks, rest) ==
  [kind |-> "settings", shape |-> shape, hooks |-> hooks, rest |-> rest, own |-> FALSE]

Written ==
  LET Stop(hooks) == [e \in {"Stop"} |-> hooks]
      Both(hooks, other) == [e \in {"Stop", "Other"} |-> IF e = "Stop" THEN hooks ELSE other]
  IN { Settings("none", << >>, "a"),
       Settings("object", Stop(<< <<"f">>, <<"p1", "f">> >>), "a"),
       Settings("object", Both(<< >>, << <<"p1">>, <<"f">> >>), "a"),
       Settings("object", Both(<< <<"x">> >>, << <<"no list">> >>), "a"),
       Settings("other", << >>, "a") }

Reread == INSTANCE TailCache WITH seen <- known, Contents <- Transcripts
Hooks == INSTANCE HookInstaller

ASSUME ReadersAssumption == Reread!Configured /\ Hooks!Configured

Alike == Permutations(Agents \cup Files \cup Runs)

BoardParked == Init /\ db = [a \in Agents |-> Absent]

InstallerParked ==
  /\ file = None /\ temp = << >> /\ backups = << >>
  /\ run = [p \in Runs |-> [pc |-> "idle"]]
  /\ runs = 0 /\ edits = 0 /\ replaced = {}

CacheParked ==
  /\ clock = 0 /\ changes = 0 /\ total = 0 /\ cache = << >>
  /\ disk = << >> /\ known = << >> /\ read = None /\ answer = None

ReadersInit ==
  \/ subject = "board" /\ Init /\ CacheParked /\ InstallerParked
  \/ subject = "cache" /\ BoardParked /\ Reread!Init /\ InstallerParked
  \/ subject = "installer" /\ BoardParked /\ CacheParked /\ Hooks!Init

ReadersNext ==
  \/ subject = "board" /\ Next /\ UNCHANGED <<subject, rereading, installed>>
  \/ subject = "cache" /\ Reread!Next /\ UNCHANGED <<subject, vars, installed>>
  \/ subject = "installer" /\ Hooks!Next /\ UNCHANGED <<subject, vars, rereading>>

ReadersSpec == ReadersInit /\ [][ReadersNext]_<<subject, vars, rereading, installed>>

\* A call of the cache returns the text of its file.
ReadsTheFile == Reread!ReadsTheFile

\* What a settings run replaced and nobody else had written is in a backup.
Recoverable == Hooks!Recoverable

\* A settings run that replaces what it read leaves the hooks that were asked
\* for, once each, and all that is not ours as it was.
LeftAsAsked == Hooks!LeftAsAsked
=============================================================================
