---------------------------- MODULE ServerLifecycle ----------------------------
(***************************************************************************)
(* The life of one server process (index.ts): what is opened and armed in  *)
(* which order, what a failing step undoes, what closing waits for, and    *)
(* what the operator is told of the corpus meanwhile.                      *)
(*                                                                         *)
(* A step is what runs between two awaits: timers, requests, answers of a  *)
(* delivery and pages of a backup come between any two.  A pass over the   *)
(* corpus is one step with its outcome; CorpusWatcher has its inside.      *)
(***************************************************************************)
EXTENDS Naturals, FiniteSets

CONSTANTS
  Transcripts,  \* transcripts a pass may decline to read
  RelogPasses   \* how long one skip is not named again

VARIABLES
  pc,        \* how far the process has come
  ingest,    \* is the corpus ingested?
  named,     \* has the operator named an alerts file?
  db,        \* is the database open?
  timers,    \* intervals that are armed
  busy,      \* what has been started and awaits something
  phase,     \* ingestPhase, as health serves it
  ingested,  \* a pass of the replay took something in
  trouble,   \* tickTrouble: what the last line about trouble was
  said,      \* history: what the log last said of the corpus
  looked,    \* history: what the last pass found
  since,     \* lastLoggedAt: the age of the last line about each skip, capped
  line,      \* history: the age of the last such line that was printed, capped
  skipped    \* what a pass at this instant declined to read

process == <<pc, ingest, named, db, timers, busy>>
corpus == <<phase, ingested, trouble, said, looked>>
skips == <<since, line, skipped>>
vars == <<process, corpus, skips>>

Troubles == {"read-error", "no-corpus-root"}
Reads == {"ingested", "pending", "unchanged"}
Outcomes == Troubles \cup Reads

\* What an outcome, or the line that names it, says of the corpus.
Says(outcome) == IF outcome \in Reads THEN "reads" ELSE outcome

LongAgo == [t \in Transcripts |-> RelogPasses]

Init ==
  /\ pc = "off" /\ ingest = FALSE /\ named = FALSE
  /\ db = "closed" /\ timers = {} /\ busy = {}
  /\ phase = "idle" /\ ingested = FALSE
  /\ trouble = "none" /\ said = "nothing" /\ looked = "nothing"
  /\ since = LongAgo /\ line = LongAgo /\ skipped = {}

\* The process ends, and with it all it holds.
Exit ==
  /\ pc' = "off" /\ ingest' = FALSE /\ named' = FALSE
  /\ db' = "closed" /\ timers' = {} /\ busy' = {}
  /\ phase' = "idle" /\ ingested' = FALSE
  /\ trouble' = "none" /\ said' = "nothing" /\ looked' = "nothing"
  /\ since' = LongAgo /\ line' = LongAgo /\ skipped' = {}

-------------------------------------------------------------------------------
\* Boot.

\* loadConfig, then the alerts file, before anything is opened.
Configure(follows, alerts) ==
  /\ pc = "off"
  /\ pc' = "configured" /\ ingest' = follows /\ named' = alerts
  /\ UNCHANGED <<db, timers, busy, corpus, skips>>

Open ==
  /\ pc = "configured"
  /\ pc' = "open" /\ db' = "open"
  /\ UNCHANGED <<ingest, named, timers, busy, corpus, skips>>

\* Policy, dry run, hub, watcher, routes; the daily backup is armed.
Wire ==
  /\ pc = "open"
  /\ pc' = "wired"
  /\ timers' = {"backups"}
  /\ phase' = IF ingest THEN "replaying" ELSE "idle"
  /\ UNCHANGED <<ingest, named, db, busy, ingested, trouble, said, looked, skips>>

StartAlerting ==
  /\ pc = "wired"
  /\ pc' = "binding"
  /\ timers' = IF named THEN timers \cup {"alerts"} ELSE timers
  /\ UNCHANGED <<ingest, named, db, busy, corpus, skips>>

\* listen, and every bound address is loopback.
Listen ==
  /\ pc = "binding"
  /\ pc' = IF ingest THEN "replaying" ELSE "serving"
  /\ UNCHANGED <<ingest, named, db, timers, busy, corpus, skips>>

\* Before the wiring is done a throw ends the process with nothing to close.
BootThrows ==
  /\ pc \in {"off", "configured", "open"}
  /\ Exit

-------------------------------------------------------------------------------
\* Closing.

\* alerting.stop: its timer is cleared first, then what is in flight settles.
BeginClose ==
  /\ pc' = "closing"
  /\ timers' = timers \ {"alerts"}
  /\ UNCHANGED <<ingest, named, db, busy, corpus, skips>>

\* A token that does not resolve, a port in use, an address that is not loopback.
BootFails == pc \in {"wired", "binding"} /\ BeginClose

Close == pc = "serving" /\ BeginClose

StopTimersNotBackups ==   \* a mutant
  /\ pc = "closing" /\ "delivery" \notin busy
  /\ pc' = "draining"
  /\ timers' = timers \ {"poll"}
  /\ busy' = busy \ {"stream"}
  /\ UNCHANGED <<ingest, named, db, corpus, skips>>

\* backups.stop and watcher.stop; app.close ends every stream.
StopTimers ==
  /\ pc = "closing" /\ "delivery" \notin busy
  /\ pc' = "draining"
  /\ timers' = timers \ {"backups", "poll"}
  /\ busy' = busy \ {"stream"}
  /\ UNCHANGED <<ingest, named, db, corpus, skips>>

CloseDatabase ==
  /\ pc = "draining"
  /\ pc' = "closed" /\ db' = "closed"
  /\ UNCHANGED <<ingest, named, timers, busy, corpus, skips>>

Ends == pc = "closed" /\ Exit

-------------------------------------------------------------------------------
\* What else runs.

\* A tick of the alerts, and the send it awaits.
Deliver ==
  /\ "alerts" \in timers /\ busy' = busy \cup {"delivery"}
  /\ UNCHANGED <<pc, ingest, named, db, timers, corpus, skips>>

Delivered ==
  /\ "delivery" \in busy /\ busy' = busy \ {"delivery"}
  /\ UNCHANGED <<pc, ingest, named, db, timers, corpus, skips>>

\* scheduleDailyBackups: never two at once; the copy yields between pages.
Backup ==
  /\ "backups" \in timers /\ "backup" \notin busy
  /\ busy' = busy \cup {"backup"}
  /\ UNCHANGED <<pc, ingest, named, db, timers, corpus, skips>>

BackedUp ==
  /\ "backup" \in busy /\ busy' = busy \ {"backup"}
  /\ UNCHANGED <<pc, ingest, named, db, timers, corpus, skips>>

\* A peer opens an event stream while the server listens, or leaves.
OpenStream ==
  /\ pc \in {"replaying", "serving", "closing"}
  /\ busy' = busy \cup {"stream"}
  /\ UNCHANGED <<pc, ingest, named, db, timers, corpus, skips>>

LeaveStream ==
  /\ "stream" \in busy /\ busy' = busy \ {"stream"}
  /\ UNCHANGED <<pc, ingest, named, db, timers, corpus, skips>>

-------------------------------------------------------------------------------
\* Passes over the corpus, and the log.

\* A mutant: a skip that is not named again keeps the silence going.
NameSkipsSliding(declined) ==
  /\ skipped' = declined
  /\ line' = [t \in Transcripts |->
                IF t \in declined /\ since[t] >= RelogPasses THEN 0 ELSE line[t]]
  /\ since' = [t \in Transcripts |-> IF t \in declined THEN 0 ELSE since[t]]

\* createSkipReporter: a skip is named unless it was a short while ago.
NameSkips(declined) ==
  LET admitted == {t \in declined : since[t] >= RelogPasses}
  IN  /\ skipped' = declined
      /\ line' = [t \in Transcripts |-> IF t \in admitted THEN 0 ELSE line[t]]
      /\ since' = [t \in Transcripts |-> IF t \in admitted THEN 0 ELSE since[t]]

\* A mutant: the trouble the replay ended in is announced but not remembered.
SeededNever(outcome) == "none"
Seeded(outcome) == IF outcome \in Troubles THEN outcome ELSE "none"

\* runStartupReplay: capped passes until one leaves nothing pending; one line
\* for all of them, and one for an ending that took nothing in.
ReplayPass(outcome, declined) ==
  /\ pc = "replaying"
  /\ NameSkips(declined)
  /\ looked' = Says(outcome)
  /\ IF outcome = "pending"
     THEN ingested' = TRUE /\ UNCHANGED <<pc, timers, phase, trouble, said>>
     ELSE /\ ingested' = (ingested \/ outcome = "ingested")
          /\ said' = IF ingested /\ outcome = "unchanged" THEN "reads" ELSE Says(outcome)
          /\ trouble' = Seeded(outcome)
          /\ phase' = IF outcome = "read-error" THEN phase ELSE "idle"
          /\ timers' = timers \cup {"poll"}
          /\ pc' = "serving"
  /\ UNCHANGED <<ingest, named, db, busy>>

\* tickTroubleTransition: entering trouble, and leaving it, is said once;
\* replayPhaseEndLine: how the phase that a read error left open has ended.
Poll(outcome, declined) ==
  LET next == IF outcome \in Troubles THEN outcome ELSE "none"
      ends == phase = "replaying" /\ outcome # "pending"
  IN  /\ "poll" \in timers
      /\ NameSkips(declined)
      /\ looked' = Says(outcome)
      /\ trouble' = next
      /\ said' = IF next # trouble \/ ends THEN Says(outcome) ELSE said
      /\ phase' = IF ends THEN "idle" ELSE phase
      /\ UNCHANGED <<process, ingested>>

\* A containment violation stops everything.
Fatal ==
  /\ pc = "replaying" \/ "poll" \in timers
  /\ Exit

TimePasses ==
  /\ since' = [t \in Transcripts |-> IF since[t] < RelogPasses THEN since[t] + 1 ELSE since[t]]
  /\ line' = [t \in Transcripts |-> IF line[t] < RelogPasses THEN line[t] + 1 ELSE line[t]]
  /\ skipped' = {}
  /\ UNCHANGED <<process, corpus>>

Next ==
  \/ \E follows, alerts \in BOOLEAN : Configure(follows, alerts)
  \/ Open \/ Wire \/ StartAlerting \/ Listen \/ BootThrows
  \/ BootFails \/ Close \/ StopTimers \/ CloseDatabase \/ Ends
  \/ Deliver \/ Delivered \/ Backup \/ BackedUp \/ OpenStream \/ LeaveStream
  \/ \E outcome \in Outcomes, declined \in SUBSET Transcripts :
       /\ outcome \notin {"ingested", "pending"} => declined = {}
       /\ ReplayPass(outcome, declined) \/ Poll(outcome, declined)
  \/ Fatal \/ TimePasses

Spec == Init /\ [][Next]_vars

-------------------------------------------------------------------------------
\* Once the database is closed nothing is armed or awaited that would use it,
\* whichever step of the boot failed and whatever was going on, a backup apart,
\* which is told so and ends (start, close; RetentionCycle has its outcome).
ClosedQuietly == db = "closed" => timers = {} /\ busy \subseteq {"backup"}

\* The log's last word on the corpus is what the last pass found, although
\* only changes are said, by the replay, the polls and the end of the phase in
\* turn; and a transcript that is not read has been named not long ago
\* (tickTroubleTransition, replayPhaseEndLine, createSkipReporter).
OperatorTold ==
  /\ "poll" \in timers => said = looked
  /\ \A t \in skipped : line[t] < RelogPasses
===============================================================================
