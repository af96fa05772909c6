---------------------------- MODULE MCAlertOutbox ----------------------------
(***************************************************************************)
(* Finite instances for TLC of the outbox of alerts (one rule over two     *)
(* subjects, and the edits of the alerts file that move it, stop it and    *)
(* start it again) and of the life of the process it runs in. The life     *)
(* knows of a delivery only that it is awaited, so a behaviour is one of   *)
(* the outbox or one of the process.                                       *)
(***************************************************************************)
EXTENDS AlertOutbox

CONSTANTS r1, s1, s2, t1, t2,
          Transcripts, RelogPasses

ASSUME SilenceAssumption == RelogPasses \in Nat \ {0}

VARIABLES
  subject,  \* what this behaviour is of
  pc, ingest, named, db, timers, busy,
  phase, ingested, trouble, said, looked,
  since, line, skipped

process == <<pc, ingest, named, db, timers, busy, phase, ingested, trouble,
             said, looked, since, line, skipped>>

Server == INSTANCE ServerLifecycle

Sending(to) == [serves |-> {to}, target |-> [r \in {r1} |-> to]]
Resting == [serves |-> {t1}, target |-> [r \in {r1} |-> None]]

MovedOrStopped == {Sending(t1), Sending(t2), Resting}
Doubling == [n \in 1..MaxAttempts |-> 2^(n - 1)]

OutboxParked == Init /\ file = Sending(t1) /\ met = {}

ServerInit ==
  \/ subject = "outbox" /\ Init /\ Server!Init
  \/ subject = "process" /\ OutboxParked /\ Server!Init

Outboxes(A) == subject = "outbox" /\ A /\ UNCHANGED <<subject, process>>

ServerNext ==
  \/ subject = "outbox" /\ Next /\ UNCHANGED <<subject, process>>
  \/ subject = "process" /\ Server!Next /\ UNCHANGED <<subject, vars>>

all == <<subject, vars, process>>

ServerSpec ==
  /\ ServerInit /\ [][ServerNext]_all
  /\ WF_all(Outboxes(Tick)) /\ WF_all(Outboxes(Pass)) /\ WF_all(Outboxes(TimePasses))

\* Nothing that is armed or awaited outlives the database it would use.
ClosedQuietly == Server!ClosedQuietly

\* What the log last said of the corpus is so, and a skip is not hushed up.
OperatorTold == Server!OperatorTold
=============================================================================
