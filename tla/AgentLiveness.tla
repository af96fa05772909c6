---------------------------- MODULE AgentLiveness ----------------------------
(***************************************************************************)
(* Who may say that an agent is working, idle, finished, failed or silent. *)
(* Three writers share the status columns of `agents` and `sessions`: the  *)
(* transcript projection (ingest/project-session.ts over db/agents.ts and  *)
(* db/sessions.ts), the hook receiver (hooks/routes.ts, db/event-store.ts, *)
(* hooks/liveness-status.ts) and the missing-Stop watchdog                 *)
(* (ingest/watchdog.ts).  Retention prunes the projected hook timeline     *)
(* (retention/prune.ts).                                                   *)
(*                                                                         *)
(* The process is single-threaded and SQLite commits one transaction at a  *)
(* time, so an action is a transaction, or a handler cut by a crash after  *)
(* one of its transactions.  Hooks are sent by background curl processes:  *)
(* they may be lost, delayed, reordered, delivered twice, or name an agent *)
(* of another session.                                                     *)
(*                                                                         *)
(* Abstractions.  An instant is a number of clock ticks.  A transcript is  *)
(* the instant of its last record.  A session id is its main agent's id.   *)
(* `Stop` rows are stored too, but nothing ever reads them back.           *)
(***************************************************************************)
EXTENDS Naturals

CONSTANTS
  Agents,        \* agent ids
  Mains,         \* the main agents: each is also a session id
  SessionOf,     \* the session whose transcript directory holds the agent
  NoSession,     \* a hook payload that names no session, or none of this database
  Threshold,     \* DASHBOARD_WATCHDOG_MINUTES, in ticks
  LastRecord,    \* bound: no transcript is written after this instant
  MaxClock,      \* bound: clock ticks
  MaxReceipts    \* bound: hook deliveries

ASSUME LivenessAssumption ==
  /\ Mains \subseteq Agents
  /\ SessionOf \in [Agents -> Mains]
  /\ \A m \in Mains : SessionOf[m] = m
  /\ NoSession \notin Agents
  /\ Threshold \in Nat \ {0} /\ LastRecord \in Nat
  /\ MaxClock \in Nat \ {0} /\ MaxReceipts \in Nat

VARIABLES
  now,           \* the clock
  wrote,         \* wrote[a]: the last record of a's transcript, 0 if none
  killed,        \* agents whose parent transcript records terminated_early
  status, lastSeen,               \* table agents ("none": no row)
  sessionStatus, lastActivity,    \* table sessions
  stored,        \* SubagentStop firings in events_raw
  projected,     \* those whose row in events has not been pruned
  receipts,      \* deliveries so far (the bound MaxReceipts)
  acked,         \* history: SubagentStops answered with 202
  expired        \* history: pruned before their agent had a row

disk == <<wrote, killed>>
agents == <<status, lastSeen>>
sessions == <<sessionStatus, lastActivity>>
events == <<stored, projected>>
history == <<acked, expired>>
vars == <<now, disk, agents, sessions, events, receipts, history>>

Status == {"none", "working", "waiting", "completed", "error", "unknown"}
SubagentStops == [session : Mains \cup {NoSession}, agent : Agents]
Members(m) == {a \in Agents : SessionOf[a] = m}
LaterAlways(incoming, before) == incoming                 \* a mutant
Later(incoming, before) == IF incoming >= before THEN incoming ELSE before
----------------------------------------------------------------------------
(* The world: Claude Code writes transcripts, and records in the parent's  *)
(* transcript that a subagent was killed by an API error.                  *)
Write(a) ==
  /\ wrote[a] < now /\ now <= LastRecord
  /\ wrote' = [wrote EXCEPT ![a] = now]
  /\ UNCHANGED <<now, killed, agents, sessions, events, receipts, history>>

Kill(a) ==
  /\ a \notin Mains \cup killed /\ wrote[a] > 0 /\ now <= LastRecord
  /\ killed' = killed \cup {a}
  /\ wrote' = [wrote EXCEPT ![SessionOf[a]] = now]
  /\ UNCHANGED <<now, agents, sessions, events, receipts, history>>

ClockTicks ==
  /\ now < MaxClock
  /\ now' = now + 1
  /\ UNCHANGED <<disk, agents, sessions, events, receipts, history>>
----------------------------------------------------------------------------
(* The projection of one session, in one transaction.  A pass reads the    *)
(* transcripts it can, possibly a copy or a prefix older than the disk,    *)
(* and hears of a killed agent only from a parent it could read.           *)

UpsertedAfresh(before, seenBefore, asserted, seen) ==      \* a mutant: not sticky
  IF before = "none" \/ asserted = "error" \/ seen > seenBefore
  THEN asserted ELSE before
UpsertedSilent(before, seenBefore, asserted, seen) ==      \* a mutant: no revival
  IF before \in {"completed", "error", "unknown"} THEN before
  ELSE IF before = "none" \/ asserted = "error" \/ seen > seenBefore
  THEN asserted ELSE before

(* AGENT_STATUS_CASE, with the row before the upsert and what is asserted. *)
UpsertedStatus(before, seenBefore, asserted, seen) ==
  IF before \in {"completed", "error"} THEN before
  ELSE IF before = "none" \/ asserted = "error" \/ seen > seenBefore
  THEN asserted ELSE before

(* SESSION_STATUS_CASE: a session is only ever asserted to be working.     *)
UpsertedSessionStatus(before, activeBefore, active) ==
  IF before \in {"completed", "error"} THEN before
  ELSE IF before = "none" \/ active > activeBefore THEN "working" ELSE before

ReconciledNever(m, a, upserted) == upserted               \* a mutant
(* reconcilePendingSubagentStops: the stored stops of this session, for    *)
(* the agents this projection inserted, unless the row is already final.   *)
Reconciled(m, a, upserted) ==
  IF /\ status[a] = "none"
     /\ [session |-> m, agent |-> a] \in projected /\ a # m
     /\ upserted \notin {"completed", "error"}
  THEN "completed" ELSE upserted

Projects(m, read, seen, errors, latest) ==
  /\ status' =
       [a \in Agents |->
          IF a \in read
          THEN Reconciled(m, a, UpsertedStatus(status[a], lastSeen[a],
                 IF a \in errors THEN "error" ELSE "working", seen[a]))
          ELSE status[a]]
  /\ lastSeen' =
       [a \in Agents |-> IF a \in read THEN Later(seen[a], lastSeen[a]) ELSE lastSeen[a]]
  /\ sessionStatus' =
       [sessionStatus EXCEPT ![m] = UpsertedSessionStatus(@, lastActivity[m], latest)]
  /\ lastActivity' = [lastActivity EXCEPT ![m] = Later(latest, @)]

Ingest(m) ==
  /\ \E read \in SUBSET {a \in Members(m) : wrote[a] > 0} :
     \E seen \in [read -> 1..now], errors \in SUBSET (read \cap killed) :
     \E latest \in {seen[a] : a \in read} :
       /\ \A a \in read : seen[a] <= wrote[a] /\ seen[a] <= latest
       /\ errors # {} => m \in read
       /\ Projects(m, read, seen, errors, latest)
  /\ UNCHANGED <<now, disk, events, receipts, history>>
----------------------------------------------------------------------------
(* The hook receiver: append, then apply, each in its own transaction.     *)

(* The target of a firing, when the payload names one it may speak for.    *)
Speaks(stop) ==
  /\ stop.agent # stop.session              \* resolveHookStatusTarget
  /\ SessionOf[stop.agent] = stop.session   \* agentBelongsToSession
  /\ status[stop.agent] # "none"

(* applyAgentStatus and mirrorMainAgentStatus, in one transaction.         *)
Moves(a, verdict) ==
  /\ status' = [status EXCEPT ![a] = verdict]
  /\ sessionStatus' =
       IF a \in Mains THEN [sessionStatus EXCEPT ![a] = verdict] ELSE sessionStatus
  /\ UNCHANGED <<lastSeen, lastActivity>>

(* INSERT OR IGNORE by idempotency key: a redelivery writes no row, a      *)
(* second firing with the same payload writes one of its own.              *)
StoresOnce(stop) ==
  /\ stored' = stored \cup {stop}
  /\ \/ projected' = projected \cup {stop}
     \/ stop \in stored /\ UNCHANGED projected

Received == receipts < MaxReceipts /\ receipts' = receipts + 1

ReceiveSubagentStop(stop) ==
  /\ Received
  /\ StoresOnce(stop)
  /\ IF Speaks(stop) THEN Moves(stop.agent, "completed")
     ELSE UNCHANGED <<agents, sessions>>
  /\ acked' = acked \cup {stop}
  /\ UNCHANGED <<now, disk, expired>>

(* The process dies, or the apply throws, after the append committed.      *)
ReceiveSubagentStopCut(stop) ==
  /\ Received
  /\ StoresOnce(stop)
  /\ UNCHANGED <<now, disk, agents, sessions, history>>

(* Stop names its session, whose id is the main agent's.                   *)
ReceiveStop(m) ==
  /\ Received
  /\ status[m] # "none"
  /\ Moves(m, "waiting")
  /\ UNCHANGED <<now, disk, events, history>>
----------------------------------------------------------------------------
StaleWorking ==                           \* a mutant: waiting is not a candidate
  {a \in Agents : status[a] = "working" /\ now - lastSeen[a] >= Threshold}
(* The sweep that ends every tick: one transaction per stale candidate.    *)
Stale ==
  {a \in Agents : status[a] \in {"working", "waiting"} /\ now - lastSeen[a] >= Threshold}

Marks(marked) ==
  /\ status' = [a \in Agents |-> IF a \in marked THEN "unknown" ELSE status[a]]
  /\ sessionStatus' =
       [m \in Mains |-> IF m \in marked THEN "unknown" ELSE sessionStatus[m]]
  /\ UNCHANGED <<now, disk, lastSeen, lastActivity, events, receipts, history>>

Sweep == Stale # {} /\ Marks(Stale)
SweepCut == \E marked \in SUBSET Stale : Marks(marked)

(* Retention drops a row of `events`; `events_raw` is append-only.         *)
Prune(stop) ==
  /\ stop \in projected
  /\ projected' = projected \ {stop}
  /\ expired' = IF status[stop.agent] = "none" THEN expired \cup {stop} ELSE expired
  /\ UNCHANGED <<now, disk, agents, sessions, stored, receipts, acked>>
----------------------------------------------------------------------------
Init ==
  /\ now = 1
  /\ wrote = [a \in Agents |-> 0] /\ killed = {}
  /\ status = [a \in Agents |-> "none"] /\ lastSeen = [a \in Agents |-> 0]
  /\ sessionStatus = [m \in Mains |-> "none"] /\ lastActivity = [m \in Mains |-> 0]
  /\ stored = {} /\ projected = {} /\ receipts = 0
  /\ acked = {} /\ expired = {}

Hooks ==
  \/ \E stop \in SubagentStops : ReceiveSubagentStop(stop) \/ ReceiveSubagentStopCut(stop)
  \/ \E m \in Mains : ReceiveStop(m)

Next ==
  \/ \E a \in Agents : Write(a) \/ Kill(a)
  \/ ClockTicks
  \/ \E m \in Mains : Ingest(m)
  \/ Hooks
  \/ Sweep \/ SweepCut
  \/ \E stop \in SubagentStops : Prune(stop)

Spec == Init /\ [][Next]_vars
(* Time passes, and the sweep ends every tick of the poll timer.           *)
FairSpec == Spec /\ WF_vars(ClockTicks) /\ WF_vars(Sweep)
----------------------------------------------------------------------------
TypeOK ==
  /\ now \in 1..MaxClock
  /\ wrote \in [Agents -> 0..MaxClock] /\ killed \in SUBSET Agents
  /\ status \in [Agents -> Status] /\ lastSeen \in [Agents -> 0..MaxClock]
  /\ sessionStatus \in [Mains -> Status] /\ lastActivity \in [Mains -> 0..MaxClock]
  /\ stored \in SUBSET SubagentStops /\ projected \in SUBSET stored
  /\ receipts \in 0..MaxReceipts
  /\ acked \in SUBSET stored /\ expired \in SUBSET stored

(* liveness-status.ts:222-230: a SubagentStop the receiver answered is     *)
(* never lost, whichever came first, the hook or the transcript: once the  *)
(* agent has a row, the row is final.  The known limit (l.248-257) is a    *)
(* stop that retention dropped before the agent was first ingested.        *)
StopHeard ==
  \A stop \in acked \ expired :
    /\ stop.agent # stop.session /\ SessionOf[stop.agent] = stop.session
    /\ status[stop.agent] # "none"
    => status[stop.agent] \in {"completed", "error"}

(* liveness-status.ts:105-111 and 138-146: 'completed' is an ending some   *)
(* hook of the agent's own session observed, on the live path and on the   *)
(* replayed one; a main agent, and a session, never end.                   *)
CompletedObserved ==
  /\ \A a \in Agents : status[a] = "completed" =>
       a \notin Mains /\ [session |-> SessionOf[a], agent |-> a] \in stored
  /\ \A m \in Mains : sessionStatus[m] \notin {"completed", "error"}

(* watchdog.ts:1-6 and db/agents.ts:113-115: 'unknown' yields to evidence. *)
(* No agent shown as silent has activity inside the window on record, in   *)
(* whatever order passes, hooks and cut sweeps reached the row.            *)
UnknownMeansSilent ==
  \A a \in Agents : status[a] = "unknown" => now - lastSeen[a] >= Threshold

(* db/sessions.ts:82-92: the session's anchor and its agents' anchors come *)
(* from different upserts and never part: a partial or a shorter read      *)
(* moves neither back, and the session's is exactly the latest of them.    *)
AnchorsAgree ==
  \A m \in Mains :
    /\ \A a \in Members(m) : lastSeen[a] <= lastActivity[m]
    /\ lastActivity[m] > 0 => \E a \in Members(m) : lastSeen[a] = lastActivity[m]

(* open-decisions.md:120-121: observed terminals are sticky.  No flush,    *)
(* sweep or Stop moves one; only a hook's own observation of the ending    *)
(* replaces an error the transcript stated.                                *)
EndingsStick ==
  [][\A a \in Agents :
       /\ status[a] = "completed" => status'[a] = "completed"
       /\ status[a] = "error" => status'[a] \in {"error", "completed"}]_status

(* watchdog.ts:8-13: with no further evidence every agent is resolved: no  *)
(* row stays working or waiting for good.                                  *)
HonestAtLast ==
  \A a \in Agents : <>[](status[a] \notin {"working", "waiting"})
=============================================================================
