----------------------------- MODULE AlertOutbox -----------------------------
(***************************************************************************)
(* Alerting: the config sync and the timer (alerts/index.ts), the rules    *)
(* engine (alerts/rules-engine.ts), the store (db/alerts.ts), the delivery *)
(* pass (alerts/dispatcher.ts) and the Telegram sink it awaits             *)
(* (alerts/telegram-sink.ts).                                              *)
(*                                                                         *)
(* A tick evaluates the rules and, unless a pass is in flight, starts one; *)
(* the pass awaits one send after another, and ticks, the projection, the  *)
(* clock and a crash come in between.  The answer to a send may be lost    *)
(* after Telegram took the message, and so may the process.                *)
(*                                                                         *)
(* Abstractions.  An alert is a rule and a subject, whose dedupe key it    *)
(* is; its event and its delivery are written by one transaction and are   *)
(* one row here.  Instants are compared with the clock only: a row keeps   *)
(* `wait`, the ticks until it is due, and `age`, the ticks since it was    *)
(* delivered; `fresh` says that the subject was last active at or after    *)
(* the rule's armed_at.  A rule missing from the file and one with         *)
(* `enabled: false` are the same row of alert_rules.                       *)
(***************************************************************************)
EXTENDS Naturals, FiniteSets

CONSTANTS
  Rules,          \* rule ids
  Subjects,       \* sessions or agents
  Targets,        \* target ids
  None,           \* no target, no file, nothing being sent
  Files,          \* alerts files: the rules in force and the target of each
  Boots,          \* what DASHBOARD_ALERTS_CONFIG may name at a boot
  MaxAttempts,    \* MAX_DELIVERY_ATTEMPTS
  RetryDelay,     \* retryDelayMs, in clock ticks: RETRY_BASE_MS, doubled at each try
  RetryAfter,     \* the longest retry_after honoured, in clock ticks
  Window,         \* THROTTLE_WINDOW_MS, in clock ticks
  MaxPerMinute,   \* a target's maxPerMinute
  BatchSize,      \* DISPATCH_BATCH_SIZE
  EventsPerPass,  \* MAX_EVENTS_PER_RULE_PER_PASS
  MaxDisturb      \* bound: changes of the projection, boots and crashes

Alerts == Rules \X Subjects

ASSUME OutboxAssumption ==
  /\ IsFiniteSet(Rules) /\ IsFiniteSet(Subjects)
  /\ None \notin Targets /\ None \notin Alerts
  /\ \A f \in Files :
       /\ f.serves \subseteq Targets
       /\ f.target \in [Rules -> f.serves \cup {None}]
  /\ None \notin Files /\ Boots \subseteq Files \cup {None} /\ Boots # {}
  /\ MaxAttempts \in Nat \ {0} /\ RetryAfter \in Nat
  /\ RetryDelay \in [1..MaxAttempts -> Nat \ {0}]
  /\ \A n \in 1..(MaxAttempts - 1) : RetryDelay[n + 1] = 2 * RetryDelay[n]
  /\ Window \in Nat \ {0} /\ MaxPerMinute \in Nat \ {0}
  /\ BatchSize \in Nat \ {0} /\ EventsPerPass \in Nat \ {0} /\ MaxDisturb \in Nat

VARIABLES
  \* The projection, as the rules see it
  met,           \* alerts whose condition holds
  fresh,         \* alerts whose subject was active since the rule was armed
  \* Tables alert_rules and webhook_targets
  ruleTarget,    \* the target of an enabled rule, None for a disabled one
  targetOn,      \* enabled targets
  \* Tables alert_events and webhook_deliveries
  status,        \* "none" (no row), "pending", "sent" or "failed"
  targetOf,      \* the target of the row
  attempts, wait, age,
  \* The process
  file,          \* the alerts file of this run, None when alerting is off
  batch,         \* rows the pass in flight still has to take
  sending,       \* the row whose send is awaited, or None
  disturbances,
  \* History, read by the properties only
  seen,          \* messages Telegram took for an alert
  ambiguous,     \* those among them whose answer never reached the process
  stirred        \* alerts whose subject was active since the rule came into force

projection == <<met, fresh>>
config == <<ruleTarget, targetOn>>
rows == <<status, targetOf, attempts, wait, age>>
flight == <<batch, sending>>
history == <<seen, ambiguous, stirred>>
vars == <<projection, config, rows, file, flight, disturbances, history>>

Least(a, b) == IF a < b THEN a ELSE b
Greatest(a, b) == IF a < b THEN b ELSE a
Disturb == disturbances < MaxDisturb /\ disturbances' = disturbances + 1
----------------------------------------------------------------------------
(* The rules engine: evaluateAlertRules over listActiveRules.              *)
Active == {r \in Rules : ruleTarget[r] \in targetOn}

Unreported(r) ==
  {k \in {r} \X Subjects : k \in met /\ k \in fresh /\ status[k] = "none"}

(* What one evaluation records: up to the cap, for every active rule.      *)
Evaluations ==
  {fired \in SUBSET Alerts :
     \A r \in Rules :
       LET mine == fired \cap ({r} \X Subjects) IN
       IF r \in Active
       THEN /\ mine \subseteq Unreported(r)
            /\ Cardinality(mine) = Least(EventsPerPass, Cardinality(Unreported(r)))
       ELSE mine = {}}

(* recordAlertEvent: the event and one pending delivery, due at once.      *)
Records(fired) ==
  /\ status' = [k \in Alerts |-> IF k \in fired THEN "pending" ELSE status[k]]
  /\ targetOf' = [k \in Alerts |-> IF k \in fired THEN ruleTarget[k[1]] ELSE targetOf[k]]
  /\ UNCHANGED <<attempts, wait, age>>
----------------------------------------------------------------------------
(* The start of a pass: budgets, then the due rows.                        *)
CountSentSince(t) ==
  Cardinality({k \in Alerts : status[k] = "sent" /\ targetOf[k] = t /\ age[k] <= Window})
BudgetPerPass(t) == MaxPerMinute                           \* a mutant
Budget(t) == IF CountSentSince(t) >= MaxPerMinute THEN 0 ELSE MaxPerMinute - CountSentSince(t)

Due == {k \in Alerts : status[k] = "pending" /\ wait[k] = 0}
To(some, t) == {k \in some : targetOf[k] = t}

(* listDueDeliveries: a target with a sink is capped at its budget, then   *)
(* the batch is; the order of the rows decides which ones are left out.    *)
Batches ==
  {taken \in SUBSET Due :
     /\ Cardinality(taken) <= BatchSize
     /\ \A t \in file.serves : Cardinality(To(taken, t)) <= Budget(t)
     /\ \A k \in Due \ taken :
          \/ Cardinality(taken) = BatchSize
          \/ /\ targetOf[k] \in file.serves
             /\ Cardinality(To(taken, targetOf[k])) = Budget(targetOf[k])}

InFlight == batch # {} \/ sending # None

(* The timer: evaluate, then runOnce, which returns at once in flight.     *)
Tick ==
  /\ file # None
  /\ \E fired \in Evaluations : Records(fired)
  /\ UNCHANGED <<projection, config, file, sending, disturbances, history>>
  /\ IF InFlight THEN UNCHANGED batch
     ELSE \E taken \in Batches' : batch' = batch \cup taken

(* A transaction of the evaluation throws: the tick ends, without a pass.  *)
TickFails ==
  /\ file # None
  /\ Disturb
  /\ \E fired \in Evaluations : \E kept \in SUBSET fired : Records(kept)
  /\ UNCHANGED <<projection, config, file, flight, history>>
----------------------------------------------------------------------------
(* The pass, one row at a time.                                            *)

(* markDeliveryFailed and its siblings: WHERE status = 'pending'.          *)
MarkFailed(k, tried) ==
  /\ status' = [status EXCEPT ![k] = IF @ = "pending" THEN "failed" ELSE @]
  /\ attempts' = [attempts EXCEPT ![k] = IF status[k] = "pending" THEN tried ELSE @]
  /\ UNCHANGED <<targetOf, wait, age>>

MarkSent(k, tried) ==
  /\ status' = [status EXCEPT ![k] = IF @ = "pending" THEN "sent" ELSE @]
  /\ attempts' = [attempts EXCEPT ![k] = IF status[k] = "pending" THEN tried ELSE @]
  /\ age' = [age EXCEPT ![k] = IF status[k] = "pending" THEN 0 ELSE @]
  /\ UNCHANGED <<targetOf, wait>>

MarkRetry(k, tried, delay) ==
  /\ attempts' = [attempts EXCEPT ![k] = IF status[k] = "pending" THEN tried ELSE @]
  /\ wait' = [wait EXCEPT ![k] = IF status[k] = "pending" THEN delay ELSE @]
  /\ UNCHANGED <<status, targetOf, age>>

GivesUp(tried) == tried >= MaxAttempts

(* No sink for the target: it left the file after the event fired.         *)
TakesSinkless(k) ==
  /\ sending = None /\ k \in batch /\ targetOf[k] \notin file.serves
  /\ batch' = batch \ {k}
  /\ MarkFailed(k, attempts[k])
  /\ UNCHANGED <<projection, config, file, sending, disturbances, history>>

Sends(k) ==
  /\ sending = None /\ k \in batch /\ targetOf[k] \in file.serves
  /\ batch' = batch \ {k}
  /\ sending' = k
  /\ UNCHANGED <<projection, config, rows, file, disturbances, history>>

(* Telegram took the message; its answer may not make it back.             *)
Takes(k) == seen' = [seen EXCEPT ![k] = @ + 1]

(* The request in the air when nobody waits for it may still be taken.     *)
Unanswered == sending # None /\ Takes(sending)

AnsweredSent(k) ==
  /\ sending = k /\ sending' = None
  /\ Takes(k)
  /\ MarkSent(k, attempts[k] + 1)
  /\ UNCHANGED <<projection, config, file, batch, disturbances, ambiguous, stirred>>

(* 4xx other than 429, or a token that no longer resolves: terminal.       *)
AnsweredRefused(k) ==
  /\ sending = k /\ sending' = None
  /\ MarkFailed(k, attempts[k] + 1)
  /\ UNCHANGED <<projection, config, file, batch, disturbances, history>>

(* 429, 5xx, a timeout or a network error.                                 *)
AnsweredRetryable(k) ==
  /\ sending = k /\ sending' = None
  /\ \/ UNCHANGED <<seen, ambiguous>>
     \/ Takes(k) /\ ambiguous' = [ambiguous EXCEPT ![k] = @ + 1]
  /\ LET tried == attempts[k] + 1 IN
     IF GivesUp(tried) THEN MarkFailed(k, tried)
     ELSE \E after \in {0, RetryAfter} :
            MarkRetry(k, tried, Greatest(RetryDelay[tried], after))
  /\ UNCHANGED <<projection, config, file, batch, disturbances, stirred>>

(* The write after the send throws: runOnce gives up the rest of the pass. *)
PassThrows ==
  /\ InFlight
  /\ Disturb
  /\ \/ UNCHANGED <<seen, ambiguous>>
     \/ Unanswered /\ ambiguous' = [ambiguous EXCEPT ![sending] = @ + 1]
  /\ batch' = {} /\ sending' = None
  /\ UNCHANGED <<projection, config, rows, file, stirred>>

Pass ==
  \E k \in Alerts :
    \/ TakesSinkless(k) \/ Sends(k)
    \/ AnsweredSent(k) \/ AnsweredRefused(k) \/ AnsweredRetryable(k)
----------------------------------------------------------------------------
TimePasses ==
  /\ wait' = [k \in Alerts |-> IF wait[k] = 0 THEN 0 ELSE wait[k] - 1]
  /\ age' = [k \in Alerts |-> IF status[k] = "sent" THEN Least(age[k] + 1, Window + 1)
                              ELSE age[k]]
  /\ UNCHANGED <<projection, config, status, targetOf, attempts, file, flight,
                 disturbances, history>>

(* The projection: a subject is active, or a condition comes or goes.      *)
Stirs(s) ==
  /\ Disturb
  /\ fresh' = fresh \cup (Rules \X {s})
  /\ stirred' = stirred \cup (Rules \X {s})
  /\ UNCHANGED <<met, config, rows, file, flight, seen, ambiguous>>

Turns(k) ==
  /\ Disturb
  /\ met' = IF k \in met THEN met \ {k} ELSE met \cup {k}
  /\ UNCHANGED <<fresh, config, rows, file, flight, history>>

RearmedNever(f) == {}                                      \* a mutant
RearmedByEdits(f) == {r \in Rules : f.target[r] # None}    \* a mutant
(* syncAlertsConfig: a rule is armed when it goes from disabled to         *)
(* enabled, and an edit of an enabled rule keeps its armed_at.             *)
Rearmed(f) == {r \in Rules : ruleTarget[r] = None /\ f.target[r] # None}
Syncs(f) ==
  /\ ruleTarget' = f.target
  /\ targetOn' = f.serves
  /\ fresh' = fresh \ (Rearmed(f) \X Subjects)

InForce(f, r) == f # None /\ f.target[r] # None

(* start: with no file named, nothing of alerting is built, nor synced.    *)
BootsWith(f) ==
  /\ file' = f
  /\ IF f = None THEN UNCHANGED <<config, fresh>> ELSE Syncs(f)
  /\ stirred' =
       stirred \ ({r \in Rules : InForce(f, r) /\ ~InForce(file, r)} \X Subjects)
  /\ batch' = {} /\ sending' = None
  /\ UNCHANGED <<met, rows>>

SettledOrNot == TRUE                                       \* a mutant

(* close awaits stop, which awaits the ticks in flight.                    *)
Settled == ~InFlight
Shutdown ==
  /\ Settled
  /\ Disturb
  /\ Unanswered \/ UNCHANGED seen
  /\ \E f \in Boots : BootsWith(f)
  /\ UNCHANGED ambiguous

Crash ==
  /\ Disturb
  /\ \/ UNCHANGED <<seen, ambiguous>>
     \/ Unanswered /\ ambiguous' = [ambiguous EXCEPT ![sending] = @ + 1]
  /\ \E f \in Boots : BootsWith(f)
----------------------------------------------------------------------------
Init ==
  /\ file \in Boots \ {None}
  /\ ruleTarget = file.target /\ targetOn = file.serves
  /\ met \in SUBSET Alerts /\ fresh = {} /\ stirred = {}
  /\ status = [k \in Alerts |-> "none"] /\ targetOf = [k \in Alerts |-> None]
  /\ attempts = [k \in Alerts |-> 0]
  /\ wait = [k \in Alerts |-> 0] /\ age = [k \in Alerts |-> 0]
  /\ batch = {} /\ sending = None /\ disturbances = 0
  /\ seen = [k \in Alerts |-> 0] /\ ambiguous = [k \in Alerts |-> 0]

Projection == \E s \in Subjects : Stirs(s) \/ \E r \in Rules : Turns(<<r, s>>)

Next == Tick \/ TickFails \/ Pass \/ PassThrows \/ TimePasses \/ Projection \/ Shutdown \/ Crash

Spec == Init /\ [][Next]_vars
(* The interval timer fires, a send is answered or times out, time passes. *)
FairSpec == Spec /\ WF_vars(Tick) /\ WF_vars(Pass) /\ WF_vars(TimePasses)
----------------------------------------------------------------------------
Statuses == {"none", "pending", "sent", "failed"}
TypeOK ==
  /\ met \in SUBSET Alerts /\ fresh \in SUBSET Alerts /\ stirred \in SUBSET Alerts
  /\ ruleTarget \in [Rules -> Targets \cup {None}] /\ targetOn \in SUBSET Targets
  /\ status \in [Alerts -> Statuses] /\ targetOf \in [Alerts -> Targets \cup {None}]
  /\ attempts \in [Alerts -> 0..MaxAttempts] /\ wait \in [Alerts -> Nat]
  /\ age \in [Alerts -> 0..(Window + 1)]
  /\ file \in Files \cup {None}
  /\ batch \in SUBSET Alerts /\ sending \in Alerts \cup {None}
  /\ disturbances \in 0..MaxDisturb
  /\ seen \in [Alerts -> Nat] /\ ambiguous \in [Alerts -> Nat]

(* rules-engine.ts:13-17 and alerts/index.ts:51-56: exactly once per       *)
(* subject.  Telegram took one message for an alert marked sent and none   *)
(* for any other, apart from those whose answer was lost on the way: no    *)
(* overlap of ticks, pass, edit of the file or shutdown repeats one.       *)
ToldOnce ==
  \A k \in Alerts : seen[k] = ambiguous[k] + (IF status[k] = "sent" THEN 1 ELSE 0)

(* dispatcher.ts:16-21: a target is sent at most maxPerMinute messages in  *)
(* any trailing window, also when the window spans several passes, a slow  *)
(* send or a restart.                                                      *)
WindowKept ==
  \A t \in Targets : CountSentSince(t) <= MaxPerMinute

(* dispatcher.ts:96-134: the row whose send is awaited, and those the      *)
(* pass will take, are still the pending rows it selected, whatever the    *)
(* ticks that fired in between recorded.                                   *)
PassHoldsPending ==
  /\ \A k \in batch : status[k] = "pending" /\ wait[k] = 0 /\ k # sending
  /\ sending # None => status[sending] = "pending"
  /\ InFlight => file # None

(* rules-engine.ts:17-22: an alert is recorded only for a subject that was *)
(* active since its rule came into force, however often the file is edited *)
(* and the process boots.  It is so while every boot names an alerts file. *)
(* A boot with none (Boots may hold None) leaves the rules enabled with    *)
(* their old armed_at, so that under the next file what was active only in *)
(* between is recorded.  AlertOutboxProofs names the condition.            *)
NoHistoryFlood ==
  [][\A k \in Alerts : status[k] = "none" /\ status'[k] # "none" => k \in stirred]_status

(* dispatcher.ts:7-11 and 24-26: every recorded alert is sent or given up; *)
(* throttling, retries, a target that left the file and a full batch only  *)
(* put it off.                                                             *)
Settles == \A k \in Alerts : status[k] = "pending" ~> status[k] \in {"sent", "failed"}

(* rules-engine.ts:24-26: a condition that goes on holding, for a subject  *)
(* active since its rule came into force, is recorded: neither the cap per *)
(* pass nor an edit or a reboot skips it.                                  *)
Reported ==
  \A r \in Rules, s \in Subjects :
    <>[](InForce(file, r) /\ <<r, s>> \in met \cap stirred) => <>(status[<<r, s>>] # "none")

\* The two together: what holds is recorded, and what is recorded is settled.
AllTold == Settles /\ Reported
=============================================================================
