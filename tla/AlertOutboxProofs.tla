-------------------------- MODULE AlertOutboxProofs --------------------------
(***************************************************************************)
(* Proofs about AlertOutbox, for every set of rules, subjects and files    *)
(* and every bound.  ToldOnce needs the pass to hold only pending rows     *)
(* (PassHoldsPending), or a late answer would count for a row that is      *)
(* settled already; TypeOK needs Tries, for attempts stop at MaxAttempts   *)
(* because a row that reached it is pending no more.                       *)
(***************************************************************************)
EXTENDS MCAlertOutbox, FiniteSetTheorems, TLAPS

Tries == \A k \in Alerts : status[k] \in {"none", "pending"} => attempts[k] < MaxAttempts

IInv == TypeOK /\ ToldOnce /\ PassHoldsPending /\ Tries

LEMMA NoneIsNoAlert == None \notin Alerts /\ None \notin Targets /\ None \notin Files
  BY OutboxAssumption

LEMMA InitIInv == Init => IInv
  <1> SUFFICES ASSUME Init PROVE IInv
    OBVIOUS
  <1>1. file \in Files
    BY OutboxAssumption DEF Init
  <1>2. file.serves \subseteq Targets /\ file.target \in [Rules -> Targets \cup {None}]
    BY <1>1, OutboxAssumption
  <1>3. 0 \in 0..MaxAttempts /\ 0 \in 0..(Window + 1) /\ 0 \in 0..MaxDisturb /\ 0 < MaxAttempts
    BY OutboxAssumption
  <1>4. TypeOK
    BY <1>1, <1>2, <1>3 DEF Init, TypeOK, Statuses
  <1>5. ToldOnce
    BY DEF Init, ToldOnce
  <1>6. PassHoldsPending /\ Tries
    BY <1>3 DEF Init, PassHoldsPending, Tries, InFlight
  <1> QED
    BY <1>4, <1>5, <1>6 DEF IInv

(* What an evaluation may record: alerts not reported yet, of rules in     *)
(* force, on subjects active since.                                        *)
LEMMA EvaluationsFacts ==
  ASSUME NEW fired \in Evaluations, NEW k \in fired
  PROVE  /\ k \in Alerts /\ status[k] = "none"
         /\ k \in fresh /\ ruleTarget[k[1]] \in targetOn
  <1>1. k \in Alerts /\ k[1] \in Rules /\ k \in {k[1]} \X Subjects
    BY DEF Evaluations, Alerts
  <1>2. k \in fired \cap ({k[1]} \X Subjects)
    BY <1>1
  <1>3. k[1] \in Active /\ fired \cap ({k[1]} \X Subjects) \subseteq Unreported(k[1])
    BY <1>1, <1>2 DEF Evaluations
  <1> QED
    BY <1>1, <1>2, <1>3 DEF Unreported, Active

LEMMA RecordsIInv ==
  ASSUME IInv, NEW kept \in SUBSET Alerts, Records(kept),
         \A k \in kept : status[k] = "none",
         UNCHANGED <<projection, config, file, sending, history>>,
         disturbances' \in 0..MaxDisturb
  PROVE  /\ status' \in [Alerts -> Statuses] /\ wait' = wait
         /\ \A k \in Alerts : status[k] # "none" => status'[k] = status[k]
         /\ ToldOnce' /\ Tries'
         /\ (batch' \in SUBSET Alerts => TypeOK')
  <1>1. /\ status' = [k \in Alerts |-> IF k \in kept THEN "pending" ELSE status[k]]
        /\ targetOf' = [k \in Alerts |-> IF k \in kept THEN ruleTarget[k[1]] ELSE targetOf[k]]
        /\ UNCHANGED <<attempts, wait, age, file, sending, seen, ambiguous, stirred,
                       met, fresh, ruleTarget, targetOn>>
    BY DEF Records, projection, config, history
  <1>2. status' \in [Alerts -> Statuses]
    BY <1>1 DEF IInv, TypeOK, Statuses
  <1>3. \A k \in Alerts : status[k] # "none" => status'[k] = status[k]
    BY <1>1
  <1>4. ToldOnce'
    <2> SUFFICES ASSUME NEW k \in Alerts
                 PROVE  seen[k] = ambiguous[k] + (IF status'[k] = "sent" THEN 1 ELSE 0)
      BY <1>1 DEF ToldOnce
    <2>1. status'[k] = "sent" <=> status[k] = "sent"
      BY <1>1
    <2> QED
      BY <2>1 DEF IInv, ToldOnce
  <1>5. Tries'
    BY <1>1 DEF IInv, Tries
  <1>6. targetOf' \in [Alerts -> Targets \cup {None}]
    BY <1>1 DEF IInv, TypeOK, Alerts
  <1>7. batch' \in SUBSET Alerts => TypeOK'
    BY <1>1, <1>2, <1>6 DEF IInv, TypeOK
  <1> QED
    BY <1>1, <1>2, <1>3, <1>4, <1>5, <1>7

LEMMA TickIInv ==
  ASSUME IInv, Tick
  PROVE  IInv'
  <1>1. PICK fired \in Evaluations : Records(fired)
    BY DEF Tick
  <1>2. fired \in SUBSET Alerts /\ \A k \in fired : status[k] = "none"
    BY EvaluationsFacts DEF Evaluations
  <1>3. /\ UNCHANGED <<projection, config, file, sending, history>>
        /\ disturbances' \in 0..MaxDisturb /\ file # None
    BY DEF Tick, IInv, TypeOK
  <1>4. /\ wait' = wait
        /\ \A k \in Alerts : status[k] # "none" => status'[k] = status[k]
        /\ ToldOnce' /\ Tries'
        /\ (batch' \in SUBSET Alerts => TypeOK')
    BY <1>1, <1>2, <1>3, RecordsIInv
  <1>5. \/ batch' = batch
        \/ /\ sending = None
           /\ batch' \in SUBSET Alerts
           /\ \A k \in batch' : status'[k] = "pending" /\ wait'[k] = 0
    <2>1. CASE InFlight
      BY <2>1 DEF Tick
    <2>2. CASE ~InFlight
      <3>1. PICK taken \in Batches' : batch' = batch \cup taken
        BY <2>2 DEF Tick
      <3>2. taken \in SUBSET Alerts /\ \A k \in taken : status'[k] = "pending" /\ wait'[k] = 0
        BY <3>1 DEF Batches, Due
      <3> QED
        BY <2>2, <3>1, <3>2 DEF InFlight
    <2> QED
      BY <2>1, <2>2
  <1>6. TypeOK'
    BY <1>4, <1>5 DEF IInv, TypeOK
  <1>7. PassHoldsPending'
    <2>1. sending' = sending /\ file' = file
      BY <1>3
    <2>2. sending # None => sending \in Alerts /\ status'[sending] = "pending"
      BY <1>4 DEF IInv, TypeOK, PassHoldsPending
    <2>3. \A k \in batch' : status'[k] = "pending" /\ wait'[k] = 0 /\ k # sending
      <3>1. CASE batch' = batch
        BY <3>1, <1>4 DEF IInv, TypeOK, PassHoldsPending
      <3>2. CASE sending = None /\ batch' \in SUBSET Alerts
                 /\ \A k \in batch' : status'[k] = "pending" /\ wait'[k] = 0
        BY <3>2, NoneIsNoAlert
      <3> QED
        BY <1>5, <3>1, <3>2
    <2> QED
      BY <1>3, <2>1, <2>2, <2>3 DEF PassHoldsPending, InFlight
  <1> QED
    BY <1>4, <1>6, <1>7 DEF IInv

LEMMA TickFailsIInv ==
  ASSUME IInv, TickFails
  PROVE  IInv'
  <1>1. PICK fired \in Evaluations : \E kept \in SUBSET fired : Records(kept)
    BY DEF TickFails
  <1>2. PICK kept \in SUBSET fired : Records(kept)
    BY <1>1
  <1>3. kept \in SUBSET Alerts /\ \A k \in kept : status[k] = "none"
    BY <1>2, EvaluationsFacts DEF Evaluations
  <1>4. /\ UNCHANGED <<projection, config, file, sending, history>> /\ batch' = batch
        /\ disturbances' \in 0..MaxDisturb
    BY OutboxAssumption DEF TickFails, flight, Disturb, IInv, TypeOK
  <1>5. /\ wait' = wait
        /\ \A k \in Alerts : status[k] # "none" => status'[k] = status[k]
        /\ ToldOnce' /\ Tries'
        /\ (batch' \in SUBSET Alerts => TypeOK')
    BY <1>2, <1>3, <1>4, RecordsIInv
  <1>6. TypeOK'
    BY <1>4, <1>5 DEF IInv, TypeOK
  <1>7. PassHoldsPending'
    BY <1>4, <1>5 DEF IInv, TypeOK, PassHoldsPending, InFlight
  <1> QED
    BY <1>5, <1>6, <1>7 DEF IInv

(* A row is settled: it was pending, and it is not among those left.       *)
LEMMA TakesSinklessIInv ==
  ASSUME IInv, NEW k \in Alerts, TakesSinkless(k)
  PROVE  IInv'
  <1>1. /\ status[k] = "pending" /\ k \in batch /\ sending = None
        /\ batch' = batch \ {k}
        /\ status' = [status EXCEPT ![k] = "failed"]
        /\ attempts' = [attempts EXCEPT ![k] = attempts[k]]
        /\ UNCHANGED <<projection, config, targetOf, wait, age, file, sending,
                       disturbances, history>>
    BY DEF TakesSinkless, MarkFailed, IInv, PassHoldsPending, TypeOK
  <1>2. TypeOK'
    BY <1>1 DEF IInv, TypeOK, Statuses, projection, config, history
  <1>3. ToldOnce'
    BY <1>1 DEF IInv, TypeOK, ToldOnce, history
  <1>4. PassHoldsPending' /\ Tries'
    BY <1>1 DEF IInv, TypeOK, PassHoldsPending, Tries, InFlight
  <1> QED
    BY <1>2, <1>3, <1>4 DEF IInv

LEMMA SendsIInv ==
  ASSUME IInv, NEW k \in Alerts, Sends(k)
  PROVE  IInv'
  <1>1. /\ k \in batch /\ sending = None /\ sending' = k /\ batch' = batch \ {k}
        /\ UNCHANGED <<projection, config, status, targetOf, attempts, wait, age, file,
                       disturbances, seen, ambiguous, stirred>>
    BY DEF Sends, rows, history
  <1>2. TypeOK'
    BY <1>1 DEF IInv, TypeOK, projection, config
  <1>3. ToldOnce' /\ PassHoldsPending' /\ Tries'
    BY <1>1 DEF IInv, TypeOK, ToldOnce, PassHoldsPending, Tries, InFlight
  <1> QED
    BY <1>2, <1>3 DEF IInv

LEMMA AnsweredSentIInv ==
  ASSUME IInv, NEW k \in Alerts, AnsweredSent(k)
  PROVE  IInv'
  <1>1. /\ sending = k /\ sending' = None /\ status[k] = "pending" /\ k \notin batch
        /\ status' = [status EXCEPT ![k] = "sent"]
        /\ attempts' = [attempts EXCEPT ![k] = attempts[k] + 1]
        /\ age' = [age EXCEPT ![k] = 0]
        /\ seen' = [seen EXCEPT ![k] = @ + 1]
        /\ UNCHANGED <<projection, config, targetOf, wait, file, batch, disturbances,
                       ambiguous, stirred>>
    BY NoneIsNoAlert
       DEF AnsweredSent, MarkSent, Takes, IInv, PassHoldsPending, TypeOK
  <1>2. attempts[k] < MaxAttempts /\ attempts[k] \in 0..MaxAttempts
    BY <1>1 DEF IInv, Tries, TypeOK
  <1>3. TypeOK'
    <2>1. attempts[k] + 1 \in 0..MaxAttempts /\ 0 \in 0..(Window + 1)
      BY <1>2, OutboxAssumption
    <2> QED
      BY <1>1, <2>1 DEF IInv, TypeOK, Statuses, projection, config
  <1>4. ToldOnce'
    BY <1>1 DEF IInv, TypeOK, ToldOnce
  <1>5. PassHoldsPending' /\ Tries'
    BY <1>1, NoneIsNoAlert DEF IInv, TypeOK, PassHoldsPending, Tries, InFlight
  <1> QED
    BY <1>3, <1>4, <1>5 DEF IInv

LEMMA AnsweredRefusedIInv ==
  ASSUME IInv, NEW k \in Alerts, AnsweredRefused(k)
  PROVE  IInv'
  <1>1. /\ sending = k /\ sending' = None /\ status[k] = "pending" /\ k \notin batch
        /\ status' = [status EXCEPT ![k] = "failed"]
        /\ attempts' = [attempts EXCEPT ![k] = attempts[k] + 1]
        /\ UNCHANGED <<projection, config, targetOf, wait, age, file, batch, disturbances,
                       history>>
    BY NoneIsNoAlert DEF AnsweredRefused, MarkFailed, IInv, PassHoldsPending, TypeOK
  <1>2. attempts[k] + 1 \in 0..MaxAttempts
    BY <1>1, OutboxAssumption DEF IInv, Tries, TypeOK
  <1>3. TypeOK'
    BY <1>1, <1>2 DEF IInv, TypeOK, Statuses, projection, config, history
  <1>4. ToldOnce'
    BY <1>1 DEF IInv, TypeOK, ToldOnce, history
  <1>5. PassHoldsPending' /\ Tries'
    BY <1>1, NoneIsNoAlert DEF IInv, TypeOK, PassHoldsPending, Tries, InFlight
  <1> QED
    BY <1>3, <1>4, <1>5 DEF IInv

LEMMA AnsweredRetryableIInv ==
  ASSUME IInv, NEW k \in Alerts, AnsweredRetryable(k)
  PROVE  IInv'
  <1> DEFINE tried == attempts[k] + 1
  <1>1. /\ sending = k /\ sending' = None /\ status[k] = "pending" /\ k \notin batch
        /\ UNCHANGED <<projection, config, file, batch, disturbances, stirred>>
    BY NoneIsNoAlert DEF AnsweredRetryable, IInv, PassHoldsPending, TypeOK
  <1>2. tried \in 1..MaxAttempts
    BY <1>1, OutboxAssumption DEF IInv, Tries, TypeOK
  <1>3. \E d \in Nat :
          \/ /\ tried >= MaxAttempts
             /\ status' = [status EXCEPT ![k] = "failed"] /\ wait' = wait
          \/ /\ tried < MaxAttempts
             /\ status' = status /\ wait' = [wait EXCEPT ![k] = d]
    <2>1. CASE GivesUp(tried)
      BY <1>1, <2>1 DEF AnsweredRetryable, MarkFailed, GivesUp
    <2>2. CASE ~GivesUp(tried)
      <3>1. PICK after \in {0, RetryAfter} :
              MarkRetry(k, tried, Greatest(RetryDelay[tried], after))
        BY <2>2 DEF AnsweredRetryable
      <3>2. Greatest(RetryDelay[tried], after) \in Nat
        BY <1>2, OutboxAssumption DEF Greatest
      <3>3. tried < MaxAttempts
        BY <1>2, <2>2, OutboxAssumption DEF GivesUp
      <3> QED
        BY <1>1, <3>1, <3>2, <3>3 DEF MarkRetry
    <2> QED
      BY <2>1, <2>2
  <1>4. /\ attempts' = [attempts EXCEPT ![k] = tried]
        /\ UNCHANGED <<targetOf, age>>
    BY <1>1 DEF AnsweredRetryable, MarkFailed, MarkRetry
  <1>5. \/ UNCHANGED <<seen, ambiguous>>
        \/ /\ seen' = [seen EXCEPT ![k] = @ + 1]
           /\ ambiguous' = [ambiguous EXCEPT ![k] = @ + 1]
    BY DEF AnsweredRetryable, Takes
  <1> HIDE DEF tried
  <1>6. TypeOK'
    <2>1. status' \in [Alerts -> Statuses] /\ wait' \in [Alerts -> Nat]
      BY <1>3 DEF IInv, TypeOK, Statuses
    <2>2. attempts' \in [Alerts -> 0..MaxAttempts]
      BY <1>2, <1>4 DEF IInv, TypeOK
    <2>3. seen' \in [Alerts -> Nat] /\ ambiguous' \in [Alerts -> Nat]
      BY <1>5 DEF IInv, TypeOK
    <2> QED
      BY <1>1, <1>4, <2>1, <2>2, <2>3 DEF IInv, TypeOK, projection, config
  <1>7. ToldOnce'
    <2>1. \A a \in Alerts : status'[a] = "sent" <=> status[a] = "sent"
      BY <1>1, <1>3 DEF IInv, TypeOK
    <2>2. \A a \in Alerts : seen'[a] - ambiguous'[a] = seen[a] - ambiguous[a]
            /\ seen'[a] \in Nat /\ ambiguous'[a] \in Nat
      BY <1>5 DEF IInv, TypeOK
    <2> SUFFICES ASSUME NEW a \in Alerts
                 PROVE  seen'[a] = ambiguous'[a] + (IF status'[a] = "sent" THEN 1 ELSE 0)
      BY DEF ToldOnce
    <2>3. seen[a] = ambiguous[a] + (IF status[a] = "sent" THEN 1 ELSE 0)
          /\ seen[a] \in Nat /\ ambiguous[a] \in Nat
      BY DEF IInv, ToldOnce, TypeOK
    <2> QED
      BY <2>1, <2>2, <2>3
  <1>8. PassHoldsPending'
    <2>1. \A a \in batch : a # k /\ a \in Alerts
      BY <1>1 DEF IInv, TypeOK
    <2>2. \A a \in batch : status'[a] = status[a] /\ wait'[a] = wait[a]
      BY <1>3, <2>1 DEF IInv, TypeOK
    <2> QED
      BY <1>1, <2>1, <2>2, NoneIsNoAlert DEF IInv, TypeOK, PassHoldsPending, InFlight
  <1>9. Tries'
    BY <1>2, <1>3, <1>4 DEF IInv, TypeOK, Tries
  <1> QED
    BY <1>6, <1>7, <1>8, <1>9 DEF IInv

LEMMA PassIInv ==
  ASSUME IInv, Pass
  PROVE  IInv'
  <1>1. PICK k \in Alerts :
          \/ TakesSinkless(k) \/ Sends(k)
          \/ AnsweredSent(k) \/ AnsweredRefused(k) \/ AnsweredRetryable(k)
    BY DEF Pass
  <1> QED
    BY <1>1, TakesSinklessIInv, SendsIInv, AnsweredSentIInv, AnsweredRefusedIInv,
       AnsweredRetryableIInv

(* The pass is over, its process goes on or not; a message in the air may  *)
(* have been taken.  No row changes.                                       *)
LEMMA PassEndsIInv ==
  ASSUME IInv, batch' = {}, sending' = None, UNCHANGED rows, UNCHANGED met,
         ruleTarget' \in [Rules -> Targets \cup {None}], targetOn' \in SUBSET Targets,
         fresh' \in SUBSET Alerts, stirred' \in SUBSET Alerts,
         file' \in Files \cup {None}, disturbances' \in 0..MaxDisturb,
         \/ UNCHANGED <<seen, ambiguous>>
         \/ Unanswered /\ ambiguous' = [ambiguous EXCEPT ![sending] = @ + 1]
  PROVE  IInv'
  <1>1. UNCHANGED <<status, targetOf, attempts, wait, age>>
    BY DEF rows
  <1>2. \/ UNCHANGED <<seen, ambiguous>>
        \/ /\ sending \in Alerts
           /\ seen' = [seen EXCEPT ![sending] = @ + 1]
           /\ ambiguous' = [ambiguous EXCEPT ![sending] = @ + 1]
    BY DEF Unanswered, Takes, IInv, TypeOK
  <1>3. seen' \in [Alerts -> Nat] /\ ambiguous' \in [Alerts -> Nat]
    BY <1>2 DEF IInv, TypeOK
  <1>4. TypeOK'
    BY <1>1, <1>3 DEF IInv, TypeOK
  <1>5. ToldOnce'
    <2> SUFFICES ASSUME NEW k \in Alerts
                 PROVE  seen'[k] = ambiguous'[k] + (IF status[k] = "sent" THEN 1 ELSE 0)
      BY <1>1 DEF ToldOnce
    <2>1. seen[k] = ambiguous[k] + (IF status[k] = "sent" THEN 1 ELSE 0)
          /\ seen[k] \in Nat /\ ambiguous[k] \in Nat
      BY DEF IInv, ToldOnce, TypeOK
    <2>2. seen'[k] - ambiguous'[k] = seen[k] - ambiguous[k]
          /\ seen'[k] \in Nat /\ ambiguous'[k] \in Nat
      BY <1>2, <1>3, <2>1 DEF IInv, TypeOK
    <2> QED
      BY <2>1, <2>2
  <1>6. PassHoldsPending' /\ Tries'
    BY <1>1 DEF IInv, PassHoldsPending, Tries, InFlight
  <1> QED
    BY <1>4, <1>5, <1>6 DEF IInv

LEMMA DisturbType ==
  ASSUME IInv, Disturb
  PROVE  disturbances' \in 0..MaxDisturb
  BY OutboxAssumption DEF Disturb, IInv, TypeOK

LEMMA PassThrowsIInv ==
  ASSUME IInv, PassThrows
  PROVE  IInv'
  <1>1. /\ batch' = {} /\ sending' = None
        /\ UNCHANGED <<projection, config, rows, file, stirred>> /\ Disturb
        /\ \/ UNCHANGED <<seen, ambiguous>>
           \/ Unanswered /\ ambiguous' = [ambiguous EXCEPT ![sending] = @ + 1]
    BY DEF PassThrows
  <1>2. /\ ruleTarget' \in [Rules -> Targets \cup {None}] /\ targetOn' \in SUBSET Targets
        /\ fresh' \in SUBSET Alerts /\ stirred' \in SUBSET Alerts
        /\ file' \in Files \cup {None} /\ UNCHANGED met
    BY <1>1 DEF IInv, TypeOK, projection, config
  <1> QED
    BY <1>1, <1>2, DisturbType, PassEndsIInv

LEMMA BootsWithTypes ==
  ASSUME IInv, NEW f \in Boots, BootsWith(f)
  PROVE  /\ batch' = {} /\ sending' = None /\ UNCHANGED rows /\ UNCHANGED met
         /\ ruleTarget' \in [Rules -> Targets \cup {None}] /\ targetOn' \in SUBSET Targets
         /\ fresh' \in SUBSET Alerts /\ stirred' \in SUBSET Alerts
         /\ file' \in Files \cup {None}
  <1>1. f \in Files \cup {None} /\ file' = f
    BY OutboxAssumption DEF BootsWith
  <1>2. stirred' \in SUBSET Alerts
    BY DEF BootsWith, IInv, TypeOK
  <1>3. /\ ruleTarget' \in [Rules -> Targets \cup {None}] /\ targetOn' \in SUBSET Targets
        /\ fresh' \in SUBSET Alerts
    <2>1. CASE f = None
      BY <2>1 DEF BootsWith, config, IInv, TypeOK
    <2>2. CASE f # None
      <3>1. f.serves \subseteq Targets /\ f.target \in [Rules -> Targets \cup {None}]
        BY <1>1, <2>2, OutboxAssumption
      <3>2. ruleTarget' = f.target /\ targetOn' = f.serves
            /\ fresh' = fresh \ (Rearmed(f) \X Subjects)
        BY <2>2 DEF BootsWith, Syncs
      <3> QED
        BY <3>1, <3>2 DEF IInv, TypeOK
    <2> QED
      BY <2>1, <2>2
  <1> QED
    BY <1>1, <1>2, <1>3 DEF BootsWith

LEMMA RestartIInv ==
  ASSUME IInv, Shutdown \/ Crash
  PROVE  IInv'
  <1>1. /\ Disturb
        /\ \/ UNCHANGED <<seen, ambiguous>>
           \/ Unanswered /\ ambiguous' = [ambiguous EXCEPT ![sending] = @ + 1]
    BY DEF Shutdown, Crash, Settled, InFlight, Unanswered
  <1>2. PICK f \in Boots : BootsWith(f)
    BY DEF Shutdown, Crash
  <1>3. /\ batch' = {} /\ sending' = None /\ UNCHANGED rows /\ UNCHANGED met
        /\ ruleTarget' \in [Rules -> Targets \cup {None}] /\ targetOn' \in SUBSET Targets
        /\ fresh' \in SUBSET Alerts /\ stirred' \in SUBSET Alerts
        /\ file' \in Files \cup {None}
    BY <1>2, BootsWithTypes
  <1> QED
    BY <1>1, <1>3, DisturbType, PassEndsIInv

LEMMA TimePassesIInv ==
  ASSUME IInv, TimePasses
  PROVE  IInv'
  <1>1. /\ wait' = [k \in Alerts |-> IF wait[k] = 0 THEN 0 ELSE wait[k] - 1]
        /\ age' = [k \in Alerts |-> IF status[k] = "sent" THEN Least(age[k] + 1, Window + 1)
                                    ELSE age[k]]
        /\ UNCHANGED <<projection, config, status, targetOf, attempts, file, batch, sending,
                       disturbances, history>>
    BY DEF TimePasses, flight
  <1>2. wait' \in [Alerts -> Nat]
    BY <1>1 DEF IInv, TypeOK
  <1>3. age' \in [Alerts -> 0..(Window + 1)]
    <2> SUFFICES ASSUME NEW k \in Alerts PROVE age'[k] \in 0..(Window + 1)
      BY <1>1
    <2>1. age[k] \in 0..(Window + 1) /\ Window \in Nat
      BY OutboxAssumption DEF IInv, TypeOK
    <2> QED
      BY <1>1, <2>1 DEF Least
  <1>4. TypeOK'
    BY <1>1, <1>2, <1>3 DEF IInv, TypeOK, projection, config, history
  <1>5. ToldOnce' /\ PassHoldsPending' /\ Tries'
    BY <1>1 DEF IInv, TypeOK, ToldOnce, PassHoldsPending, Tries, InFlight, history
  <1> QED
    BY <1>4, <1>5 DEF IInv

LEMMA ProjectionIInv ==
  ASSUME IInv, Projection
  PROVE  IInv'
  <1>1. Disturb /\ UNCHANGED <<config, rows, file, flight, seen, ambiguous>>
    BY DEF Projection, Stirs, Turns, history
  <1>2. met' \in SUBSET Alerts /\ fresh' \in SUBSET Alerts /\ stirred' \in SUBSET Alerts
    BY DEF Projection, Stirs, Turns, history, IInv, TypeOK, Alerts
  <1>3. disturbances' \in 0..MaxDisturb
    BY <1>1, DisturbType
  <1>4. TypeOK'
    BY <1>1, <1>2, <1>3 DEF IInv, TypeOK, config, rows, flight
  <1>5. ToldOnce' /\ PassHoldsPending' /\ Tries'
    BY <1>1 DEF IInv, ToldOnce, PassHoldsPending, Tries, InFlight, rows, flight
  <1> QED
    BY <1>4, <1>5 DEF IInv

LEMMA NextIInv == IInv /\ [Next]_vars => IInv'
  <1> SUFFICES ASSUME IInv, [Next]_vars PROVE IInv'
    OBVIOUS
  <1>1. CASE UNCHANGED vars
    BY <1>1 DEF vars, projection, config, rows, flight, history, IInv, TypeOK, ToldOnce,
                PassHoldsPending, Tries, InFlight
  <1> QED
    BY <1>1, TickIInv, TickFailsIInv, PassIInv, PassThrowsIInv, TimePassesIInv,
       ProjectionIInv, RestartIInv
       DEF Next

(* The inductive invariant.                                                *)
THEOREM OutboxInductive == Spec => []IInv
  BY InitIInv, NextIInv, PTL DEF Spec

(* Every row keeps its shape, and no delivery is tried more than           *)
(* MAX_DELIVERY_ATTEMPTS times, whatever overlaps or is restarted.         *)
THEOREM OutboxTypeCorrect == Spec => []TypeOK
  <1>1. IInv => TypeOK
    BY DEF IInv
  <1> QED
    BY OutboxInductive, <1>1, PTL

(* One message per alert that is marked sent and none for any other, apart *)
(* from those whose answer was lost (db/alerts.ts: the dedupe key and the  *)
(* WHERE status = 'pending' of every mark; dispatcher.ts: one pass).       *)
THEOREM ToldAtMostOnce == Spec => []ToldOnce
  <1>1. IInv => ToldOnce
    BY DEF IInv
  <1> QED
    BY OutboxInductive, <1>1, PTL

(* What the pass in flight holds is still pending and due, so an answer    *)
(* settles the row it was sent for (dispatcher.ts: inFlight).              *)
THEOREM PassesHoldPending == Spec => []PassHoldsPending
  <1>1. IInv => PassHoldsPending
    BY DEF IInv
  <1> QED
    BY OutboxInductive, <1>1, PTL
----------------------------------------------------------------------------
(* NoHistoryFlood holds while every boot names an alerts file: a boot with *)
(* none leaves the rule rows enabled.  The rule rows are then those of the *)
(* file, and what is fresh for an enabled rule was stirred    *)
(* since the rule came into force.                                         *)
AlertingNamed == None \notin Boots

Coupled == file # None /\ ruleTarget = file.target
ArmedStirred == \A k \in fresh : ruleTarget[k[1]] # None => k \in stirred

LEMMA InitArmed == AlertingNamed /\ Init => Coupled /\ ArmedStirred
  BY DEF AlertingNamed, Init, Coupled, ArmedStirred

LEMMA NextArmed ==
  AlertingNamed /\ IInv /\ Coupled /\ ArmedStirred /\ [Next]_vars
    => Coupled' /\ ArmedStirred'
  <1> SUFFICES ASSUME AlertingNamed, IInv, Coupled, ArmedStirred, [Next]_vars
               PROVE  Coupled' /\ ArmedStirred'
    OBVIOUS
  <1>1. CASE UNCHANGED <<fresh, ruleTarget, file, stirred>>
    BY <1>1 DEF Coupled, ArmedStirred
  <1>2. CASE \E s \in Subjects : Stirs(s)
    <2>1. PICK s \in Subjects : Stirs(s)
      BY <1>2
    <2> QED
      BY <2>1 DEF Stirs, config, Coupled, ArmedStirred
  <1>3. CASE Shutdown \/ Crash
    <2>1. PICK f \in Boots : BootsWith(f)
      BY <1>3 DEF Shutdown, Crash
    <2>2. f # None /\ file # None /\ ruleTarget = file.target
      BY DEF AlertingNamed, Coupled
    <2>3. /\ file' = f /\ ruleTarget' = f.target
          /\ fresh' = fresh \ (Rearmed(f) \X Subjects)
          /\ stirred' = stirred \
               ({r \in Rules : InForce(f, r) /\ ~InForce(file, r)} \X Subjects)
      BY <2>1, <2>2 DEF BootsWith, Syncs
    <2>4. {r \in Rules : InForce(f, r) /\ ~InForce(file, r)} = Rearmed(f)
      BY <2>2 DEF InForce, Rearmed
    <2>5. ArmedStirred'
      <3> SUFFICES ASSUME NEW k \in fresh', f.target[k[1]] # None
                   PROVE  k \in stirred'
        BY <2>3 DEF ArmedStirred
      <3>1. k \in fresh /\ k \notin Rearmed(f) \X Subjects
        BY <2>3
      <3>2. k[1] \in Rules /\ k[2] \in Subjects /\ k = <<k[1], k[2]>>
        BY <3>1 DEF IInv, TypeOK, Alerts
      <3>3. ruleTarget[k[1]] # None
        BY <3>1, <3>2 DEF Rearmed
      <3>4. k \in stirred
        BY <3>1, <3>3 DEF ArmedStirred
      <3> QED
        BY <2>3, <2>4, <3>1, <3>4
    <2> QED
      BY <2>2, <2>3, <2>5 DEF Coupled
  <1>4. CASE Tick \/ TickFails \/ PassThrows \/ TimePasses
    BY <1>1, <1>4 DEF Tick, TickFails, PassThrows, TimePasses, projection, config, history
  <1>5. CASE Pass
    BY <1>1, <1>5 DEF Pass, TakesSinkless, Sends, AnsweredSent, AnsweredRefused,
         AnsweredRetryable, projection, config, history
  <1>6. CASE \E k \in Alerts : Turns(k)
    BY <1>1, <1>6 DEF Turns, config, history
  <1>7. CASE UNCHANGED vars
    BY <1>1, <1>7 DEF vars, projection, config, history
  <1> QED
    BY <1>2, <1>3, <1>4, <1>5, <1>6, <1>7 DEF Next, Projection, Alerts

LEMMA StepsRecordStirred ==
  ASSUME IInv, Coupled, ArmedStirred, [Next]_vars, NEW k \in Alerts,
         status[k] = "none", status'[k] # "none"
  PROVE  k \in stirred
  <1>1. CASE Tick \/ TickFails
    <2>1. PICK fired \in Evaluations : \E kept \in SUBSET fired : Records(kept)
      BY <1>1 DEF Tick, TickFails
    <2>2. PICK kept \in SUBSET fired : Records(kept)
      BY <2>1
    <2>3. k \in fired
      BY <2>2 DEF Records
    <2>4. k \in fresh /\ ruleTarget[k[1]] \in targetOn
      BY <2>3, EvaluationsFacts
    <2> QED
      BY <2>4, NoneIsNoAlert DEF ArmedStirred, IInv, TypeOK
  <1>2. CASE Pass
    <2>1. PICK a \in Alerts :
            \/ TakesSinkless(a) \/ Sends(a)
            \/ AnsweredSent(a) \/ AnsweredRefused(a) \/ AnsweredRetryable(a)
      BY <1>2 DEF Pass
    <2>2. status'[k] = status[k]
      BY <2>1 DEF TakesSinkless, Sends, AnsweredSent, AnsweredRefused, AnsweredRetryable,
           MarkFailed, MarkSent, MarkRetry, rows, IInv, TypeOK
    <2> QED
      BY <2>2
  <1>3. CASE PassThrows \/ TimePasses \/ Projection \/ Shutdown \/ Crash \/ UNCHANGED vars
    BY <1>3 DEF PassThrows, TimePasses, Projection, Stirs, Turns, Shutdown, Crash, BootsWith,
         vars, rows
  <1> QED
    BY <1>1, <1>2, <1>3 DEF Next

(* No alert for a subject that was not active since its rule came into     *)
(* force, however the file is edited between boots, as long as every boot  *)
(* names one (db/alerts.ts: armed_at of a rule that is enabled again).     *)
THEOREM NoFloodWhileNamed ==
  ASSUME AlertingNamed
  PROVE  Spec => NoHistoryFlood
  <1>1. Init => Coupled /\ ArmedStirred
    BY InitArmed
  <1>2. IInv /\ Coupled /\ ArmedStirred /\ [Next]_vars => Coupled' /\ ArmedStirred'
    BY NextArmed
  <1>3. IInv /\ Coupled /\ ArmedStirred /\ [Next]_vars =>
          [\A k \in Alerts : status[k] = "none" /\ status'[k] # "none" => k \in stirred]_status
    BY StepsRecordStirred
  <1> QED
    BY OutboxInductive, <1>1, <1>2, <1>3, PTL DEF Spec, NoHistoryFlood
----------------------------------------------------------------------------
(* WindowKept: what a target was sent in the window is not inductive by    *)
(* itself, for a pass goes on sending for a while after it counted.  What  *)
(* the pass took for the target, and has not sent yet, counts too: the     *)
(* budget left room for it, and the pass that follows starts only when     *)
(* nothing is left of it.                                                  *)
SentTo(t) == {k \in Alerts : status[k] = "sent" /\ targetOf[k] = t /\ age[k] <= Window}
TakenFor(t) ==
  {k \in Alerts : targetOf[k] = t /\ t \in file.serves /\ (k \in batch \/ k = sending)}
Claimed(t) == SentTo(t) \cup TakenFor(t)

WindowClaimed == \A t \in Targets : Cardinality(Claimed(t)) <= MaxPerMinute
SendsServed == sending # None => targetOf[sending] \in file.serves

WInv == IInv /\ WindowClaimed /\ SendsServed

LEMMA AlertsFinite ==
  ASSUME NEW S \in SUBSET Alerts
  PROVE  IsFiniteSet(S) /\ Cardinality(S) \in Nat
  <1>1. IsFiniteSet(Alerts)
    BY OutboxAssumption, FS_Product DEF Alerts
  <1> QED
    BY <1>1, FS_Subset, FS_CardinalityType

LEMMA ClaimsAreAlerts ==
  ASSUME NEW t
  PROVE  SentTo(t) \in SUBSET Alerts /\ TakenFor(t) \in SUBSET Alerts /\ Claimed(t) \in SUBSET Alerts
  BY DEF SentTo, TakenFor, Claimed

(* A step after which no target has more claimed keeps the window.         *)
LEMMA ClaimsShrink ==
  ASSUME WindowClaimed, \A t \in Targets : Claimed(t)' \subseteq Claimed(t)
  PROVE  WindowClaimed'
  <1> SUFFICES ASSUME NEW t \in Targets PROVE Cardinality(Claimed(t)') <= MaxPerMinute
    BY DEF WindowClaimed
  <1>1. IsFiniteSet(Claimed(t)) /\ Cardinality(Claimed(t)) \in Nat
    BY ClaimsAreAlerts, AlertsFinite
  <1>2. Claimed(t)' \in SUBSET Claimed(t)
    OBVIOUS
  <1>3. IsFiniteSet(Claimed(t)') /\ Cardinality(Claimed(t)') <= Cardinality(Claimed(t))
    BY <1>1, <1>2, FS_Subset
  <1>4. Cardinality(Claimed(t)') \in Nat
    BY <1>3, FS_CardinalityType
  <1>5. Cardinality(Claimed(t)) <= MaxPerMinute
    BY DEF WindowClaimed
  <1> QED
    BY <1>1, <1>3, <1>4, <1>5, OutboxAssumption

LEMMA InitWindow == Init => WindowClaimed /\ SendsServed
  <1> SUFFICES ASSUME Init PROVE WindowClaimed /\ SendsServed
    OBVIOUS
  <1>1. SendsServed
    BY DEF Init, SendsServed
  <1>2. ASSUME NEW t \in Targets PROVE Cardinality(Claimed(t)) <= MaxPerMinute
    <2>1. Claimed(t) = {}
      BY NoneIsNoAlert DEF Init, Claimed, SentTo, TakenFor
    <2> QED
      BY <2>1, FS_EmptySet, OutboxAssumption
  <1> QED
    BY <1>1, <1>2 DEF WindowClaimed

(* An evaluation adds rows, and changes none that was sent or taken.       *)
LEMMA RecordsKeepRows ==
  ASSUME IInv, NEW kept \in SUBSET Alerts, Records(kept), \A k \in kept : status[k] = "none",
         NEW k \in Alerts
  PROVE  /\ status'[k] = "sent" <=> status[k] = "sent"
         /\ status[k] # "none" => targetOf'[k] = targetOf[k]
         /\ age'[k] = age[k]
  BY DEF Records, IInv, TypeOK

LEMMA RecordsKeepClaims ==
  ASSUME IInv, NEW kept \in SUBSET Alerts, Records(kept), \A k \in kept : status[k] = "none",
         NEW t
  PROVE  /\ SentTo(t)' = SentTo(t)
         /\ (UNCHANGED <<file, batch, sending>> => TakenFor(t)' = TakenFor(t))
  <1>1. SentTo(t)' = SentTo(t)
    BY RecordsKeepRows DEF SentTo
  <1>2. ASSUME UNCHANGED <<file, batch, sending>> PROVE TakenFor(t)' = TakenFor(t)
    <2>1. \A k \in Alerts : k \in batch \/ k = sending => targetOf'[k] = targetOf[k]
      BY RecordsKeepRows, NoneIsNoAlert DEF IInv, PassHoldsPending
    <2> QED
      BY <1>2, <2>1 DEF TakenFor
  <1> QED
    BY <1>1, <1>2

LEMMA TickWindow ==
  ASSUME WInv, Tick
  PROVE  WindowClaimed' /\ SendsServed'
  <1>1. PICK fired \in Evaluations : Records(fired)
    BY DEF Tick
  <1>2. fired \in SUBSET Alerts /\ \A k \in fired : status[k] = "none"
    BY EvaluationsFacts DEF Evaluations
  <1>3. file' = file /\ sending' = sending /\ IInv
    BY DEF Tick, WInv
  <1>4. SendsServed'
    <2>1. sending # None => sending \in Alerts /\ status[sending] = "pending"
      BY <1>3 DEF IInv, TypeOK, PassHoldsPending
    <2> QED
      BY <1>1, <1>2, <1>3, <2>1, RecordsKeepRows DEF WInv, SendsServed
  <1>5. CASE InFlight
    <2>1. batch' = batch
      BY <1>5 DEF Tick
    <2>2. \A t \in Targets : Claimed(t)' \subseteq Claimed(t)
      BY <1>1, <1>2, <1>3, <2>1, RecordsKeepClaims DEF Claimed
    <2> QED
      BY <1>4, <2>2, ClaimsShrink DEF WInv
  <1>6. CASE ~InFlight
    <2>1. batch = {} /\ sending = None
      BY <1>6 DEF InFlight
    <2>2. PICK taken \in Batches' : batch' = taken
      BY <1>6, <2>1 DEF Tick
    <2>3. /\ taken \in SUBSET Alerts
          /\ \A t \in file.serves : Cardinality(To(taken, t)') <= Budget(t)'
      BY <1>3, <2>2 DEF Batches, Due, To
    <2> SUFFICES ASSUME NEW t \in Targets PROVE Cardinality(Claimed(t)') <= MaxPerMinute
      BY <1>4 DEF WindowClaimed
    <2>4. SentTo(t)' = SentTo(t)
      BY <1>1, <1>2, <1>3, RecordsKeepClaims
    <2>5. SentTo(t) = Claimed(t)
      BY <2>1, NoneIsNoAlert DEF Claimed, TakenFor
    <2>6. /\ IsFiniteSet(SentTo(t)) /\ Cardinality(SentTo(t)) \in Nat
          /\ Cardinality(SentTo(t)) <= MaxPerMinute
      BY <2>5, ClaimsAreAlerts, AlertsFinite DEF WInv, WindowClaimed
    <2>7. CASE t \notin file.serves
      <3>1. Claimed(t)' = SentTo(t)
        BY <1>3, <2>4, <2>7 DEF Claimed, TakenFor
      <3> QED
        BY <2>6, <3>1
    <2>8. CASE t \in file.serves
      <3>1. TakenFor(t)' = To(taken, t)'
        BY <1>3, <2>1, <2>2, <2>3, <2>8, NoneIsNoAlert DEF TakenFor, To
      <3>2. CountSentSince(t)' = Cardinality(SentTo(t))
        BY <2>4 DEF CountSentSince, SentTo
      <3>3. Cardinality(TakenFor(t)') <= MaxPerMinute - Cardinality(SentTo(t))
        BY <2>3, <2>6, <2>8, <3>1, <3>2, OutboxAssumption DEF Budget
      <3>4. IsFiniteSet(TakenFor(t)') /\ Cardinality(TakenFor(t)') \in Nat
        BY <2>3, <3>1, AlertsFinite DEF To
      <3>5. Cardinality(SentTo(t) \cap TakenFor(t)') \in Nat
        BY AlertsFinite, ClaimsAreAlerts
      <3>6. Cardinality(SentTo(t) \cup TakenFor(t)')
              = Cardinality(SentTo(t)) + Cardinality(TakenFor(t)')
                  - Cardinality(SentTo(t) \cap TakenFor(t)')
        BY <2>6, <3>4, FS_Union
      <3>7. Claimed(t)' = SentTo(t) \cup TakenFor(t)'
        BY <2>4 DEF Claimed
      <3> QED
        BY <2>6, <3>3, <3>4, <3>5, <3>6, <3>7, OutboxAssumption
    <2> QED
      BY <2>7, <2>8
  <1> QED
    BY <1>5, <1>6

LEMMA TickFailsWindow ==
  ASSUME WInv, TickFails
  PROVE  WindowClaimed' /\ SendsServed'
  <1>1. PICK fired \in Evaluations : \E kept \in SUBSET fired : Records(kept)
    BY DEF TickFails
  <1>2. PICK kept \in SUBSET fired : Records(kept)
    BY <1>1
  <1>3. kept \in SUBSET Alerts /\ \A k \in kept : status[k] = "none"
    BY <1>2, EvaluationsFacts DEF Evaluations
  <1>4. UNCHANGED <<file, batch, sending>> /\ IInv
    BY DEF TickFails, flight, WInv
  <1>5. sending # None => sending \in Alerts /\ status[sending] = "pending"
    BY <1>4 DEF IInv, TypeOK, PassHoldsPending
  <1>6. SendsServed'
    BY <1>2, <1>3, <1>4, <1>5, RecordsKeepRows DEF WInv, SendsServed
  <1>7. \A t \in Targets : Claimed(t)' \subseteq Claimed(t)
    BY <1>2, <1>3, <1>4, RecordsKeepClaims DEF Claimed
  <1> QED
    BY <1>6, <1>7, ClaimsShrink DEF WInv

(* The pass: the row that is sent was taken for the target it is sent to.  *)
LEMMA PassWindow ==
  ASSUME WInv, Pass
  PROVE  WindowClaimed' /\ SendsServed'
  <1>1. PICK k \in Alerts :
          \/ TakesSinkless(k) \/ Sends(k)
          \/ AnsweredSent(k) \/ AnsweredRefused(k) \/ AnsweredRetryable(k)
    BY DEF Pass
  <1>2. /\ file' = file /\ targetOf' = targetOf
        /\ status \in [Alerts -> Statuses] /\ age \in [Alerts -> 0..(Window + 1)]
        /\ k # None /\ 0 <= Window
    BY <1>1, NoneIsNoAlert, OutboxAssumption
       DEF TakesSinkless, Sends, AnsweredSent, AnsweredRefused, AnsweredRetryable,
           MarkFailed, MarkSent, MarkRetry, rows, WInv, IInv, TypeOK
  <1>3. CASE TakesSinkless(k) \/ AnsweredRefused(k) \/ AnsweredRetryable(k)
    <2>1. /\ batch' \subseteq batch /\ (sending' = sending \/ sending' = None)
          /\ age' = age
          /\ \A a \in Alerts : status'[a] = "sent" => status[a] = "sent"
      BY <1>2, <1>3 DEF TakesSinkless, AnsweredRefused, AnsweredRetryable, MarkFailed, MarkRetry
    <2>2. \A t \in Targets : Claimed(t)' \subseteq Claimed(t)
      BY <1>2, <2>1, NoneIsNoAlert DEF Claimed, SentTo, TakenFor
    <2>3. SendsServed'
      BY <1>2, <2>1 DEF SendsServed, WInv
    <2> QED
      BY <2>2, <2>3, ClaimsShrink DEF WInv
  <1>4. CASE Sends(k)
    <2>1. /\ sending = None /\ k \in batch /\ targetOf[k] \in file.serves
          /\ batch' = batch \ {k} /\ sending' = k /\ status' = status /\ age' = age
      BY <1>4 DEF Sends, rows
    <2>2. \A t \in Targets : Claimed(t)' \subseteq Claimed(t)
      BY <1>2, <2>1 DEF Claimed, SentTo, TakenFor
    <2>3. SendsServed'
      BY <1>2, <2>1 DEF SendsServed
    <2> QED
      BY <2>2, <2>3, ClaimsShrink DEF WInv
  <1>5. CASE AnsweredSent(k)
    <2>1. /\ sending = k /\ sending' = None /\ batch' = batch
          /\ \A a \in Alerts : a # k => status'[a] = status[a] /\ age'[a] = age[a]
      BY <1>2, <1>5 DEF AnsweredSent, MarkSent
    <2>2. targetOf[k] \in file.serves
      BY <1>2, <2>1 DEF WInv, SendsServed
    <2>3. \A t \in Targets : Claimed(t)' \subseteq Claimed(t)
      <3> SUFFICES ASSUME NEW t \in Targets, NEW a \in Claimed(t)' PROVE a \in Claimed(t)
        OBVIOUS
      <3>1. a \in Alerts /\ targetOf[a] = t
        BY <1>2 DEF Claimed, SentTo, TakenFor
      <3>2. CASE a = k
        BY <2>1, <2>2, <3>1, <3>2 DEF Claimed, TakenFor
      <3>3. CASE a # k
        BY <1>2, <2>1, <3>1, <3>3, NoneIsNoAlert DEF Claimed, SentTo, TakenFor
      <3> QED
        BY <3>2, <3>3
    <2>4. SendsServed'
      BY <2>1 DEF SendsServed
    <2> QED
      BY <2>3, <2>4, ClaimsShrink DEF WInv
  <1> QED
    BY <1>1, <1>3, <1>4, <1>5

(* A pass that throws, a shutdown or a crash gives up what it had taken.   *)
LEMMA PassEndsWindow ==
  ASSUME WInv, PassThrows \/ Shutdown \/ Crash
  PROVE  WindowClaimed' /\ SendsServed'
  <1>1. batch' = {} /\ sending' = None /\ UNCHANGED <<status, targetOf, age>>
    BY DEF PassThrows, Shutdown, Crash, BootsWith, rows
  <1>2. \A t \in Targets : Claimed(t)' \subseteq Claimed(t)
    BY <1>1, NoneIsNoAlert DEF Claimed, SentTo, TakenFor
  <1>3. SendsServed'
    BY <1>1 DEF SendsServed
  <1> QED
    BY <1>2, <1>3, ClaimsShrink DEF WInv

LEMMA TimePassesWindow ==
  ASSUME WInv, TimePasses
  PROVE  WindowClaimed' /\ SendsServed'
  <1>1. /\ UNCHANGED <<file, batch, sending, status, targetOf>>
        /\ age' = [k \in Alerts |-> IF status[k] = "sent" THEN Least(age[k] + 1, Window + 1)
                                    ELSE age[k]]
        /\ age \in [Alerts -> 0..(Window + 1)] /\ Window \in Nat
    BY OutboxAssumption DEF TimePasses, flight, WInv, IInv, TypeOK
  <1>2. \A k \in Alerts : age'[k] <= Window => age[k] <= Window
    <2> SUFFICES ASSUME NEW k \in Alerts, age'[k] <= Window PROVE age[k] <= Window
      OBVIOUS
    <2>1. age[k] \in 0..(Window + 1)
      BY <1>1
    <2> QED
      BY <1>1, <2>1 DEF Least
  <1>3. \A t \in Targets : Claimed(t)' \subseteq Claimed(t)
    BY <1>1, <1>2 DEF Claimed, SentTo, TakenFor
  <1>4. SendsServed'
    BY <1>1 DEF SendsServed, WInv
  <1> QED
    BY <1>3, <1>4, ClaimsShrink DEF WInv

LEMMA NextWindow == WInv /\ [Next]_vars => WInv'
  <1> SUFFICES ASSUME WInv, [Next]_vars PROVE WInv'
    OBVIOUS
  <1>1. CASE Projection \/ UNCHANGED vars
    <2>1. UNCHANGED <<file, batch, sending, status, targetOf, age>>
      BY <1>1 DEF Projection, Stirs, Turns, vars, rows, flight
    <2>2. \A t \in Targets : Claimed(t)' \subseteq Claimed(t)
      BY <2>1 DEF Claimed, SentTo, TakenFor
    <2>3. SendsServed'
      BY <2>1 DEF SendsServed, WInv
    <2> QED
      BY <2>2, <2>3, ClaimsShrink, NextIInv DEF WInv
  <1>2. WindowClaimed' /\ SendsServed'
    BY <1>1, TickWindow, TickFailsWindow, PassWindow, PassEndsWindow, TimePassesWindow
       DEF Next, WInv
  <1> QED
    BY <1>2, NextIInv DEF WInv

(* No target is marked as sent more than maxPerMinute messages in one      *)
(* trailing window, however ticks, slow sends, retries, passes that throw  *)
(* and restarts follow each other (dispatcher.ts: the budget is counted    *)
(* once a pass, from the rows, and one pass at a time spends it).          *)
THEOREM WindowIsKept == Spec => []WindowKept
  <1>1. Init => WInv
    BY InitIInv, InitWindow DEF WInv
  <1>2. WInv => WindowKept
    <2> SUFFICES ASSUME WInv, NEW t \in Targets PROVE CountSentSince(t) <= MaxPerMinute
      BY DEF WindowKept
    <2>1. SentTo(t) \in SUBSET Claimed(t) /\ CountSentSince(t) = Cardinality(SentTo(t))
      BY DEF Claimed, CountSentSince, SentTo
    <2>2. IsFiniteSet(Claimed(t)) /\ Cardinality(Claimed(t)) \in Nat
      BY ClaimsAreAlerts, AlertsFinite
    <2>3. Cardinality(SentTo(t)) <= Cardinality(Claimed(t)) /\ Cardinality(SentTo(t)) \in Nat
      BY <2>1, <2>2, FS_Subset, ClaimsAreAlerts, AlertsFinite
    <2> QED
      BY <2>1, <2>2, <2>3, OutboxAssumption DEF WInv, WindowClaimed
  <1> QED
    BY <1>1, <1>2, NextWindow, PTL DEF Spec
----------------------------------------------------------------------------
(* The process the outbox runs in.  A behaviour of the two is one of each, *)
(* so what is proved of the outbox alone holds beside the process.         *)
LEMMA StepsOfBoth ==
  /\ ServerInit => Init /\ Server!Init
  /\ [ServerNext]_all => [Next]_vars /\ [Server!Next]_process
  BY DEF ServerInit, ServerNext, OutboxParked, all

(* The window is kept in the runs of the two modules together.             *)
THEOREM WindowIsKeptBeside == ServerSpec => []WindowKept
  <1>1. ServerSpec => Spec
    BY StepsOfBoth, PTL DEF ServerSpec, Spec
  <1> QED
    BY <1>1, WindowIsKept, PTL

(* ClosedQuietly: how far the process has come says what may be armed and  *)
(* awaited, so that nothing of it is left when the database is closed.     *)
Unopened == pc \in {"off", "configured", "open"}
Emptied == pc \in {"draining", "closed"}

Armed ==
  /\ timers \subseteq {"backups", "alerts", "poll"}
  /\ busy \subseteq {"backup", "delivery", "stream"}
  /\ Unopened => timers = {} /\ busy = {}
  /\ pc = "closing" => "alerts" \notin timers
  /\ Emptied => timers = {} /\ busy \subseteq {"backup"}
  /\ "poll" \in timers => pc \in {"serving", "closing"}
  /\ db = "closed" => pc \in {"off", "configured", "closed"}

LEMMA InitArmedProcess == Server!Init => Armed
  BY DEF Server!Init, Armed, Unopened, Emptied

LEMMA BootArmed ==
  ASSUME Armed,
         \/ \E follows, alerts \in BOOLEAN : Server!Configure(follows, alerts)
         \/ Server!Open \/ Server!Wire \/ Server!StartAlerting \/ Server!Listen
         \/ Server!BootThrows \/ Server!BootFails
  PROVE  Armed'
  <1>1. CASE \E follows, alerts \in BOOLEAN : Server!Configure(follows, alerts)
    BY <1>1 DEF Armed, Unopened, Emptied, Server!Configure
  <1>2. CASE Server!Open \/ Server!Wire
    BY <1>2 DEF Armed, Unopened, Emptied, Server!Open, Server!Wire
  <1>3. CASE Server!StartAlerting \/ Server!Listen
    BY <1>3 DEF Armed, Unopened, Emptied, Server!StartAlerting, Server!Listen
  <1>4. CASE Server!BootThrows \/ Server!BootFails
    BY <1>4 DEF Armed, Unopened, Emptied, Server!BootThrows, Server!BootFails, Server!BeginClose,
         Server!Exit
  <1> QED
    BY <1>1, <1>2, <1>3, <1>4

LEMMA CloseArmed ==
  ASSUME Armed,
         Server!Close \/ Server!StopTimers \/ Server!CloseDatabase \/ Server!Ends \/ Server!Fatal
  PROVE  Armed'
  <1>1. CASE Server!Close \/ Server!StopTimers
    BY <1>1 DEF Armed, Unopened, Emptied, Server!Close, Server!BeginClose, Server!StopTimers
  <1>2. CASE Server!CloseDatabase \/ Server!Ends \/ Server!Fatal
    BY <1>2 DEF Armed, Unopened, Emptied, Server!CloseDatabase, Server!Ends, Server!Fatal,
         Server!Exit
  <1> QED
    BY <1>1, <1>2

LEMMA WorkArmed ==
  ASSUME Armed,
         \/ Server!Deliver \/ Server!Delivered \/ Server!Backup \/ Server!BackedUp
         \/ Server!OpenStream \/ Server!LeaveStream
  PROVE  Armed'
  <1>1. CASE Server!Deliver \/ Server!Delivered
    BY <1>1 DEF Armed, Unopened, Emptied, Server!Deliver, Server!Delivered
  <1>2. CASE Server!Backup \/ Server!BackedUp
    BY <1>2 DEF Armed, Unopened, Emptied, Server!Backup, Server!BackedUp
  <1>3. CASE Server!OpenStream \/ Server!LeaveStream
    BY <1>3 DEF Armed, Unopened, Emptied, Server!OpenStream, Server!LeaveStream
  <1> QED
    BY <1>1, <1>2, <1>3

LEMMA PassesArmed ==
  ASSUME Armed, NEW outcome, NEW declined,
         Server!ReplayPass(outcome, declined) \/ Server!Poll(outcome, declined)
  PROVE  Armed'
  BY DEF Armed, Unopened, Emptied, Server!ReplayPass, Server!Poll, Server!process

LEMMA NextArmedProcess == Armed /\ [Server!Next]_process => Armed'
  <1> SUFFICES ASSUME Armed, [Server!Next]_process PROVE Armed'
    OBVIOUS
  <1>1. CASE UNCHANGED process \/ Server!TimePasses
    BY <1>1 DEF process, Server!TimePasses, Server!process, Armed, Unopened, Emptied
  <1> QED
    BY <1>1, BootArmed, CloseArmed, WorkArmed, PassesArmed DEF Server!Next

(* Whichever step of a boot fails, and whatever is in flight when the      *)
(* process closes, nothing is armed or awaited once the database is closed *)
(* but a backup (index.ts: the order of start and close).                  *)
THEOREM ClosesQuietly == ServerSpec => []ClosedQuietly
  <1>1. Armed => ClosedQuietly
    BY DEF Armed, Unopened, Emptied, ClosedQuietly, Server!ClosedQuietly
  <1>2. ServerInit => Armed
    BY StepsOfBoth, InitArmedProcess
  <1>3. Armed /\ [ServerNext]_all => Armed'
    BY StepsOfBoth, NextArmedProcess
  <1> QED
    BY <1>1, <1>2, <1>3, PTL DEF ServerSpec
----------------------------------------------------------------------------
(* OperatorTold: while the corpus is polled, the trouble remembered is the *)
(* one the last pass found, so that a line is due exactly when the word of *)
(* the log is no longer so.                                                *)
Remembers ==
  "poll" \in timers =>
    /\ said = looked
    /\ looked \in Server!Troubles \cup {"reads"}
    /\ trouble = (IF looked \in Server!Troubles THEN looked ELSE "none")

(* lastLoggedAt is the age of the line that was printed: a skip that is    *)
(* kept quiet does not move it.                                            *)
Named ==
  /\ since \in [Transcripts -> Nat] /\ line = since
  /\ \A t \in skipped : line[t] < RelogPasses
  /\ skipped \subseteq Transcripts

LEMMA NamesSkips ==
  ASSUME Named, NEW declined \in SUBSET Transcripts, Server!NameSkips(declined)
  PROVE  Named'
  <1> DEFINE admitted == {t \in declined : since[t] >= RelogPasses}
  <1>1. /\ skipped' = declined
        /\ since' = [t \in Transcripts |-> IF t \in admitted THEN 0 ELSE since[t]]
        /\ line' = since'
    BY DEF Server!NameSkips, Named
  <1>2. since' \in [Transcripts -> Nat]
    BY <1>1 DEF Named
  <1>3. \A t \in declined : since'[t] < RelogPasses
    BY <1>1, SilenceAssumption DEF Named
  <1> QED
    BY <1>1, <1>2, <1>3 DEF Named

LEMMA ExitTold ==
  ASSUME Server!Exit
  PROVE  Remembers' /\ Named'
  BY SilenceAssumption DEF Server!Exit, Server!LongAgo, Remembers, Named

LEMMA ReplayTold ==
  ASSUME Armed, Remembers, Named, NEW outcome \in Server!Outcomes,
         NEW declined \in SUBSET Transcripts, Server!ReplayPass(outcome, declined)
  PROVE  Remembers' /\ Named'
  <1>1. Named'
    BY NamesSkips DEF Server!ReplayPass
  <1>2. CASE outcome = "pending"
    <2>1. "poll" \notin timers /\ timers' = timers
      BY <1>2 DEF Server!ReplayPass, Armed
    <2> QED
      BY <1>1, <2>1 DEF Remembers
  <1>3. CASE outcome # "pending"
    <2>1. /\ looked' = Server!Says(outcome)
          /\ said' = (IF ingested /\ outcome = "unchanged" THEN "reads" ELSE Server!Says(outcome))
          /\ trouble' = Server!Seeded(outcome)
      BY <1>3 DEF Server!ReplayPass
    <2> QED
      BY <1>1, <2>1 DEF Remembers, Server!Says, Server!Seeded, Server!Outcomes, Server!Troubles,
         Server!Reads
  <1> QED
    BY <1>2, <1>3

LEMMA PollTold ==
  ASSUME Remembers, Named, NEW outcome \in Server!Outcomes,
         NEW declined \in SUBSET Transcripts, Server!Poll(outcome, declined)
  PROVE  Remembers' /\ Named'
  <1>1. Named'
    BY NamesSkips DEF Server!Poll
  <1>2. /\ "poll" \in timers
        /\ looked' = Server!Says(outcome)
        /\ trouble' = (IF outcome \in Server!Troubles THEN outcome ELSE "none")
        /\ said' = Server!Says(outcome) \/ (said' = said /\ trouble' = trouble)
    BY DEF Server!Poll
  <1>3. said' = looked'
    BY <1>2 DEF Remembers, Server!Says, Server!Outcomes, Server!Troubles, Server!Reads
  <1>4. /\ looked' \in Server!Troubles \cup {"reads"}
        /\ trouble' = (IF looked' \in Server!Troubles THEN looked' ELSE "none")
    BY <1>2 DEF Server!Says, Server!Outcomes, Server!Troubles, Server!Reads
  <1> QED
    BY <1>1, <1>3, <1>4 DEF Remembers

LEMMA OthersTold ==
  ASSUME Remembers, Named, UNCHANGED <<said, looked, trouble, since, line, skipped>>,
         "poll" \in timers' => "poll" \in timers
  PROVE  Remembers' /\ Named'
  BY DEF Remembers, Named

LEMMA TimeTold ==
  ASSUME Remembers, Named, Server!TimePasses
  PROVE  Remembers' /\ Named'
  <1>1. UNCHANGED <<said, looked, trouble, timers>>
    BY DEF Server!TimePasses, Server!process, Server!corpus
  <1>2. Remembers'
    BY <1>1 DEF Remembers
  <1>3. /\ line' = since' /\ skipped' = {}
        /\ since' = [t \in Transcripts |->
                       IF since[t] < RelogPasses THEN since[t] + 1 ELSE since[t]]
    BY DEF Server!TimePasses, Named
  <1>4. since' \in [Transcripts -> Nat]
    BY <1>3 DEF Named
  <1> QED
    BY <1>2, <1>3, <1>4 DEF Named

LEMMA NextTold ==
  ASSUME Armed, Remembers, Named, [Server!Next]_process
  PROVE  Remembers' /\ Named'
  <1>1. CASE \/ \E follows, alerts \in BOOLEAN : Server!Configure(follows, alerts)
             \/ Server!Open \/ Server!StartAlerting \/ Server!Listen \/ Server!BootFails
    BY <1>1, OthersTold
       DEF Server!Configure, Server!Open, Server!StartAlerting, Server!Listen, Server!BootFails,
           Server!BeginClose, Server!corpus, Server!skips
  <1>2. CASE Server!Wire
    BY <1>2, OthersTold DEF Server!Wire, Server!skips
  <1>3. CASE Server!Close \/ Server!StopTimers \/ Server!CloseDatabase
    BY <1>3, OthersTold DEF Server!Close, Server!BeginClose, Server!StopTimers,
       Server!CloseDatabase, Server!corpus, Server!skips
  <1>4. CASE \/ Server!Deliver \/ Server!Delivered \/ Server!Backup \/ Server!BackedUp
             \/ Server!OpenStream \/ Server!LeaveStream
    BY <1>4, OthersTold DEF Server!Deliver, Server!Delivered, Server!Backup, Server!BackedUp,
       Server!OpenStream, Server!LeaveStream, Server!corpus, Server!skips
  <1>5. CASE Server!BootThrows \/ Server!Ends \/ Server!Fatal
    BY <1>5, ExitTold DEF Server!BootThrows, Server!Ends, Server!Fatal
  <1>6. CASE UNCHANGED process
    BY <1>6, OthersTold DEF process
  <1> QED
    BY <1>1, <1>2, <1>3, <1>4, <1>5, <1>6, ReplayTold, PollTold, TimeTold DEF Server!Next

(* The last word of the log on the corpus is what the last pass found, and *)
(* a transcript that is not read was named less than a silence ago, in     *)
(* every order of replay, polls and lines (index.ts: tickTroubleTransition *)
(* and replayPhaseEndLine; createSkipReporter).   *)
THEOREM OperatorIsTold == ServerSpec => []OperatorTold
  <1> DEFINE TInv == Armed /\ Remembers /\ Named
  <1>1. TInv => OperatorTold
    BY DEF Remembers, Named, OperatorTold, Server!OperatorTold
  <1>2. ServerInit => TInv
    <2>1. Server!Init => Remembers /\ Named
      BY SilenceAssumption DEF Server!Init, Server!LongAgo, Remembers, Named
    <2> QED
      BY <2>1, StepsOfBoth, InitArmedProcess
  <1>3. TInv /\ [ServerNext]_all => TInv'
    BY StepsOfBoth, NextArmedProcess, NextTold
  <1> HIDE DEF TInv
  <1> QED
    BY <1>1, <1>2, <1>3, PTL DEF ServerSpec
=============================================================================
