------------------------- MODULE CorpusWatcherProofs -------------------------
(***************************************************************************)
(* Proofs about CorpusWatcher, for every set of roots, sessions, slugs and *)
(* prices, every verdict and every bound; and about CostAnalysis, for any  *)
(* project directories, any transcripts that parsing can leave, any rates, *)
(* and any number of moves of the user.                                    *)
(***************************************************************************)
EXTENDS MCCorpusSweep, WellFoundedInduction, FiniteSetTheorems, TLAPS


LEMMA DoubledType == \A gap \in 0..BackoffCap : Doubled(gap) \in 1..BackoffCap
  BY ConstantsAssumption DEF Doubled, Least

LEMMA FailedAgainType ==
  \A b \in Budget : /\ FailedAgain(b) \in Budget
                    /\ FailedAgain(b).count > 0
  <1>1. TAKE b \in Budget
  <1>2. Least(b.count + 1, MaxAttempts) \in 1..MaxAttempts
    BY ConstantsAssumption DEF Least, Budget
  <1>3. b.gap \in 0..BackoffCap
    BY DEF Budget
  <1>4. Doubled(b.gap) \in 1..BackoffCap
    BY <1>3, DoubledType
  <1>5. QED
    BY <1>2, <1>4, ConstantsAssumption DEF FailedAgain, Budget

LEMMA ElapsedType ==
  /\ \A b \in Budget : Elapsed(b) \in Budget /\ Elapsed(b).count = b.count
  /\ \A e \in Schedule : Elapsed(e) \in Schedule /\ Elapsed(e).gap = e.gap
  BY ConstantsAssumption DEF Elapsed, Budget, Schedule

LEMMA NothingType ==
  NoFp \in Fingerprint /\ NoBudget \in Budget /\ NoSchedule \in Schedule
  BY ConstantsAssumption DEF NoFp, Fingerprint, NoBudget, Budget, NoSchedule, Schedule

LEMMA FingerprintNowType ==
  ASSUME TypeOK
  PROVE  \A r \in Roots, s \in Sessions : FingerprintNow(r, s) \in Fingerprint
  BY DEF TypeOK, FingerprintNow, Fingerprint

LEMMA NoneIsNoRoot == None \notin Roots /\ None \notin Prices
  BY ConstantsAssumption

(* Lookup types of the operators a look is built from.                     *)
LEMMA LookTypes ==
  ASSUME TypeOK, root \in Roots
  PROVE  /\ Trusted \in SUBSET [Sessions -> Fingerprint]
         /\ \A t \in Trusted : Known(t) \in [Sessions -> Fingerprint]
         /\ BudgetsAfterHydration \in [Sessions -> Budget]
         /\ Budgets \in [Sessions -> Budget]
         /\ Schedules \in [Sessions -> Schedule]
         /\ KnownSlugs \in SUBSET Sessions
         /\ Continuing \in SUBSET Sessions
         /\ CapInForce \in {0, ReplayCap}
         /\ Visible(root) \in SUBSET Sessions
  <1>1. Trusted \in SUBSET [Sessions -> Fingerprint]
    BY NothingType DEF Trusted, TypeOK
  <1>2. \A t \in Trusted : Known(t) \in [Sessions -> Fingerprint]
    BY <1>1, NothingType DEF Known, TypeOK
  <1>3. BudgetsAfterHydration \in [Sessions -> Budget]
    BY NothingType DEF BudgetsAfterHydration, TypeOK
  <1>4. Budgets \in [Sessions -> Budget]
    BY <1>3, NothingType, ElapsedType DEF Budgets
  <1>5. Schedules \in [Sessions -> Schedule]
    BY ElapsedType DEF Schedules, TypeOK
  <1>6. KnownSlugs \in SUBSET Sessions /\ Continuing \in SUBSET Sessions
    BY DEF KnownSlugs, Continuing, TypeOK
  <1>7. CapInForce \in {0, ReplayCap}
    BY DEF CapInForce, CapGiven, TypeOK
  <1>8. Visible(root) \in SUBSET Sessions
    BY DEF Visible, TypeOK
  <1> QED
    BY <1>1, <1>2, <1>3, <1>4, <1>5, <1>6, <1>7, <1>8

LEMMA ReportTypes ==
  ASSUME TypeOK, NEW kind \in Outcomes, Report(kind)
  PROVE  /\ pc' = "idle"
         /\ outcome' \in Outcomes
         /\ mode' \in {"replay", "poll"}
         /\ ingestPhase' \in {"replaying", "idle"}
  BY DEF TypeOK, Report

(* The pass-local variables are empty outside a pass, and a pass that read *)
(* anything has resolved its roots.                                        *)
PassOK ==
  /\ pc \in {"idle", "looked"} =>
       refs = {} /\ todo = {} /\ projected = {} /\ failures = {} /\ incomplete = {}
  /\ pc \in {"looked", "reading"} => passRoot \in Roots
  /\ refs # {} => runRoot \in Roots

LEMMA InitTypeOK == Init => TypeOK /\ PassOK
  <1> SUFFICES ASSUME Init PROVE TypeOK /\ PassOK
    OBVIOUS
  <1>1. /\ version \in [Roots -> [Sessions -> 0..MaxVersion]]
        /\ carried \in [Roots -> [Sessions -> 0..MaxVersion]]
        /\ here \in [Roots -> SUBSET Sessions]
        /\ fault \in [Sessions -> Faults]
    BY ConstantsAssumption DEF Init, Faults
  <1>2. /\ fingerprints \in [Sessions -> Fingerprint]
        /\ attempts \in [Sessions -> Budget]
        /\ rereadSchedule \in [Sessions -> Schedule]
        /\ next \in [Sessions -> Fingerprint]
        /\ checkpoint \in [Roots -> [Sessions -> Fingerprint]]
    BY NothingType DEF Init
  <1>3. /\ last \in [Sessions -> {"never", "read", "incomplete", "failed", "missed"}]
        /\ outcome \in Outcomes
        /\ disturbances \in 0..MaxDisturb
    BY ConstantsAssumption DEF Init, Outcomes
  <1>4. PassOK
    BY DEF Init, PassOK
  <1>5. TypeOK
    BY <1>1, <1>2, <1>3 DEF Init, TypeOK
  <1> QED
    BY <1>4, <1>5

LEMMA ForgetPassType ==
  ASSUME ForgetPass, pc' = "idle"
  PROVE  /\ passRoot' \in Roots \cup {None} /\ runRoot' \in Roots \cup {None}
         /\ next' \in [Sessions -> Fingerprint]
         /\ present' \in SUBSET Sessions /\ changed' \in SUBSET Sessions
         /\ pending' \in BOOLEAN
         /\ refs' \in SUBSET changed' /\ todo' \in SUBSET refs'
         /\ projected' \in SUBSET refs' /\ failures' \in SUBSET refs'
         /\ incomplete' \in SUBSET refs'
         /\ PassOK'
  BY NothingType DEF ForgetPass, PassOK

(* One lemma per action: it keeps the types and the pass-local invariant.  *)
LEMMA LookNoRootType ==
  TypeOK /\ PassOK /\ LookNoRoot => TypeOK' /\ PassOK'
  <1> SUFFICES ASSUME TypeOK, PassOK, LookNoRoot PROVE TypeOK' /\ PassOK'
    OBVIOUS
  <1>1. Report("no-corpus-root") /\ "no-corpus-root" \in Outcomes
    BY DEF LookNoRoot, Outcomes
  <1>2. /\ pc' = "idle" /\ outcome' \in Outcomes /\ mode' \in {"replay", "poll"}
        /\ ingestPhase' \in {"replaying", "idle"}
    BY <1>1, ReportTypes
  <1> QED
    BY <1>2, NothingType
       DEF LookNoRoot, TypeOK, PassOK, disk, pass, database, history

LEMMA LookUnreadableRootType ==
  TypeOK /\ PassOK /\ LookUnreadableRoot => TypeOK' /\ PassOK'
  <1> SUFFICES ASSUME TypeOK, PassOK, LookUnreadableRoot PROVE TypeOK' /\ PassOK'
    OBVIOUS
  <1>1. root \in Roots
    BY DEF LookUnreadableRoot, TypeOK
  <1>2. Report("read-error") /\ "read-error" \in Outcomes
    BY DEF LookUnreadableRoot, Outcomes
  <1>3. /\ pc' = "idle" /\ outcome' \in Outcomes /\ mode' \in {"replay", "poll"}
        /\ ingestPhase' \in {"replaying", "idle"}
    BY <1>2, ReportTypes
  <1>4. /\ fingerprints' \in [Sessions -> Fingerprint]
        /\ attempts' \in [Sessions -> Budget]
        /\ slugs' \in SUBSET Sessions /\ sweep' \in SUBSET Sessions
        /\ carriedCap' \in {0, ReplayCap}
    BY <1>1, LookTypes, NothingType DEF LookUnreadableRoot
  <1> QED
    BY <1>1, <1>3, <1>4
       DEF LookUnreadableRoot, TypeOK, PassOK, disk, pass, database, history

LEMMA LookType ==
  TypeOK /\ PassOK /\ Look => TypeOK' /\ PassOK'
  <1> SUFFICES ASSUME TypeOK, PassOK, Look PROVE TypeOK' /\ PassOK'
    OBVIOUS
  <1>1. root \in Roots /\ pc = "idle"
    BY DEF Look, TypeOK
  <1>2. /\ fingerprints' \in [Sessions -> Fingerprint]
        /\ attempts' \in [Sessions -> Budget]
        /\ rereadSchedule' \in [Sessions -> Schedule]
        /\ slugs' \in SUBSET Sessions
        /\ hydratedRoot' = root /\ pricingSeen' = price
    BY <1>1, LookTypes, NothingType DEF Look
  <1>3. UNCHANGED <<disk, disturbances, database, history>>
    BY DEF Look
  <1>4. \/ /\ sweep' = {} /\ carriedCap' = 0
           /\ Report("unchanged")
           /\ UNCHANGED pass
        \/ /\ changed' \in SUBSET Sessions /\ pending' \in BOOLEAN
           /\ sweep' = Continuing /\ carriedCap' = CapInForce
           /\ present' \in SUBSET Sessions
           /\ passRoot' = root
           /\ next' \in [Sessions -> Fingerprint]
           /\ pc' = "looked"
           /\ UNCHANGED <<boot, runRoot, refs, todo, projected, failures, incomplete>>
    <2>1. PICK t \in Trusted :
            LET known == Known(t)
                kept == AccountedFor(known)
                due == Due(known)
            IN
            \/ /\ due = {}
               /\ sweep' = {} /\ carriedCap' = 0
               /\ Report("unchanged")
               /\ UNCHANGED pass
            \/ /\ due # {}
               /\ \E admitted \in Admissions(due) :
                    /\ changed' = admitted
                    /\ pending' = (admitted # due)
               /\ sweep' = Continuing
               /\ carriedCap' = CapInForce
               /\ present' = kept
               /\ passRoot' = root
               /\ next' = [s \in Sessions |->
                             IF s \in Visible(root) THEN FingerprintNow(root, s) ELSE NoFp]
               /\ pc' = "looked"
               /\ UNCHANGED <<boot, runRoot, refs, todo, projected, failures, incomplete>>
      BY DEF Look
    <2>2. AccountedFor(Known(t)) \in SUBSET Sessions
      BY <1>1, LookTypes DEF AccountedFor
    <2>3. \A due \in SUBSET Sessions : \A a \in Admissions(due) : a \in SUBSET Sessions
      BY DEF Admissions
    <2>4. Due(Known(t)) \in SUBSET Sessions
      BY <1>1, LookTypes DEF Due
    <2>5. [s \in Sessions |-> IF s \in Visible(root) THEN FingerprintNow(root, s) ELSE NoFp]
            \in [Sessions -> Fingerprint]
      BY <1>1, FingerprintNowType, NothingType
    <2> QED
      BY <2>1, <2>2, <2>3, <2>4, <2>5
  <1>5. CASE Report("unchanged") /\ sweep' = {} /\ carriedCap' = 0 /\ UNCHANGED pass
    <2>1. /\ pc' = "idle" /\ outcome' \in Outcomes /\ mode' \in {"replay", "poll"}
          /\ ingestPhase' \in {"replaying", "idle"}
      <3>1. "unchanged" \in Outcomes
        BY DEF Outcomes
      <3> QED
        BY <1>5, <3>1, ReportTypes
    <2> QED
      BY <1>1, <1>2, <1>3, <1>5, <2>1 DEF TypeOK, PassOK, disk, pass, database, history
  <1>6. CASE /\ changed' \in SUBSET Sessions /\ pending' \in BOOLEAN
             /\ sweep' = Continuing /\ carriedCap' = CapInForce
             /\ present' \in SUBSET Sessions
             /\ passRoot' = root
             /\ next' \in [Sessions -> Fingerprint]
             /\ pc' = "looked"
             /\ UNCHANGED <<boot, runRoot, refs, todo, projected, failures, incomplete>>
    <2>1. sweep' \in SUBSET Sessions /\ carriedCap' \in {0, ReplayCap}
      BY <1>1, <1>6, LookTypes
    <2> QED
      BY <1>1, <1>2, <1>3, <1>6, <2>1 DEF TypeOK, PassOK, disk, boot, database, history
  <1> QED
    BY <1>4, <1>5, <1>6

LEMMA EnumerateAgainType ==
  TypeOK /\ PassOK /\ EnumerateAgain => TypeOK' /\ PassOK'
  <1> SUFFICES ASSUME TypeOK, PassOK, EnumerateAgain PROVE TypeOK' /\ PassOK'
    OBVIOUS
  <1>1. /\ refs' \in SUBSET changed' /\ todo' = refs'
        /\ refs' # {} => runRoot' \in Roots
        /\ runRoot' \in Roots \cup {None}
        /\ passRoot' \in Roots /\ pc' = "reading"
    BY DEF EnumerateAgain, TypeOK, PassOK
  <1> QED
    BY <1>1 DEF EnumerateAgain, TypeOK, PassOK, disk, memory, boot, database, history

LEMMA EnumerateAgainFailsType ==
  TypeOK /\ PassOK /\ EnumerateAgainFails => TypeOK' /\ PassOK'
  <1> SUFFICES ASSUME TypeOK, PassOK, EnumerateAgainFails PROVE TypeOK' /\ PassOK'
    OBVIOUS
  <1>1. Report("read-error") /\ "read-error" \in Outcomes /\ ForgetPass
    BY DEF EnumerateAgainFails, Outcomes
  <1>2. /\ pc' = "idle" /\ outcome' \in Outcomes /\ mode' \in {"replay", "poll"}
        /\ ingestPhase' \in {"replaying", "idle"}
    BY <1>1, ReportTypes
  <1> QED
    BY <1>1, <1>2, ForgetPassType
       DEF EnumerateAgainFails, TypeOK, disk, memory, database, history

LEMMA ReadTypes ==
  TypeOK /\ PassOK /\ (\E s \in Sessions : ReadWhole(s) \/ ReadFaulted(s) \/ ProjectionFails(s))
    => TypeOK' /\ PassOK'
  <1> SUFFICES ASSUME TypeOK, PassOK, NEW s \in Sessions,
                      ReadWhole(s) \/ ReadFaulted(s) \/ ProjectionFails(s)
               PROVE  TypeOK' /\ PassOK'
    OBVIOUS
  <1>1. s \in refs /\ runRoot \in Roots /\ pc = "reading"
    BY DEF ReadWhole, ReadFaulted, ProjectionFails, TypeOK, PassOK
  <1>2. version[runRoot][s] \in 0..MaxVersion
    BY <1>1 DEF TypeOK
  <1>3. /\ todo' \in SUBSET refs
        /\ projected' \in SUBSET refs /\ failures' \in SUBSET refs
        /\ incomplete' \in SUBSET refs
        /\ UNCHANGED <<disk, memory, pc, passRoot, next, present, changed, pending,
                       runRoot, refs, boot, checkpoint, history>>
    BY <1>1 DEF ReadWhole, ReadFaulted, ProjectionFails, TypeOK, database
  <1>4. carried' \in [Roots -> [Sessions -> 0..MaxVersion]]
    BY <1>1, <1>2 DEF ReadWhole, ReadFaulted, ProjectionFails, TypeOK, database
  <1>5. disturbances' \in 0..MaxDisturb
    BY ConstantsAssumption
       DEF ReadWhole, ReadFaulted, ProjectionFails, Disturb, TypeOK
  <1> QED
    BY <1>1, <1>3, <1>4, <1>5
       DEF TypeOK, PassOK, disk, memory, boot, history

LEMMA SettleType ==
  TypeOK /\ PassOK /\ Settle => TypeOK' /\ PassOK'
  <1> SUFFICES ASSUME TypeOK, PassOK, Settle PROVE TypeOK' /\ PassOK'
    OBVIOUS
  <1>1. fingerprints' \in [Sessions -> Fingerprint]
    BY DEF Settle, TypeOK
  <1>2. attempts' \in [Sessions -> Budget]
    BY FailedAgainType, NothingType DEF Settle, SettledBudget, TypeOK
  <1>3. rereadSchedule' \in [Sessions -> Schedule]
    <2>1. \A s \in Sessions : rereadSchedule[s].gap \in 0..BackoffCap
      BY DEF TypeOK, Schedule
    <2>2. \A s \in Sessions : Doubled(rereadSchedule[s].gap) \in 0..BackoffCap
      BY <2>1, DoubledType, ConstantsAssumption
    <2>3. \A s \in Sessions : SettledSchedule(s) \in Schedule
      BY <2>2, NothingType DEF SettledSchedule, Schedule, TypeOK
    <2> QED
      BY <2>3 DEF Settle
  <1>4. checkpoint' \in [Roots -> [Sessions -> Fingerprint]] /\ crossed' \in SUBSET Sessions
    <2>1. Checkpointable \in SUBSET Sessions
      BY DEF Checkpointable, TypeOK
    <2>2. CASE UNCHANGED <<checkpoint, crossed>>
      BY <2>2 DEF TypeOK
    <2>3. CASE /\ checkpoint' =
                    [checkpoint EXCEPT ![passRoot] =
                       [s \in Sessions |->
                          IF s \in Checkpointable THEN next[s]
                          ELSE IF s \in present THEN @[s] ELSE NoFp]]
               /\ crossed' = IF runRoot = passRoot THEN crossed
                             ELSE crossed \cup Checkpointable
      <3>1. passRoot \in Roots
        BY DEF PassOK, Settle
      <3>2. [s \in Sessions |->
               IF s \in Checkpointable THEN next[s]
               ELSE IF s \in present THEN checkpoint[passRoot][s] ELSE NoFp]
              \in [Sessions -> Fingerprint]
        BY <3>1, NothingType DEF TypeOK
      <3> QED
        BY <2>1, <2>3, <3>1, <3>2 DEF TypeOK
    <2> QED
      BY <2>2, <2>3 DEF Settle, CommitCheckpoint
  <1>5. sweep' \in SUBSET Sessions /\ carriedCap' \in {0, ReplayCap}
    BY DEF Settle, SettleSweep, TypeOK
  <1>6. /\ last' \in [Sessions -> {"never", "read", "incomplete", "failed", "missed"}]
        /\ handled' \in SUBSET Sessions
    <2>1. \A s \in Sessions :
            LastOutcome(s) \in {"never", "read", "incomplete", "failed", "missed"}
      BY DEF LastOutcome, TypeOK
    <2> QED
      BY <2>1 DEF Settle, TypeOK
  <1>7. /\ pc' = "idle" /\ outcome' \in Outcomes /\ mode' \in {"replay", "poll"}
        /\ ingestPhase' \in {"replaying", "idle"}
    <2>1. (IF pending THEN "pending" ELSE "drained") \in Outcomes
      BY DEF Outcomes
    <2> QED
      BY <2>1, ReportTypes DEF Settle
  <1>8. ForgetPass
    BY DEF Settle
  <1> QED
    BY <1>1, <1>2, <1>3, <1>4, <1>5, <1>6, <1>7, <1>8, ForgetPassType
       DEF Settle, TypeOK, disk

(* A disturbance of the disk leaves everything the watcher holds alone.    *)
DiskTypeOK ==
  /\ root \in Roots \cup {None} /\ rootListable \in BOOLEAN
  /\ version \in [Roots -> [Sessions -> 0..MaxVersion]]
  /\ here \in [Roots -> SUBSET Sessions]
  /\ fault \in [Sessions -> Faults]
  /\ badSlugs \in SUBSET Slugs
  /\ price \in Prices

LEMMA DisturbanceType ==
  ASSUME TypeOK, PassOK, Disturb, DiskTypeOK',
         UNCHANGED <<memory, pc, pass, boot, database, history>>
  PROVE  TypeOK' /\ PassOK'
  <1>1. disturbances' \in 0..MaxDisturb
    BY ConstantsAssumption DEF Disturb, TypeOK
  <1> QED
    BY <1>1 DEF DiskTypeOK, TypeOK, PassOK, memory, pass, boot, database, history

LEMMA WriteType ==
  ASSUME TypeOK, NEW r \in Roots, NEW s \in Sessions, Write(r, s)
  PROVE  version' \in [Roots -> [Sessions -> 0..MaxVersion]]
  <1>1. version[r] \in [Sessions -> 0..MaxVersion]
    BY DEF TypeOK
  <1>2. version[r][s] + 1 \in 0..MaxVersion
    BY <1>1, ConstantsAssumption DEF Write
  <1>3. [version[r] EXCEPT ![s] = @ + 1] \in [Sessions -> 0..MaxVersion]
    BY <1>1, <1>2
  <1>4. version' = [version EXCEPT ![r] = [version[r] EXCEPT ![s] = @ + 1]]
    BY DEF Write, TypeOK
  <1> QED
    BY <1>3, <1>4 DEF TypeOK

LEMMA EnvironmentType ==
  TypeOK /\ PassOK /\ Environment => TypeOK' /\ PassOK'
  <1> SUFFICES ASSUME TypeOK, PassOK, Environment PROVE TypeOK' /\ PassOK'
    OBVIOUS
  <1>d. DiskTypeOK
    BY DEF DiskTypeOK, TypeOK
  <1>1. ASSUME NEW r \in Roots, NEW s \in Sessions, Write(r, s)
        PROVE  TypeOK' /\ PassOK'
    <2>1. here' \in [Roots -> SUBSET Sessions]
      BY <1>1 DEF Write, TypeOK
    <2>2. DiskTypeOK'
      BY <1>d, <1>1, <2>1, WriteType DEF Write, DiskTypeOK
    <2> QED
      BY <1>1, <2>2, DisturbanceType DEF Write
  <1>2. ASSUME NEW r \in Roots, NEW s \in Sessions, Vanish(r, s) \/ Reappear(r, s)
        PROVE  TypeOK' /\ PassOK'
    <2>1. DiskTypeOK'
      BY <1>d, <1>2 DEF Vanish, Reappear, DiskTypeOK
    <2> QED
      BY <1>2, <2>1, DisturbanceType DEF Vanish, Reappear
  <1>3. ASSUME NEW s \in Sessions, FaultChanges(s) PROVE TypeOK' /\ PassOK'
    <2>1. DiskTypeOK'
      BY <1>d, <1>3 DEF FaultChanges, DiskTypeOK
    <2> QED
      BY <1>3, <2>1, DisturbanceType DEF FaultChanges
  <1>4. ASSUME NEW s \in Sessions, ProjectionFails(s) PROVE TypeOK' /\ PassOK'
    BY <1>4, ReadTypes
  <1>5. ASSUME NEW g \in Slugs, SlugFaultChanges(g) PROVE TypeOK' /\ PassOK'
    <2>1. DiskTypeOK'
      BY <1>d, <1>5 DEF SlugFaultChanges, DiskTypeOK
    <2> QED
      BY <1>5, <2>1, DisturbanceType DEF SlugFaultChanges
  <1>6. ASSUME RootChanges \/ Reprice PROVE TypeOK' /\ PassOK'
    <2>1. DiskTypeOK'
      BY <1>d, <1>6 DEF RootChanges, Reprice, DiskTypeOK
    <2> QED
      BY <1>6, <2>1, DisturbanceType DEF RootChanges, Reprice
  <1>7. ASSUME ContainmentHalt PROVE TypeOK' /\ PassOK'
    <2>1. disturbances' \in 0..MaxDisturb
      BY <1>7, ConstantsAssumption DEF ContainmentHalt, Disturb, TypeOK
    <2> QED
      BY <1>7, <2>1
         DEF ContainmentHalt, Outcomes, TypeOK, PassOK, disk, memory, pass, database, history
  <1> QED
    BY <1>1, <1>2, <1>3, <1>4, <1>5, <1>6, <1>7 DEF Environment

LEMMA RestartType ==
  TypeOK /\ PassOK /\ Restart => TypeOK' /\ PassOK'
  <1> SUFFICES ASSUME TypeOK, PassOK, Restart PROVE TypeOK' /\ PassOK'
    OBVIOUS
  <1>1. ForgetPass /\ pc' = "idle"
    BY DEF Restart
  <1>2. disturbances' \in 0..MaxDisturb
    BY ConstantsAssumption DEF Restart, Disturb, TypeOK
  <1>3. /\ fingerprints' \in [Sessions -> Fingerprint]
        /\ attempts' \in [Sessions -> Budget]
        /\ rereadSchedule' \in [Sessions -> Schedule]
        /\ last' \in [Sessions -> {"never", "read", "incomplete", "failed", "missed"}]
        /\ outcome' \in Outcomes
    BY NothingType DEF Restart, Outcomes
  <1> QED
    BY <1>1, <1>2, <1>3, ForgetPassType DEF Restart, TypeOK, disk, database

LEMMA NextType == TypeOK /\ PassOK /\ [Next]_vars => TypeOK' /\ PassOK'
  <1>1. TypeOK /\ PassOK /\ UNCHANGED vars => TypeOK' /\ PassOK'
    BY DEF TypeOK, PassOK, vars, disk, memory, pass, boot, database, history
  <1> QED
    BY <1>1, LookNoRootType, LookUnreadableRootType, LookType, EnumerateAgainType,
       EnumerateAgainFailsType, ReadTypes, SettleType, EnvironmentType, RestartType
       DEF Next, Tick

(* Every reachable state is well typed, whatever the disk, the operator    *)
(* and the process do between the cuts of a tick.                          *)
THEOREM TypeCorrect == Spec => [](TypeOK /\ PassOK)
  BY InitTypeOK, NextType, PTL DEF Spec

-----------------------------------------------------------------------------
(***************************************************************************)
(* Safety of the watcher.  CheckpointBacked and NothingLost speak of a     *)
(* watcher at rest; neither is inductive, because what a pass commits was  *)
(* read several steps earlier and what it read may have moved since.  IInv *)
(* follows the bytes through the pass: a captured fingerprint is never     *)
(* ahead of the disk, a session read whole is never behind the fingerprint *)
(* captured for it, and what is remembered is held.                        *)
(***************************************************************************)

(* The content fingerprint v stood for is in the database, or gave way to  *)
(* a write that leaves nothing to ingest.                                  *)
CoveredBy(held, now, v) ==
  v <= held \/ \E w \in EmptyAt \cap Nat : v <= w /\ w <= now
Covered(r, s, v) == CoveredBy(carried[r][s], version[r][s], v)

DiskOrdered ==
  /\ \A r \in Roots, s \in Sessions : carried[r][s] <= version[r][s]
  /\ \A r \in Roots : \A s \in here[r] : version[r][s] > 0

PassBacked ==
  pc \in {"looked", "reading"} =>
    /\ passRoot = hydratedRoot
    /\ \A s \in Sessions : next[s].v <= version[passRoot][s]
    /\ \A s \in changed : next[s].v > 0

ReadBacked ==
  pc = "reading" /\ runRoot = passRoot =>
    \A s \in refs \ (failures \cup incomplete) :
      /\ s \notin todo => Covered(passRoot, s, next[s].v)
      /\ s \in projected => next[s].v <= carried[passRoot][s]

MemoryBacked ==
  /\ hydratedRoot = None => \A s \in Sessions : fingerprints[s] = NoFp
  /\ hydratedRoot # None =>
       \A s \in Sessions \ crossed :
         attempts[s].count = 0 /\ rereadSchedule[s].gap = 0 /\ last[s] # "missed"
         => Covered(hydratedRoot, s, fingerprints[s].v)

IInv ==
  /\ TypeOK /\ PassOK
  /\ DiskOrdered /\ PassBacked /\ ReadBacked
  /\ CheckpointBacked /\ MemoryBacked /\ ExclusionsTruthful
----------------------------------------------------------------------------
LEMMA CoveredGrows ==
  ASSUME NEW held \in Nat, NEW now \in Nat, NEW v \in Nat, CoveredBy(held, now, v),
         NEW held2 \in Nat, NEW now2 \in Nat, held <= held2, now <= now2
  PROVE  CoveredBy(held2, now2, v)
  BY DEF CoveredBy

LEMMA NumberTypes ==
  ASSUME TypeOK
  PROVE  /\ \A r \in Roots, s \in Sessions :
              /\ carried[r][s] \in Nat /\ version[r][s] \in Nat
              /\ checkpoint[r][s] \in Fingerprint /\ checkpoint[r][s].v \in Nat
         /\ \A s \in Sessions : next[s].v \in Nat /\ fingerprints[s].v \in Nat
  BY ConstantsAssumption DEF TypeOK, Fingerprint

LEMMA NoFpCovered ==
  ASSUME TypeOK
  PROVE  \A r \in Roots, s \in Sessions : Covered(r, s, NoFp.v) /\ NoFp.v = 0
  BY NumberTypes DEF Covered, CoveredBy, NoFp

LEMMA InitIInv == Init => IInv
  <1> SUFFICES ASSUME Init PROVE IInv
    OBVIOUS
  <1>1. TypeOK /\ PassOK
    BY InitTypeOK
  <1>2. DiskOrdered /\ CheckpointBacked
    BY DEF Init, DiskOrdered, CheckpointBacked, NoFp
  <1>3. PassBacked /\ ReadBacked
    BY DEF Init, PassBacked, ReadBacked
  <1>4. MemoryBacked /\ ExclusionsTruthful
    BY DEF Init, MemoryBacked, ExclusionsTruthful, NoBudget, NoSchedule
  <1> QED
    BY <1>1, <1>2, <1>3, <1>4 DEF IInv

(* The disk only moves forward, and what the watcher holds stays backed.   *)
LEMMA DiskMoves ==
  ASSUME IInv, TypeOK', PassOK',
         UNCHANGED <<memory, pc, pass, database, history>>,
         \A r \in Roots, s \in Sessions : version[r][s] <= version'[r][s],
         \A r \in Roots : \A s \in here'[r] : version'[r][s] > 0
  PROVE  IInv'
  <1>1. \A r \in Roots, s \in Sessions :
          /\ version[r][s] \in Nat /\ version'[r][s] \in Nat
          /\ carried[r][s] \in Nat /\ carried'[r][s] = carried[r][s]
    BY NumberTypes, ConstantsAssumption DEF IInv, TypeOK, database
  <1>2. DiskOrdered'
    BY <1>1 DEF IInv, DiskOrdered
  <1>3. PassBacked'
    BY <1>1, NumberTypes DEF IInv, PassBacked, PassOK, memory, pass
  <1>4. \A r \in Roots, s \in Sessions, v \in Nat :
          Covered(r, s, v) => CoveredBy(carried'[r][s], version'[r][s], v)
    BY <1>1, CoveredGrows DEF Covered
  <1>5. ReadBacked'
    <2>1. \A s \in refs : next[s].v \in Nat
      BY NumberTypes DEF IInv, TypeOK
    <2> QED
      BY <1>1, <1>4, <2>1 DEF IInv, ReadBacked, PassOK, TypeOK, Covered, pass, database
  <1>6. CheckpointBacked'
    BY <1>1 DEF IInv, CheckpointBacked, database, history
  <1>7. MemoryBacked'
    <2>1. hydratedRoot # None => hydratedRoot \in Roots
      BY DEF IInv, TypeOK
    <2>2. \A s \in Sessions : fingerprints[s].v \in Nat
      BY NumberTypes DEF IInv
    <2> QED
      BY <1>4, <2>1, <2>2 DEF IInv, MemoryBacked, Covered, memory, history, database
  <1>8. ExclusionsTruthful'
    BY DEF IInv, ExclusionsTruthful, memory, history
  <1> QED
    BY <1>2, <1>3, <1>5, <1>6, <1>7, <1>8 DEF IInv

LEMMA EnvironmentIInv ==
  ASSUME IInv, Environment, ~\E s \in Sessions : ProjectionFails(s)
  PROVE  IInv'
  <1>1. TypeOK' /\ PassOK'
    BY NextType DEF IInv, Next
  <1>2. \A r \in Roots, s \in Sessions : version[r][s] \in Nat
    BY NumberTypes DEF IInv
  <1>3. ASSUME NEW r \in Roots, NEW s \in Sessions,
               Write(r, s) \/ Vanish(r, s) \/ Reappear(r, s)
        PROVE  IInv'
    <2>0. /\ version \in [Roots -> [Sessions -> 0..MaxVersion]]
          /\ here \in [Roots -> SUBSET Sessions]
      BY DEF IInv, TypeOK
    <2>1. \A q \in Roots, t \in Sessions :
            version'[q][t] = IF Write(r, s) /\ q = r /\ t = s THEN version[q][t] + 1
                             ELSE version[q][t]
      <3>1. CASE Write(r, s)
        BY <2>0, <3>1 DEF Write
      <3>2. CASE ~Write(r, s)
        BY <1>3, <3>2 DEF Vanish, Reappear
      <3> QED
        BY <3>1, <3>2
    <2>2. \A q \in Roots, t \in Sessions : version[q][t] <= version'[q][t]
      BY <1>2, <2>1
    <2>3. \A q \in Roots : \A t \in here'[q] : version'[q][t] > 0
      <3> SUFFICES ASSUME NEW q \in Roots, NEW t \in here'[q] PROVE version'[q][t] > 0
        OBVIOUS
      <3>1. t \in Sessions
        BY <1>1 DEF TypeOK
      <3>2. \/ t \in here[q]
            \/ q = r /\ t = s /\ (Write(r, s) \/ version[r][s] > 0)
        BY <1>3, <2>0 DEF Write, Vanish, Reappear
      <3>3. t \in here[q] => version[q][t] > 0
        BY DEF IInv, DiskOrdered
      <3> QED
        BY <1>2, <2>1, <3>1, <3>2, <3>3
    <2> QED
      BY <1>1, <1>3, <2>2, <2>3, DiskMoves DEF Write, Vanish, Reappear
  <1>4. ASSUME \/ \E s \in Sessions : FaultChanges(s)
               \/ \E g \in Slugs : SlugFaultChanges(g)
               \/ RootChanges \/ Reprice
        PROVE  IInv'
    <2>1. UNCHANGED <<version, here, memory, pc, pass, database, history>>
      BY <1>4 DEF FaultChanges, SlugFaultChanges, RootChanges, Reprice
    <2>2. /\ \A q \in Roots, t \in Sessions : version[q][t] <= version'[q][t]
          /\ \A q \in Roots : \A t \in here'[q] : version'[q][t] > 0
      BY <1>2, <2>1 DEF IInv, DiskOrdered
    <2> QED
      BY <1>1, <2>1, <2>2, DiskMoves
  <1>5. CASE ContainmentHalt
    <2>1. /\ pc' = "halted"
          /\ UNCHANGED <<version, here, carried, checkpoint, hydratedRoot, fingerprints,
                         attempts, rereadSchedule, last, crossed>>
      BY <1>5 DEF ContainmentHalt, disk, memory, database, history
    <2> QED
      BY <1>1, <2>1 DEF IInv, DiskOrdered, PassBacked, ReadBacked, CheckpointBacked,
                        MemoryBacked, ExclusionsTruthful, Covered
  <1> QED
    BY <1>3, <1>4, <1>5 DEF Environment

(* Reading a session: the write that is read is no older than the one the  *)
(* pass captured, because the disk only moves forward.                     *)
LEMMA ReadIInv ==
  ASSUME IInv, NEW s \in Sessions, ReadWhole(s) \/ ReadFaulted(s) \/ ProjectionFails(s)
  PROVE  IInv'
  <1>1. TypeOK' /\ PassOK'
    BY ReadTypes DEF IInv
  <1>2. /\ s \in refs /\ runRoot \in Roots /\ pc = "reading" /\ pc' = "reading"
        /\ passRoot \in Roots
        /\ UNCHANGED <<version, here, memory, passRoot, next, changed, runRoot, refs,
                       checkpoint, history>>
        /\ todo' = todo \ {s}
    BY DEF IInv, ReadWhole, ReadFaulted, ProjectionFails, TypeOK, PassOK, disk, database
  <1>3. \A r \in Roots, t \in Sessions :
          /\ version[r][t] \in Nat /\ carried[r][t] \in Nat /\ carried'[r][t] \in Nat
    BY <1>1, ConstantsAssumption DEF IInv, TypeOK
  <1>4. \A r \in Roots, t \in Sessions :
          /\ carried[r][t] <= carried'[r][t]
          /\ carried'[r][t] <= version'[r][t]
    <2>1. \/ carried' = carried
          \/ carried' = [carried EXCEPT ![runRoot][s] = version[runRoot][s]]
      BY DEF ReadWhole, ReadFaulted, ProjectionFails, database
    <2>2. CASE carried' = carried
      BY <1>2, <1>3, <2>2 DEF IInv, DiskOrdered
    <2>3. CASE carried' = [carried EXCEPT ![runRoot][s] = version[runRoot][s]]
      <3>1. carried \in [Roots -> [Sessions -> 0..MaxVersion]]
        BY DEF IInv, TypeOK
      <3>2. \A r \in Roots, t \in Sessions :
              carried'[r][t] = IF r = runRoot /\ t = s THEN version[r][t] ELSE carried[r][t]
        BY <1>2, <2>3, <3>1
      <3> QED
        BY <1>2, <1>3, <3>2 DEF IInv, DiskOrdered
    <2> QED
      BY <2>1, <2>2, <2>3
  <1>5. \A r \in Roots, t \in Sessions, v \in Nat :
          Covered(r, t, v) => CoveredBy(carried'[r][t], version'[r][t], v)
    BY <1>2, <1>3, <1>4, CoveredGrows DEF Covered
  <1>6. DiskOrdered'
    BY <1>2, <1>4 DEF IInv, DiskOrdered
  <1>7. PassBacked'
    BY <1>2 DEF IInv, PassBacked, memory
  <1>8. ReadBacked'
    <2> SUFFICES ASSUME runRoot = passRoot,
                        NEW t \in refs, t \notin failures', t \notin incomplete'
                 PROVE  /\ t \notin todo' =>
                             CoveredBy(carried'[passRoot][t], version'[passRoot][t], next[t].v)
                        /\ t \in projected' => next[t].v <= carried'[passRoot][t]
      BY <1>2 DEF ReadBacked, Covered
    <2>1. t \in Sessions /\ next[t].v \in Nat
      BY NumberTypes DEF IInv, TypeOK
    <2>2. failures \subseteq failures' /\ incomplete \subseteq incomplete'
      BY DEF ReadWhole, ReadFaulted, ProjectionFails
    <2>3. CASE t # s
      <3>1. projected' \ {s} = projected \ {s}
        BY DEF ReadWhole, ReadFaulted, ProjectionFails
      <3>2. /\ t \notin todo => Covered(passRoot, t, next[t].v)
            /\ t \in projected => next[t].v <= carried[passRoot][t]
        BY <1>2, <2>2 DEF IInv, ReadBacked
      <3>3. /\ carried[passRoot][t] <= carried'[passRoot][t]
            /\ carried[passRoot][t] \in Nat /\ carried'[passRoot][t] \in Nat
        BY <1>2, <1>3, <1>4, <2>1
      <3> QED
        BY <1>2, <1>5, <2>1, <2>3, <3>1, <3>2, <3>3
    <2>4. CASE t = s
      <3>1. ReadWhole(s)
        BY <2>4 DEF ReadFaulted, ProjectionFails
      <3>2. next[s].v <= version[passRoot][s]
        BY <1>2 DEF IInv, PassBacked
      <3>3. CASE version[runRoot][s] \in EmptyAt /\ UNCHANGED <<carried, projected>>
        <4>1. CoveredBy(carried'[passRoot][s], version'[passRoot][s], next[s].v)
          BY <1>2, <1>3, <3>2, <3>3 DEF CoveredBy
        <4>2. s \in projected => next[s].v <= carried[passRoot][s]
          BY <1>2, <2>2, <2>4 DEF IInv, ReadBacked
        <4> QED
          BY <2>4, <3>3, <4>1, <4>2
      <3>4. CASE carried' = [carried EXCEPT ![runRoot][s] = version[runRoot][s]]
        <4>1. carried'[passRoot][s] = version[passRoot][s]
          BY <1>2, <3>4 DEF IInv, TypeOK
        <4> QED
          BY <1>2, <1>3, <2>1, <2>4, <3>2, <4>1 DEF CoveredBy
      <3> QED
        BY <2>4, <3>1, <3>3, <3>4 DEF ReadWhole
    <2> QED
      BY <2>3, <2>4
  <1>9. CheckpointBacked'
    BY <1>2, <1>3, <1>4, NumberTypes DEF IInv, CheckpointBacked, history
  <1>10. MemoryBacked'
    <2>1. hydratedRoot # None => hydratedRoot \in Roots
      BY DEF IInv, TypeOK
    <2>2. \A t \in Sessions : fingerprints[t].v \in Nat
      BY NumberTypes DEF IInv
    <2> QED
      BY <1>2, <1>5, <2>1, <2>2 DEF IInv, MemoryBacked, Covered, memory, history
  <1>11. ExclusionsTruthful'
    BY <1>2 DEF IInv, ExclusionsTruthful, memory, history
  <1> QED
    BY <1>1, <1>6, <1>7, <1>8, <1>9, <1>10, <1>11 DEF IInv

LEMMA EnumerateIInv ==
  ASSUME IInv, EnumerateAgain \/ EnumerateAgainFails
  PROVE  IInv'
  <1>1. TypeOK' /\ PassOK'
    BY EnumerateAgainType, EnumerateAgainFailsType DEF IInv
  <1>2. /\ UNCHANGED <<version, here, memory, database, history>>
        /\ \/ pc' = "reading" /\ todo' = refs' /\ projected' = projected
              /\ UNCHANGED <<passRoot, next, changed>>
           \/ pc' = "idle"
    BY DEF EnumerateAgain, EnumerateAgainFails, Report, disk
  <1>3. projected = {} /\ pc = "looked"
    BY DEF IInv, PassOK, EnumerateAgain, EnumerateAgainFails
  <1>4. PassBacked' /\ ReadBacked'
    BY <1>1, <1>2, <1>3 DEF IInv, PassBacked, ReadBacked, memory
  <1>5. /\ DiskOrdered' /\ CheckpointBacked' /\ MemoryBacked' /\ ExclusionsTruthful'
    BY <1>2 DEF IInv, DiskOrdered, CheckpointBacked, MemoryBacked, ExclusionsTruthful,
                Covered, memory, database, history
  <1> QED
    BY <1>1, <1>4, <1>5 DEF IInv

LEMMA RestartIInv ==
  ASSUME IInv, Restart
  PROVE  IInv'
  <1>1. TypeOK' /\ PassOK'
    BY RestartType DEF IInv
  <1>2. /\ pc' = "idle" /\ hydratedRoot' = None
        /\ fingerprints' = [s \in Sessions |-> NoFp]
        /\ attempts' = [s \in Sessions |-> NoBudget]
        /\ rereadSchedule' = [s \in Sessions |-> NoSchedule]
        /\ UNCHANGED <<version, here, carried, checkpoint, crossed>>
    BY DEF Restart, disk, database
  <1> QED
    BY <1>1, <1>2 DEF IInv, DiskOrdered, PassBacked, ReadBacked, CheckpointBacked,
                      MemoryBacked, ExclusionsTruthful, NoBudget, NoSchedule

(* What a look keeps of the budgets and the schedules.                     *)
LEMMA LookBudgets ==
  ASSUME IInv, root \in Roots, NEW s \in Sessions
  PROVE  /\ BudgetsAfterHydration[s].count \in {0, attempts[s].count}
         /\ Budgets[s].count \in {0, BudgetsAfterHydration[s].count}
         /\ ~Repriced => Budgets[s].count = BudgetsAfterHydration[s].count
         /\ Schedules[s].gap = rereadSchedule[s].gap
  <1>1. /\ BudgetsAfterHydration \in [Sessions -> Budget]
        /\ rereadSchedule \in [Sessions -> Schedule]
    BY LookTypes DEF IInv, TypeOK
  <1>2. BudgetsAfterHydration[s].count \in {0, attempts[s].count}
    BY DEF BudgetsAfterHydration, NoBudget
  <1>3. /\ Budgets[s].count \in {0, BudgetsAfterHydration[s].count}
        /\ ~Repriced => Budgets[s].count = BudgetsAfterHydration[s].count
    BY <1>1, ElapsedType DEF Budgets, NoBudget
  <1>4. Schedules[s].gap = rereadSchedule[s].gap
    BY <1>1, ElapsedType DEF Schedules
  <1> QED
    BY <1>2, <1>3, <1>4

(* A fingerprint a look starts from, hydrated or remembered, is covered    *)
(* unless a budget, a schedule or a miss still says otherwise.             *)
LEMMA KnownCovered ==
  ASSUME IInv, root \in Roots, NEW t \in Trusted, NEW s \in Sessions \ crossed
  PROVE  \/ Covered(root, s, Known(t)[s].v)
         \/ ~Repriced /\ BudgetsAfterHydration[s].count > 0
         \/ ~Adopting /\ (rereadSchedule[s].gap > 0 \/ last[s] = "missed")
  <1>1. Covered(root, s, NoFp.v)
    BY NoFpCovered DEF IInv
  <1>2. CASE Readmitted(s)
    BY <1>1, <1>2 DEF Known
  <1>3. CASE ~Readmitted(s) /\ Adopting
    <2>1. Known(t)[s] = t[s]
      BY <1>3 DEF Known
    <2>2. t[s] = checkpoint[root][s] \/ t[s] = NoFp
      BY DEF Trusted
    <2>3. Covered(root, s, checkpoint[root][s].v)
      BY DEF IInv, CheckpointBacked, Covered, CoveredBy
    <2> QED
      BY <1>1, <2>1, <2>2, <2>3
  <1>4. CASE ~Readmitted(s) /\ ~Adopting
    <2>1. Known(t)[s] = fingerprints[s] /\ hydratedRoot = root
      BY <1>4 DEF Known, Adopting
    <2>2. \/ Covered(root, s, fingerprints[s].v)
          \/ attempts[s].count # 0 \/ rereadSchedule[s].gap # 0 \/ last[s] = "missed"
      BY <2>1, NoneIsNoRoot DEF IInv, MemoryBacked
    <2>3. attempts[s].count \in Nat /\ rereadSchedule[s].gap \in Nat
      BY ConstantsAssumption DEF IInv, TypeOK, Budget, Schedule
    <2>4. BudgetsAfterHydration[s].count = attempts[s].count
      BY <1>4 DEF BudgetsAfterHydration
    <2>5. attempts[s].count # 0 => ~Repriced
      BY <1>4, <2>3, <2>4 DEF Readmitted
    <2> QED
      BY <1>4, <2>1, <2>2, <2>3, <2>4, <2>5
  <1> QED
    BY <1>2, <1>3, <1>4

LEMMA LookNoRootIInv ==
  ASSUME IInv, LookNoRoot
  PROVE  IInv'
  <1>1. TypeOK' /\ PassOK'
    BY LookNoRootType DEF IInv
  <1>2. /\ pc' = "idle" /\ hydratedRoot' = None
        /\ fingerprints' = [s \in Sessions |-> NoFp]
        /\ attempts' = [s \in Sessions |-> NoBudget]
        /\ rereadSchedule' = [s \in Sessions |-> NoSchedule]
        /\ UNCHANGED <<version, here, carried, checkpoint, crossed>>
    BY DEF LookNoRoot, Report, disk, database, history
  <1> QED
    BY <1>1, <1>2 DEF IInv, DiskOrdered, PassBacked, ReadBacked, CheckpointBacked,
                      MemoryBacked, ExclusionsTruthful, NoBudget, NoSchedule

LEMMA LookUnreadableRootIInv ==
  ASSUME IInv, LookUnreadableRoot
  PROVE  IInv'
  <1>1. TypeOK' /\ PassOK' /\ root \in Roots
    BY LookUnreadableRootType DEF IInv, LookUnreadableRoot, TypeOK
  <1>2. PICK t \in Trusted : fingerprints' = Known(t)
    BY DEF LookUnreadableRoot
  <1>3. /\ pc' = "idle" /\ hydratedRoot' = root
        /\ attempts' = IF Repriced THEN [s \in Sessions |-> NoBudget]
                       ELSE BudgetsAfterHydration
        /\ UNCHANGED <<version, here, carried, checkpoint, crossed, last, rereadSchedule>>
    BY DEF LookUnreadableRoot, Report, disk, database, history
  <1>4. /\ DiskOrdered' /\ CheckpointBacked' /\ PassBacked' /\ ReadBacked'
    BY <1>3 DEF IInv, DiskOrdered, CheckpointBacked, PassBacked, ReadBacked
  <1>5. MemoryBacked'
    <2> SUFFICES ASSUME NEW s \in Sessions \ crossed,
                        attempts'[s].count = 0, rereadSchedule[s].gap = 0,
                        last[s] # "missed"
                 PROVE  Covered(root, s, Known(t)[s].v)
      BY <1>1, <1>2, <1>3, NoneIsNoRoot DEF MemoryBacked, Covered
    <2> QED
      BY <1>1, <1>3, KnownCovered
  <1>6. ExclusionsTruthful'
    BY <1>1, <1>3, LookBudgets DEF IInv, ExclusionsTruthful, NoBudget
  <1> QED
    BY <1>1, <1>4, <1>5, <1>6 DEF IInv

LEMMA LookIInv ==
  ASSUME IInv, Look
  PROVE  IInv'
  <1>1. TypeOK' /\ PassOK' /\ root \in Roots
    BY LookType DEF IInv, Look, TypeOK
  <1>2. PICK t \in Trusted :
          LET kept == AccountedFor(Known(t)) IN
          /\ fingerprints' = [s \in Sessions |-> IF s \in kept THEN Known(t)[s] ELSE NoFp]
          /\ attempts' = [s \in Sessions |-> IF s \in kept THEN Budgets[s] ELSE NoBudget]
          /\ rereadSchedule' =
               [s \in Sessions |-> IF s \in kept THEN Schedules[s] ELSE NoSchedule]
          /\ \/ pc' = "idle"
             \/ /\ \E admitted \in Admissions(Due(Known(t))) : changed' = admitted
                /\ passRoot' = root
                /\ next' = [s \in Sessions |->
                              IF s \in Visible(root) THEN FingerprintNow(root, s) ELSE NoFp]
                /\ pc' = "looked"
    BY DEF Look, Report
  <1>3. /\ hydratedRoot' = root
        /\ UNCHANGED <<version, here, carried, checkpoint, crossed, last>>
    BY DEF Look, disk, database, history
  <1>4. DiskOrdered' /\ CheckpointBacked'
    BY <1>3 DEF IInv, DiskOrdered, CheckpointBacked
  <1>5. PassBacked' /\ ReadBacked'
    <2>1. CASE pc' = "idle"
      BY <2>1 DEF PassBacked, ReadBacked
    <2>2. CASE /\ \E admitted \in Admissions(Due(Known(t))) : changed' = admitted
               /\ passRoot' = root
               /\ next' = [s \in Sessions |->
                             IF s \in Visible(root) THEN FingerprintNow(root, s) ELSE NoFp]
               /\ pc' = "looked"
      <3>1. changed' \subseteq Visible(root)
        BY <2>2 DEF Admissions, Due
      <3>2. \A s \in Sessions :
              /\ s \in Visible(root) => next'[s].v = version[root][s]
              /\ s \notin Visible(root) => next'[s].v = 0
        BY <2>2 DEF FingerprintNow, NoFp
      <3>3. \A s \in Sessions : version[root][s] \in Nat
        BY <1>1, NumberTypes DEF IInv
      <3>4. \A s \in Visible(root) : version[root][s] > 0 /\ s \in Sessions
        BY <1>1 DEF IInv, TypeOK, DiskOrdered, Visible
      <3> QED
        BY <1>3, <2>2, <3>1, <3>2, <3>3, <3>4 DEF PassBacked, ReadBacked
    <2> QED
      BY <1>2, <2>1, <2>2
  <1>6. MemoryBacked'
    <2> SUFFICES ASSUME NEW s \in Sessions \ crossed,
                        attempts'[s].count = 0, rereadSchedule'[s].gap = 0,
                        last[s] # "missed"
                 PROVE  Covered(root, s, fingerprints'[s].v)
      BY <1>1, <1>3, NoneIsNoRoot DEF MemoryBacked, Covered
    <2>1. CASE s \notin AccountedFor(Known(t))
      BY <1>1, <1>2, <2>1, NoFpCovered DEF IInv
    <2>2. CASE s \in AccountedFor(Known(t))
      <3>1. /\ fingerprints'[s] = Known(t)[s]
            /\ Budgets[s].count = 0 /\ Schedules[s].gap = 0
        BY <1>2, <2>2
      <3> QED
        BY <1>1, <3>1, KnownCovered, LookBudgets
    <2> QED
      BY <2>1, <2>2
  <1>7. ExclusionsTruthful'
    <2> SUFFICES ASSUME NEW s \in Sessions
                 PROVE  /\ attempts'[s].count > 0 => last[s] = "failed"
                        /\ rereadSchedule'[s].gap > 0 => last[s] = "incomplete"
      BY <1>3 DEF ExclusionsTruthful
    <2>1. /\ attempts'[s].count \in {0, attempts[s].count}
          /\ rereadSchedule'[s].gap \in {0, rereadSchedule[s].gap}
      BY <1>1, <1>2, LookBudgets DEF NoBudget, NoSchedule
    <2> QED
      BY <2>1 DEF IInv, ExclusionsTruthful
  <1> QED
    BY <1>1, <1>4, <1>5, <1>6, <1>7 DEF IInv

(* Settling: what is committed was read whole, and what was not read whole *)
(* goes on a budget or a schedule, or is marked missed.                    *)
LEMMA SettleIInv ==
  ASSUME IInv, Settle
  PROVE  IInv'
  <1>1. TypeOK' /\ PassOK'
    BY SettleType DEF IInv
  <1>2. /\ pc = "reading" /\ todo = {} /\ pc' = "idle"
        /\ passRoot \in Roots /\ hydratedRoot = passRoot /\ hydratedRoot' = passRoot
        /\ UNCHANGED <<version, here, carried>>
    BY DEF IInv, PassOK, PassBacked, Settle, Report, disk
  <1>3. DiskOrdered' /\ PassBacked' /\ ReadBacked'
    BY <1>2 DEF IInv, DiskOrdered, PassBacked, ReadBacked
  <1>4. \A s \in Sessions :
          SettledBudget(s).count = 0 =>
            (s \in changed => s \notin failures /\ SettledBudget(s) = NoBudget)
    <2>1. \A s \in Sessions : attempts[s] \in Budget
      BY DEF IInv, TypeOK
    <2> QED
      BY <2>1, FailedAgainType DEF SettledBudget
  <1>5. \A s \in changed : s \in incomplete \ failures => SettledSchedule(s).gap > 0
    <2>1. \A s \in changed : rereadSchedule[s].gap \in 0..BackoffCap
      BY DEF IInv, TypeOK, Schedule
    <2>2. \A s \in changed : Doubled(rereadSchedule[s].gap) > 0
      BY <2>1, DoubledType, ConstantsAssumption
    <2> QED
      BY <2>2 DEF SettledSchedule
  <1>6. /\ crossed \subseteq crossed'
        /\ \A r \in Roots, s \in Sessions : s \notin crossed' =>
              checkpoint'[r][s] \in {NoFp, checkpoint[r][s]} \cup
                (IF r = passRoot /\ runRoot = passRoot /\ s \in Checkpointable
                 THEN {next[s]} ELSE {})
    <2>1. CASE UNCHANGED <<checkpoint, crossed>>
      BY <2>1
    <2>2. CASE /\ checkpoint' =
                    [checkpoint EXCEPT ![passRoot] =
                       [s \in Sessions |->
                          IF s \in Checkpointable THEN next[s]
                          ELSE IF s \in present THEN @[s] ELSE NoFp]]
               /\ crossed' = IF runRoot = passRoot THEN crossed
                             ELSE crossed \cup Checkpointable
      <3>1. \A r \in Roots, s \in Sessions :
              checkpoint'[r][s] = IF r # passRoot THEN checkpoint[r][s]
                                  ELSE IF s \in Checkpointable THEN next[s]
                                  ELSE IF s \in present THEN checkpoint[r][s] ELSE NoFp
        BY <2>2 DEF IInv, TypeOK
      <3> QED
        BY <2>2, <3>1
    <2> QED
      BY <2>1, <2>2 DEF Settle, CommitCheckpoint
  <1>7. CheckpointBacked'
    <2> SUFFICES ASSUME NEW r \in Roots, NEW s \in Sessions, s \notin crossed'
                 PROVE  checkpoint'[r][s].v <= carried[r][s]
      BY <1>2 DEF CheckpointBacked
    <2>1. carried[r][s] \in Nat /\ NoFp.v = 0
      BY NumberTypes DEF IInv, NoFp
    <2>2. checkpoint[r][s].v <= carried[r][s]
      BY <1>6 DEF IInv, CheckpointBacked
    <2>3. ASSUME runRoot = passRoot, s \in Checkpointable
          PROVE  next[s].v <= carried[passRoot][s]
      BY <1>2, <2>3 DEF IInv, TypeOK, ReadBacked, Checkpointable
    <2> QED
      BY <1>6, <2>1, <2>2, <2>3
  <1>8. MemoryBacked'
    <2> SUFFICES ASSUME NEW s \in Sessions, s \notin crossed',
                        attempts'[s].count = 0, rereadSchedule'[s].gap = 0,
                        last'[s] # "missed"
                 PROVE  Covered(passRoot, s, fingerprints'[s].v)
      BY <1>2, NoneIsNoRoot DEF MemoryBacked, Covered
    <2>1. /\ attempts'[s] = SettledBudget(s) /\ rereadSchedule'[s] = SettledSchedule(s)
          /\ last'[s] = LastOutcome(s)
          /\ fingerprints'[s] = IF Committed(s) THEN next[s] ELSE fingerprints[s]
      BY DEF Settle
    <2>2. CASE s \notin changed
      <3>1. /\ attempts[s].count = 0 /\ rereadSchedule[s].gap = 0 /\ last[s] # "missed"
            /\ fingerprints'[s] = fingerprints[s]
        BY <2>1, <2>2 DEF SettledBudget, SettledSchedule, LastOutcome, Committed
      <3> QED
        BY <1>2, <1>6, <3>1, NoneIsNoRoot DEF IInv, MemoryBacked
    <2>3. CASE s \in changed
      <3>1. s \notin failures /\ s \notin incomplete
        BY <1>4, <1>5, <2>1, <2>3
      <3>2. s \in refs /\ runRoot = passRoot
        BY <2>1, <2>3, <3>1 DEF LastOutcome
      <3>3. fingerprints'[s] = next[s]
        BY <2>1, <2>3, <3>1 DEF Committed
      <3> QED
        BY <1>2, <3>1, <3>2, <3>3 DEF IInv, ReadBacked
    <2> QED
      BY <2>2, <2>3
  <1>9. ExclusionsTruthful'
    <2> SUFFICES ASSUME NEW s \in Sessions
                 PROVE  /\ SettledBudget(s).count > 0 => LastOutcome(s) = "failed"
                        /\ SettledSchedule(s).gap > 0 => LastOutcome(s) = "incomplete"
      BY DEF ExclusionsTruthful, Settle
    <2> QED
      BY DEF IInv, ExclusionsTruthful, SettledBudget, SettledSchedule, LastOutcome,
             NoBudget, NoSchedule
  <1> QED
    BY <1>1, <1>3, <1>7, <1>8, <1>9 DEF IInv

LEMMA NextIInv == IInv /\ [Next]_vars => IInv'
  <1> SUFFICES ASSUME IInv, [Next]_vars PROVE IInv'
    OBVIOUS
  <1>1. CASE UNCHANGED vars
    <2>1. TypeOK' /\ PassOK'
      BY <1>1, NextType DEF IInv
    <2> QED
      BY <1>1, <2>1 DEF IInv, DiskOrdered, PassBacked, ReadBacked, CheckpointBacked,
         MemoryBacked, ExclusionsTruthful, Covered, vars, disk, memory, pass, boot,
         database, history
  <1>2. CASE \E s \in Sessions : ReadWhole(s) \/ ReadFaulted(s) \/ ProjectionFails(s)
    BY <1>2, ReadIInv
  <1>3. CASE Environment /\ ~\E s \in Sessions : ProjectionFails(s)
    BY <1>3, EnvironmentIInv
  <1>4. CASE EnumerateAgain \/ EnumerateAgainFails
    BY <1>4, EnumerateIInv
  <1> QED
    BY <1>1, <1>2, <1>3, <1>4, LookNoRootIInv, LookUnreadableRootIInv, LookIInv,
       SettleIInv, RestartIInv DEF Next, Tick

THEOREM Inductive == Spec => []IInv
  BY InitIInv, NextIInv, PTL DEF Spec
----------------------------------------------------------------------------
(* At every cut a crash can fall on, a checkpoint row names a write whose  *)
(* content the database already holds.                                     *)
THEOREM CheckpointIsBacked == Spec => []CheckpointBacked
  <1>1. IInv => CheckpointBacked
    BY DEF IInv
  <1> QED
    BY <1>1, Inductive, PTL

(* What /api/health counts as excluded or awaiting a re-read is exactly    *)
(* what its latest pass failed on, or could not read whole.                *)
THEOREM ExclusionsAreTruthful == Spec => []ExclusionsTruthful
  <1>1. IInv => ExclusionsTruthful
    BY DEF IInv
  <1> QED
    BY <1>1, Inductive, PTL

(* A session the watcher takes as read is in the database as it stands on  *)
(* the disk, over any interleaving of writers, faults, roots and crashes.  *)
LEMMA IInvImpliesNothingLost == IInv => NothingLost
  <1> SUFFICES ASSUME IInv, NEW s \in Sessions, s \notin crossed,
                      TakenAsRead(s), last[s] # "missed"
               PROVE  Held(s)
    BY DEF NothingLost
  <1>1. root \in Roots /\ hydratedRoot = root /\ fingerprints[s].v = version[root][s]
    BY DEF IInv, TypeOK, TakenAsRead, FingerprintNow
  <1>2. CoveredBy(carried[root][s], version[root][s], version[root][s])
    BY <1>1, NoneIsNoRoot DEF IInv, MemoryBacked, TakenAsRead, Covered
  <1>3. /\ carried[root][s] \in Nat /\ version[root][s] \in Nat
        /\ carried[root][s] <= version[root][s]
    BY <1>1, NumberTypes DEF IInv, DiskOrdered
  <1>4. CASE version[root][s] <= carried[root][s]
    BY <1>3, <1>4 DEF Held
  <1>5. CASE \E w \in EmptyAt \cap Nat : version[root][s] <= w /\ w <= version[root][s]
    <2>1. PICK w \in EmptyAt \cap Nat : version[root][s] <= w /\ w <= version[root][s]
      BY <1>5
    <2>2. w = version[root][s]
      BY <1>3, <2>1
    <2> QED
      BY <2>1, <2>2 DEF Held
  <1> QED
    BY <1>2, <1>4, <1>5 DEF CoveredBy

THEOREM NothingIsLost == Spec => []NothingLost
  BY IInvImpliesNothingLost, Inductive, PTL

(* A look that cannot probe a slug or a transcript keeps the fingerprint   *)
(* of every session it might still be holding.                             *)
LEMMA LookForgetsNothing ==
  ASSUME IInv, Look, NEW s \in Sessions, fingerprints[s] # NoFp, fingerprints'[s] = NoFp
  PROVE  \/ hydratedRoot' # hydratedRoot
         \/ pricingSeen' # pricingSeen
         \/ s \notin here[root]
  <1> SUFFICES ASSUME hydratedRoot' = hydratedRoot, pricingSeen' = pricingSeen,
                      s \in here[root]
               PROVE  FALSE
    OBVIOUS
  <1>1. PICK t \in Trusted :
          fingerprints' = [q \in Sessions |-> IF q \in AccountedFor(Known(t))
                                             THEN Known(t)[q] ELSE NoFp]
    BY DEF Look
  <1>2. ~Adopting /\ ~Repriced
    BY DEF Look, Adopting, Repriced
  <1>3. Known(t)[s] = fingerprints[s] /\ KnownSlugs = slugs
    BY <1>2 DEF Known, Readmitted, KnownSlugs
  <1>4. s \notin AccountedFor(Known(t))
    BY <1>1, <1>3
  <1>5. s \in Visible(root) \/ (SomethingUnreadable(root) /\ Unreadable(root, s))
    <2>1. SlugOf[s] \in Slugs
      BY ConstantsAssumption
    <2> QED
      BY <2>1 DEF Visible, SomethingUnreadable, Unreadable
  <1> QED
    BY <1>3, <1>4, <1>5 DEF AccountedFor

THEOREM FaultsForgetNothing == Spec => FaultForgetsNothing
  <1>1. ASSUME IInv, [Next]_vars, NEW s \in Sessions,
               fingerprints[s] # NoFp, fingerprints'[s] = NoFp
        PROVE  \/ hydratedRoot' # hydratedRoot
               \/ pricingSeen' # pricingSeen
               \/ s \notin here[root]
    <2>1. hydratedRoot # None
      BY <1>1 DEF IInv, MemoryBacked
    <2>2. CASE Look
      BY <1>1, <2>2, LookForgetsNothing
    <2>3. CASE LookNoRoot \/ Restart
      BY <2>1, <2>3 DEF LookNoRoot, Restart
    <2>4. CASE LookUnreadableRoot
      <3>1. PICK t \in Trusted : fingerprints' = Known(t)
        BY <2>4 DEF LookUnreadableRoot
      <3>2. hydratedRoot' = root /\ pricingSeen' = price
        BY <2>4 DEF LookUnreadableRoot
      <3>3. ~Adopting /\ ~Repriced => Known(t)[s] = fingerprints[s]
        BY DEF Known, Readmitted
      <3>4. Adopting => hydratedRoot' # hydratedRoot
        BY <3>2 DEF Adopting
      <3>5. Repriced => pricingSeen' # pricingSeen
        BY <3>2 DEF Repriced
      <3>6. Known(t)[s] # fingerprints[s]
        BY <1>1, <3>1
      <3>7. Adopting \/ Repriced
        BY <3>3, <3>6
      <3> QED
        BY <3>4, <3>5, <3>7
    <2>5. CASE Settle
      <3>0. \A q \in changed : next[q].v > 0
        BY <1>1, <2>5 DEF IInv, PassBacked, Settle
      <3>1. \A q \in changed : next[q] # NoFp
        BY <3>0 DEF NoFp
      <3>2. fingerprints'[s] = IF Committed(s) THEN next[s] ELSE fingerprints[s]
        BY <2>5 DEF Settle
      <3>3. Committed(s) => s \in changed
        BY DEF Committed
      <3> QED
        BY <1>1, <3>1, <3>2, <3>3
    <2>6. CASE UNCHANGED memory
      BY <1>1, <2>6 DEF memory
    <2>7. \/ Look \/ LookNoRoot \/ Restart \/ LookUnreadableRoot \/ Settle
          \/ UNCHANGED memory
      BY <1>1 DEF Next, Tick, Environment, vars, EnumerateAgain, EnumerateAgainFails,
         ReadWhole, ReadFaulted, ProjectionFails, Write, Vanish, Reappear, FaultChanges,
         SlugFaultChanges, RootChanges, Reprice, ContainmentHalt
    <2> QED
      BY <2>2, <2>3, <2>4, <2>5, <2>6, <2>7
  <1>2. IInv /\ [Next]_vars =>
          [\A s \in Sessions :
             fingerprints[s] # NoFp /\ fingerprints'[s] = NoFp =>
               \/ hydratedRoot' # hydratedRoot
               \/ pricingSeen' # pricingSeen
               \/ s \notin here[root]]_vars
    BY <1>1
  <1> QED
    BY <1>2, Inductive, PTL DEF Spec, FaultForgetsNothing


-----------------------------------------------------------------------------
(* Beside the analysis the watcher does what it does alone, so what was    *)
(* proved of it holds of the two.                                          *)
THEOREM WatchesAlone == SweepSpec => Spec
<1>1. SweepInit => Init
  BY DEF SweepInit, WatcherParked
<1>2. [SweepNext]_all => [Next]_vars
  BY DEF SweepNext, all, vars
<1> QED BY <1>1, <1>2, PTL DEF SweepSpec, Spec

(* A lookup that nothing disturbed still finds its copy; an answer stays   *)
(* what it was while nothing moves.                                        *)
CopiesHeld == \E held \in SUBSET Projects : copies \in [held -> Versions]

LookupStands ==
  request # None =>
    /\ DOMAIN request = {"slug", "named", "rested"}
    /\ request.rested => request.slug \in Costs!Readable

AInv == CopiesHeld /\ LookupStands /\ AnswerHonest

LEMMA LeastProject ==
  ASSUME NEW S \in SUBSET Projects, S # {}
  PROVE  Costs!Min(S) \in S
<1>1. S \subseteq Nat /\ IsWellFoundedOn(OpToRel(<, Nat), Nat)
  BY ProjectsAssumption, NatLessThanWellFounded
<1>2. \E x \in S : \A y \in S : <<y, x>> \notin OpToRel(<, Nat)
  <2> DEFINE R == OpToRel(<, Nat)
  <2>1. IsWellFoundedOn(R, Nat)
    BY <1>1
  <2>2. \E x \in S : \A y \in S : ~ (<<y, x>> \in R)
    <3> HIDE DEF R
    <3> QED BY <1>1, <2>1, WFMin
  <2> QED BY <2>2
<1>3. PICK x \in S : \A y \in S : <<y, x>> \notin OpToRel(<, Nat)
  BY <1>2
<1>4. ASSUME NEW y \in S PROVE x <= y
  <2>1. y \in Nat /\ x \in Nat
    BY <1>1
  <2>2. CASE y < x
    <3>1. <<y, x>> \in OpToRel(<, Nat)
      BY <2>1, <2>2 DEF OpToRel
    <3> QED BY <1>3, <3>1
  <2> QED BY <2>1, <2>2
<1> QED BY <1>4 DEF Costs!Min

LEMMA TranscriptKinds ==
  \A v \in Versions : v.is \in {"empty", "poisoned", "whole"}
  BY TranscriptsAssumption DEF Costs!Configured

LEMMA MovesAnswer ==
  ASSUME CopiesHeld', LookupStands, Costs!Disturb
  PROVE  AInv'
  BY DEF AInv, AnswerHonest, Costs!AnswerHonest, LookupStands, Costs!Disturb

LEMMA UserActs ==
  ASSUME AInv, NEW s \in Projects, Costs!Grow(s) \/ Costs!RemoveCopy(s)
                 \/ (\E t \in Projects : Costs!Copy(s, t))
  PROVE  AInv'
<1>1. Costs!Disturb
  BY DEF Costs!Grow, Costs!RemoveCopy, Costs!Copy
<1>2. CopiesHeld'
  <2>1. PICK held \in SUBSET Projects : copies \in [held -> Versions]
    BY DEF AInv, CopiesHeld
  <2>2. CASE Costs!Grow(s)
    <3>1. PICK w \in Versions :
            copies' = [x \in held \cup {s} |-> IF x = s THEN w ELSE copies[x]]
      BY <2>1, <2>2 DEF Costs!Grow, Costs!Hold
    <3> QED BY <2>1, <3>1 DEF CopiesHeld
  <2>3. CASE \E t \in Projects : Costs!Copy(s, t)
    <3>1. PICK t \in Projects : Costs!Copy(s, t)
      BY <2>3
    <3>2. copies' = [x \in held \cup {t} |-> IF x = t THEN copies[s] ELSE copies[x]]
          /\ s \in held
      BY <2>1, <3>1 DEF Costs!Copy, Costs!Hold
    <3> QED BY <2>1, <3>2 DEF CopiesHeld
  <2>4. CASE Costs!RemoveCopy(s)
    <3>1. copies' = [x \in held \ {s} |-> copies[x]]
      BY <2>1, <2>4 DEF Costs!RemoveCopy, Costs!Hold
    <3> QED BY <2>1, <3>1 DEF CopiesHeld
  <2> QED BY <2>2, <2>3, <2>4
<1> QED BY <1>1, <1>2, MovesAnswer DEF AInv

LEMMA FaultsPass ==
  ASSUME AInv, NEW x, Costs!Hide(x) \/ Costs!Heal
  PROVE  AInv'
<1>1. Costs!Disturb /\ CopiesHeld'
  BY DEF Costs!Hide, Costs!Heal, AInv, CopiesHeld
<1> QED BY <1>1, MovesAnswer DEF AInv

(* A lookup that is answered at once is answered from what it saw.         *)
LEMMA AskAnswers ==
  ASSUME AInv, NEW named, Costs!Ask(named)
  PROVE  AInv'
<1>1. CopiesHeld'
  BY DEF AInv, CopiesHeld, Costs!Ask, Costs!Replies, Costs!Reads
<1>2. PICK held \in SUBSET Projects : copies \in [held -> Versions]
  BY DEF AInv, CopiesHeld
<1>3. UNCHANGED <<copies, hidden, rejected>>
  BY DEF Costs!Ask, Costs!Replies, Costs!Reads
<1>4. Costs!Readable' = Costs!Readable
  BY <1>3 DEF Costs!Readable, Costs!Shut, Costs!Unprobeable
<1>5. ASSUME NEW is, Costs!Replies(Costs!Reply(is)),
             \/ is = "rejected" /\ rejected
             \/ is = "unknown" /\ hidden # {}
             \/ is = "not found" /\ copies = << >> /\ ~rejected
      PROVE  AInv'
  <2>1. answer'.is = is /\ is \in {"rejected", "unknown", "not found"} /\ request' = None
    BY <1>5 DEF Costs!Replies, Costs!Reply
  <2>2. Costs!AnswerHonest'
    BY <1>3, <1>5, <2>1 DEF Costs!AnswerHonest
  <2> QED BY <1>1, <2>1, <2>2 DEF AInv, AnswerHonest, LookupStands
<1>6. ASSUME NEW s \in Costs!Readable, Costs!Reads(s, named)
      PROVE  AInv'
  BY <1>1, <1>4, <1>6
     DEF Costs!Reads, AInv, AnswerHonest, Costs!AnswerHonest, LookupStands
<1>7. CASE row = None /\ rejected /\ Costs!Replies(Costs!Reply("rejected"))
  BY <1>5, <1>7
<1>8. CASE Costs!Hinted = "hit" /\ Costs!Reads(row.slug, named)
  BY <1>6, <1>8 DEF Costs!Hinted, Costs!Readable
<1>9. CASE Costs!Hinted = "unknown" /\ Costs!Replies(Costs!Reply("unknown"))
  <2>1. hidden # {}
    BY <1>9 DEF Costs!Hinted, Costs!Shut, Costs!Unprobeable
  <2> QED BY <1>5, <1>9, <2>1
<1>10. CASE Costs!Enumerated = "listed" /\ Costs!Reads(Costs!Min(Costs!Listed), named)
  <2>1. Costs!Listed \in SUBSET Projects /\ Costs!Listed # {}
    BY <1>2, <1>10 DEF Costs!Enumerated, Costs!Listed, Costs!Verdict
  <2>2. Costs!Min(Costs!Listed) \in Costs!Readable
    BY <2>1, LeastProject DEF Costs!Listed, Costs!Readable, Costs!Unlistable
  <2> QED BY <1>6, <1>10, <2>2
<1>11. CASE Costs!Enumerated = "unknown" /\ Costs!Replies(Costs!Reply("unknown"))
  <2>1. hidden # {}
    BY <1>11 DEF Costs!Enumerated, Costs!Verdict, Costs!Unlistable, Costs!Shut, Costs!Unprobeable
  <2> QED BY <1>5, <1>11, <2>1
<1>12. CASE /\ Costs!Enumerated = "not found"
            /\ Costs!Replies(Costs!Reply(IF rejected THEN "rejected" ELSE "not found"))
  <2>1. Costs!Listed = {} /\ Costs!Unlistable = {} /\ Costs!Unprobeable = {}
    BY <1>12 DEF Costs!Enumerated, Costs!Verdict
  <2>2. DOMAIN copies = {}
    BY <2>1 DEF Costs!Listed
  <2>3. copies = << >>
    BY <1>2, <2>2
  <2> QED BY <1>5, <1>12, <2>3
<1> QED BY <1>7, <1>8, <1>9, <1>10, <1>11, <1>12 DEF Costs!Ask

(* What is analysed is the copy that was found, as it was found.           *)
LEMMA AnalyseAnswers ==
  ASSUME AInv, Costs!Analyse
  PROVE  AInv'
<1> DEFINE s == request.slug
           is == Costs!Outcome(s, request.named).is
<1>1. CopiesHeld' /\ request' = None /\ UNCHANGED <<copies, hidden, rejected>>
  BY DEF AInv, CopiesHeld, Costs!Analyse, Costs!Replies
<1>2. CASE ~request.rested
  BY <1>1, <1>2 DEF Costs!Analyse, Costs!Replies, AInv, AnswerHonest, Costs!AnswerHonest, LookupStands
<1>3. CASE request.rested
  <2>1. s \in Costs!Readable /\ s \in DOMAIN copies
    BY <1>3 DEF AInv, LookupStands, Costs!Analyse, Costs!Readable
  <2>2. copies[s].is \in {"empty", "poisoned", "whole"}
    BY <2>1, TranscriptKinds DEF AInv, CopiesHeld
  <2>3. Costs!Readable' = Costs!Readable
    BY <1>1 DEF Costs!Readable, Costs!Shut, Costs!Unprobeable
  <2>4. answer' = Costs!Outcome(s, request.named)
    BY <1>3 DEF Costs!Analyse, Costs!Replies
  <2>5. \A v, n : Costs!Figures(v, n)' = Costs!Figures(v, n)
    OBVIOUS
  <2>6. /\ is \in {"empty", "unparsable", "unpriceable", "figures"}
        /\ is = "empty" => copies[s].is = "empty"
        /\ is = "unparsable" => copies[s].is = "poisoned"
        /\ is \in {"unpriceable", "figures"} =>
             /\ copies[s].is = "whole"
             /\ Costs!Outcome(s, request.named).figures = Costs!Figures(copies[s], request.named)
        /\ Costs!Outcome(s, request.named).named = request.named
    BY <2>1, <2>2 DEF Costs!Outcome
  <2>7. Costs!AnswerHonest'
    BY <1>1, <2>1, <2>3, <2>4, <2>6 DEF Costs!AnswerHonest
  <2> QED BY <1>1, <2>7 DEF AInv, AnswerHonest, LookupStands
<1> QED BY <1>2, <1>3

LEMMA StoreMoves ==
  ASSUME AInv, Costs!Ingest \/ Costs!Forget \/ Costs!Again
  PROVE  AInv'
<1>1. /\ answer' = None /\ UNCHANGED <<copies, hidden, request>>
  BY DEF Costs!Ingest, Costs!Forget, Costs!Again
<1>2. Costs!Readable' = Costs!Readable
  BY <1>1 DEF Costs!Readable, Costs!Shut, Costs!Unprobeable
<1> QED BY <1>1, <1>2 DEF AInv, CopiesHeld, LookupStands, AnswerHonest, Costs!AnswerHonest

LEMMA SweepAInv == AInv /\ [SweepNext]_all => AInv'
<1> SUFFICES ASSUME AInv, [SweepNext]_all PROVE AInv'
  OBVIOUS
<1>1. CASE UNCHANGED analysis
  BY <1>1 DEF analysis, AInv, CopiesHeld, LookupStands, AnswerHonest, Costs!AnswerHonest,
              Costs!Readable, Costs!Shut, Costs!Unprobeable
<1>2. CASE Costs!Next
  BY <1>2, UserActs, FaultsPass, AskAnswers, AnalyseAnswers, StoreMoves DEF Costs!Next
<1> QED BY <1>1, <1>2 DEF SweepNext, all

LEMMA SweepAInvInit == SweepInit => AInv
<1> SUFFICES ASSUME SweepInit PROVE AInv
  OBVIOUS
<1>1. copies = << >> /\ request = None /\ answer = None
  BY DEF SweepInit, Costs!Init
<1>2. {} \in SUBSET Projects /\ copies \in [{} -> Versions]
  BY <1>1
<1>3. CopiesHeld
  BY <1>2 DEF CopiesHeld
<1> QED BY <1>1, <1>3 DEF AInv, LookupStands, AnswerHonest, Costs!AnswerHonest

(* While nothing moves, an analysis answers what is so (loadSession, the   *)
(* analysis route): for any projects, sessions and prices.                 *)
THEOREM AnswersAreHonest == SweepSpec => []AnswerHonest
  BY SweepAInvInit, SweepAInv, PTL DEF SweepSpec, AInv

-----------------------------------------------------------------------------
(* Finite sums, for the accounts of a session                              *)

LEMMA LeastNumber ==
  ASSUME NEW S \in SUBSET Nat, S # {}
  PROVE  \E n \in S : \A j \in S : n <= j
<1>1. IsWellFoundedOn(OpToRel(<, Nat), Nat)
  BY NatLessThanWellFounded
<1>2. \E n \in S : \A j \in S : <<j, n>> \notin OpToRel(<, Nat)
  <2> DEFINE R == OpToRel(<, Nat)
  <2>1. IsWellFoundedOn(R, Nat)
    BY <1>1
  <2>2. \E n \in S : \A j \in S : ~ (<<j, n>> \in R)
    <3> HIDE DEF R
    <3> QED BY <2>1, WFMin
  <2> QED BY <2>2
<1>3. PICK n \in S : \A j \in S : <<j, n>> \notin OpToRel(<, Nat)
  BY <1>2
<1>4. ASSUME NEW j \in S PROVE n <= j
  <2>1. CASE j < n
    <3>1. <<j, n>> \in OpToRel(<, Nat)
      BY <2>1 DEF OpToRel
    <3> QED BY <1>3, <3>1
  <2> QED BY <2>1
<1> QED BY <1>4

(* Sums over finite sets *)

LEMMA FewerWithout ==
  ASSUME NEW S, IsFiniteSet(S), NEW e \in S
  PROVE  /\ IsFiniteSet(S \ {e}) /\ Cardinality(S) \in Nat
         /\ Cardinality(S \ {e}) = Cardinality(S) - 1 /\ Cardinality(S) > 0
<1>1. Cardinality(S) \in Nat /\ IsFiniteSet(S \ {e}) /\ Cardinality(S \ {e}) \in Nat
  BY FS_CardinalityType, FS_RemoveElement
<1>2. Cardinality(S \ {e}) = Cardinality(S) - 1
  BY FS_RemoveElement
<1> QED BY <1>1, <1>2

\* Complete induction on the size of the parts of a finite set: "Good" is a set,
\* so that no operator is a parameter.
LEMMA SizeInduction ==
  ASSUME NEW D, IsFiniteSet(D), NEW Good,
         \A T \in SUBSET D :
           (\A R \in SUBSET D : Cardinality(R) < Cardinality(T) => R \in Good) => T \in Good
  PROVE  \A T \in SUBSET D : T \in Good
<1> DEFINE Bad == {T \in SUBSET D : T \notin Good}
           Sizes == {Cardinality(T) : T \in Bad}
<1>1. SUFFICES ASSUME Bad # {} PROVE FALSE
  OBVIOUS
<1>2. \A T \in SUBSET D : Cardinality(T) \in Nat
  BY FS_Subset, FS_CardinalityType
<1>3. Sizes \in SUBSET Nat /\ Sizes # {}
  BY <1>1, <1>2
<1>4. PICK n \in Sizes : \A j \in Sizes : n <= j
  BY <1>3, LeastNumber
<1>5. PICK T \in Bad : n = Cardinality(T)
  BY <1>4
<1>6. \A R \in SUBSET D : Cardinality(R) < Cardinality(T) => R \in Good
  <2> SUFFICES ASSUME NEW R \in SUBSET D, Cardinality(R) < Cardinality(T), R \notin Good PROVE FALSE
    OBVIOUS
  <2>1. Cardinality(R) \in Sizes
    OBVIOUS
  <2> HIDE DEF Sizes
  <2> QED BY <1>2, <1>4, <1>5, <2>1
<1> QED BY <1>5, <1>6

One(S) == CHOOSE e \in S : TRUE

\* g has the sums of f over the parts of D, as FoldFunction takes them: one
\* element after another, and whichever One finds.
Sums(f, D, g) ==
  g = [S \in SUBSET D |-> IF S = {} THEN 0 ELSE f[One(S)] + g[S \ {One(S)}]]

LEMMA SumsExist ==
  ASSUME NEW D, IsFiniteSet(D), NEW f \in [D -> Int]
  PROVE  \E g : Sums(f, D, g)
<1> DEFINE Upto(n) == {S \in SUBSET D : Cardinality(S) <= n}
           Summing(n, g) ==
             /\ g \in [SUBSET D -> Int]
             /\ \A S \in Upto(n) : g[S] = IF S = {} THEN 0 ELSE f[One(S)] + g[S \ {One(S)}]
           Bad == {n \in Nat : ~ \E g : Summing(n, g)}
<1>1. \A S \in SUBSET D : IsFiniteSet(S) /\ Cardinality(S) \in Nat /\ (Cardinality(S) = 0 <=> S = {})
  BY FS_Subset, FS_CardinalityType, FS_EmptySet
<1>2. \A S \in SUBSET D : S # {} => One(S) \in S
  BY DEF One
<1>3. \E g : Summing(0, g)
  <2> DEFINE g == [S \in SUBSET D |-> 0]
  <2>1. \A S \in Upto(0) : S = {}
    BY <1>1
  <2>2. g \in [SUBSET D -> Int] /\ \A S \in SUBSET D : g[S] = 0
    OBVIOUS
  <2> HIDE DEF g
  <2>3. Summing(0, g)
    BY <2>1, <2>2
  <2> QED BY <2>3
<1>4. ASSUME NEW n \in Nat, NEW g, Summing(n, g) PROVE \E h : Summing(n + 1, h)
  <2> DEFINE h == [S \in SUBSET D |-> IF Cardinality(S) <= n THEN g[S]
                                      ELSE IF S = {} THEN 0 ELSE f[One(S)] + g[S \ {One(S)}]]
  <2>1. h \in [SUBSET D -> Int]
    <3> SUFFICES ASSUME NEW S \in SUBSET D, S # {} PROVE f[One(S)] + g[S \ {One(S)}] \in Int
      BY <1>4
    <3>1. One(S) \in D /\ S \ {One(S)} \in SUBSET D
      BY <1>2
    <3> QED BY <1>4, <3>1
  <2>2. ASSUME NEW S \in Upto(n + 1) PROVE h[S] = IF S = {} THEN 0 ELSE f[One(S)] + h[S \ {One(S)}]
    <3>1. CASE S = {}
      <4>1. Cardinality(S) <= n /\ S \in SUBSET D /\ S \in Upto(n)
        BY <1>1, <3>1
      <4>2. h[S] = g[S]
        BY <4>1
      <4> HIDE DEF h
      <4> QED BY <1>4, <3>1, <4>1, <4>2
    <3>2. CASE S # {}
      <4> DEFINE R == S \ {One(S)}
      <4>1. One(S) \in S /\ R \in SUBSET D /\ S \in SUBSET D
        BY <1>2, <3>2
      <4>2. Cardinality(R) = Cardinality(S) - 1 /\ Cardinality(S) \in Nat /\ Cardinality(S) <= n + 1
        BY <1>1, <4>1, FewerWithout
      <4>3. Cardinality(R) <= n
        <5> HIDE DEF R
        <5> QED BY <4>2
      <4>4. h[R] = g[R]
        <5> HIDE DEF R
        <5> QED BY <4>1, <4>3
      <4>5. h[S] = f[One(S)] + g[R]
        <5>1. CASE Cardinality(S) <= n
          <6>1. S \in Upto(n) /\ h[S] = g[S]
            BY <4>1, <5>1
          <6> QED BY <1>4, <3>2, <6>1
        <5>2. CASE ~(Cardinality(S) <= n)
          <6> QED BY <3>2, <4>1, <5>2
        <5> QED BY <5>1, <5>2
      <4> HIDE DEF h
      <4> QED BY <3>2, <4>4, <4>5
    <3> QED BY <3>1, <3>2
  <2> HIDE DEF h
  <2>3. Summing(n + 1, h)
    BY <2>1, <2>2
  <2> QED BY <2>3
<1>5. Bad = {}
  <2> SUFFICES ASSUME Bad # {} PROVE FALSE
    OBVIOUS
  <2>1. Bad \in SUBSET Nat
    OBVIOUS
  <2>2. PICK n \in Bad : \A j \in Bad : n <= j
    BY <2>1, LeastNumber
  <2>3. n \in Nat /\ n # 0
    <3>1. 0 \notin Bad
      BY <1>3
    <3> HIDE DEF Bad
    <3> QED BY <2>1, <2>2, <3>1
  <2>4. n - 1 \in Nat /\ n - 1 \notin Bad
    <3> HIDE DEF Bad
    <3> QED BY <2>2, <2>3
  <2>5. PICK g : Summing(n - 1, g)
    BY <2>4
  <2> HIDE DEF Summing
  <2>6. \E h : Summing(n - 1 + 1, h)
    BY <1>4, <2>4, <2>5
  <2>7. n - 1 + 1 = n
    BY <2>3
  <2> QED BY <2>2, <2>6, <2>7
<1>6. Cardinality(D) \in Nat
  BY FS_CardinalityType
<1>7. PICK g : Summing(Cardinality(D), g)
  <2> HIDE DEF Summing
  <2> QED BY <1>5, <1>6
<1>8. \A S \in SUBSET D : S \in Upto(Cardinality(D))
  BY FS_Subset
<1>9. /\ g = [S \in SUBSET D |-> g[S]]
      /\ \A S \in SUBSET D : g[S] = IF S = {} THEN 0 ELSE f[One(S)] + g[S \ {One(S)}]
  BY <1>7, <1>8
<1>10. Sums(f, D, g)
  BY <1>9 DEF Sums
<1> QED BY <1>10

\* Whichever element is taken off first, the sum is the same.
LEMMA SumsSay ==
  ASSUME NEW D, IsFiniteSet(D), NEW f \in [D -> Int], NEW g, Sums(f, D, g)
  PROVE  /\ g[{}] = 0
         /\ \A T \in SUBSET D : g[T] \in Int
         /\ \A T \in SUBSET D : \A e \in T : g[T] = f[e] + g[T \ {e}]
<1>1. \A S \in SUBSET D : g[S] = IF S = {} THEN 0 ELSE f[One(S)] + g[S \ {One(S)}]
  <2> DEFINE E(S) == IF S = {} THEN 0 ELSE f[One(S)] + g[S \ {One(S)}]
  <2>1. g = [S \in SUBSET D |-> E(S)]
    BY DEF Sums
  <2> HIDE DEF E
  <2>2. \A S \in SUBSET D : g[S] = E(S)
    BY <2>1
  <2> QED BY <2>2 DEF E
<1>2. \A S \in SUBSET D : S # {} => One(S) \in S
  BY DEF One
<1> DEFINE Good == {T \in SUBSET D : g[T] \in Int /\ \A e \in T : g[T] = f[e] + g[T \ {e}]}
<1>3. ASSUME NEW T \in SUBSET D, \A R \in SUBSET D : Cardinality(R) < Cardinality(T) => R \in Good
      PROVE  T \in Good
  <2>1. CASE T = {}
    <3>1. g[T] = 0
      BY <1>1, <2>1
    <3> QED BY <2>1, <3>1
  <2>2. CASE T # {}
    <3>1. IsFiniteSet(T) /\ One(T) \in T
      BY <1>2, <2>2, FS_Subset
    <3>2. \A e \in T : T \ {e} \in Good
      <4> TAKE e \in T
      <4>1. Cardinality(T \ {e}) < Cardinality(T)
        BY <3>1, FewerWithout
      <4> HIDE DEF Good
      <4> QED BY <1>3, <4>1
    <3>3. g[T] = f[One(T)] + g[T \ {One(T)}]
      BY <1>1, <2>2
    <3>4. g[T] \in Int
      BY <3>1, <3>2, <3>3
    <3>5. ASSUME NEW e \in T PROVE g[T] = f[e] + g[T \ {e}]
      <4>1. CASE e = One(T)
        BY <3>3, <4>1
      <4>2. CASE e # One(T)
        <5> DEFINE o == One(T)
                   R == (T \ {o}) \ {e}
        <5>1. R = (T \ {e}) \ {o} /\ e \in T \ {o} /\ o \in T \ {e}
          BY <3>1, <4>2
        <5>2. g[T \ {o}] = f[e] + g[R]
          BY <3>1, <3>2, <5>1
        <5>3. g[T \ {e}] = f[o] + g[R]
          BY <3>2, <5>1
        <5>4. f[e] \in Int /\ f[o] \in Int /\ g[T \ {o}] \in Int /\ g[T \ {e}] \in Int
          BY <3>1, <3>2
        <5>5. T \ {o} \in SUBSET D /\ T \ {o} \in Good /\ R \in SUBSET D
          BY <3>1, <3>2
        <5>6. g[R] \in Int
          <6>1. IsFiniteSet(T \ {o}) /\ Cardinality(R) = Cardinality(T \ {o}) - 1
            <7>1. IsFiniteSet(T \ {o})
              BY <3>1, FewerWithout
            <7> QED BY <5>1, <7>1, FewerWithout
          <6>2. Cardinality(T \ {o}) = Cardinality(T) - 1 /\ Cardinality(T) \in Nat
            BY <3>1, FewerWithout
          <6>3. Cardinality(R) < Cardinality(T)
            <7> HIDE DEF R
            <7> QED BY <6>1, <6>2
          <6>4. R \in Good
            <7> HIDE DEF R, Good
            <7> QED BY <1>3, <5>5, <6>3
          <6> HIDE DEF R
          <6> QED BY <6>4
        <5> HIDE DEF R
        <5>7. g[T] = f[o] + g[T \ {o}]
          BY <3>3
        <5> HIDE DEF o
        <5> QED BY <5>2, <5>3, <5>4, <5>6, <5>7
      <4> QED BY <4>1, <4>2
    <3> QED BY <3>4, <3>5
  <2> QED BY <2>1, <2>2
<1>4. \A T \in SUBSET D : T \in Good
  <2> HIDE DEF Good
  <2> QED BY <1>3, SizeInduction
<1> QED BY <1>1, <1>4

LEMMA TotalIs ==
  ASSUME NEW D, IsFiniteSet(D), NEW f \in [D -> Int]
  PROVE  \E g : Sums(f, D, g) /\ Costs!Total(f) = g[D]
<1>1. Costs!Total(f) = (CHOOSE g : Sums(f, DOMAIN f, g))[DOMAIN f]
  BY Zenon DEF Costs!Total, Costs!FoldFunction, Costs!FoldFunctionOnSet, Costs!MapThenFoldSet, Sums, One
<1>2. DOMAIN f = D
  OBVIOUS
<1>3. Sums(f, D, CHOOSE g : Sums(f, D, g))
  BY SumsExist
<1> QED BY <1>1, <1>2, <1>3

\* A sum over a part of the set is read off the same partial sums.
LEMMA PartOfSum ==
  ASSUME NEW D, IsFiniteSet(D), NEW f \in [D -> Int], NEW g, Sums(f, D, g), NEW E \in SUBSET D
  PROVE  Costs!Total([e \in E |-> f[e]]) = g[E]
<1> DEFINE part == [e \in E |-> f[e]]
<1>1. part \in [E -> Int] /\ \A e \in E : part[e] = f[e]
  OBVIOUS
<1>2. IsFiniteSet(E)
  BY FS_Subset
<1> HIDE DEF part
<1>3. PICK h : Sums(part, E, h) /\ Costs!Total(part) = h[E]
  BY <1>1, <1>2, TotalIs
<1>4. /\ g[{}] = 0 /\ \A T \in SUBSET D : \A e \in T : g[T] = f[e] + g[T \ {e}]
      /\ \A T \in SUBSET D : g[T] \in Int
  BY SumsSay
<1>5. /\ h[{}] = 0 /\ \A T \in SUBSET E : \A e \in T : h[T] = part[e] + h[T \ {e}]
  BY <1>1, <1>2, <1>3, SumsSay
<1> DEFINE Good == {T \in SUBSET E : h[T] = g[T]}
<1>6. ASSUME NEW T \in SUBSET E, \A R \in SUBSET E : Cardinality(R) < Cardinality(T) => R \in Good
      PROVE  T \in Good
  <2>1. CASE T = {}
    BY <1>4, <1>5, <2>1
  <2>2. CASE T # {}
    <3>1. PICK e \in T : TRUE
      BY <2>2
    <3>2. IsFiniteSet(T)
      BY <1>2, FS_Subset
    <3>3. Cardinality(T \ {e}) < Cardinality(T)
      BY <3>2, FewerWithout
    <3>4. T \ {e} \in Good
      <4> HIDE DEF Good
      <4> QED BY <1>6, <3>3
    <3>5. T \in SUBSET D /\ part[e] = f[e]
      BY <1>1
    <3> QED BY <1>4, <1>5, <3>4, <3>5
  <2> QED BY <2>1, <2>2
<1>7. \A T \in SUBSET E : T \in Good
  <2> HIDE DEF Good
  <2> QED BY <1>2, <1>6, SizeInduction
<1>8. E \in Good
  <2> HIDE DEF Good
  <2> QED BY <1>7
<1> QED BY <1>3, <1>8 DEF part

\* A function without one of its arguments.
Without(f, e) == [d \in DOMAIN f \ {e} |-> f[d]]

LEMMA TotalOf ==
  ASSUME NEW D, IsFiniteSet(D), NEW f \in [D -> Int]
  PROVE  /\ Costs!Total(f) \in Int
         /\ D = {} => Costs!Total(f) = 0
         /\ \A e \in D : Costs!Total(f) = f[e] + Costs!Total(Without(f, e)) /\ Costs!Total(Without(f, e)) \in Int
<1>1. PICK g : Sums(f, D, g) /\ Costs!Total(f) = g[D]
  BY TotalIs
<1>2. /\ g[{}] = 0 /\ \A T \in SUBSET D : g[T] \in Int
      /\ \A T \in SUBSET D : \A e \in T : g[T] = f[e] + g[T \ {e}]
  BY <1>1, SumsSay
<1>3. ASSUME NEW e \in D PROVE Costs!Total(Without(f, e)) = g[D \ {e}]
  <2>1. Without(f, e) = [d \in D \ {e} |-> f[d]]
    BY DEF Without
  <2>2. D \ {e} \in SUBSET D
    OBVIOUS
  <2> QED BY <1>1, <2>1, <2>2, PartOfSum
<1> QED BY <1>1, <1>2, <1>3

LEMMA TotalOfNought ==
  ASSUME NEW D, IsFiniteSet(D), NEW f \in [D -> Int], \A e \in D : f[e] = 0
  PROVE  Costs!Total(f) = 0
<1>1. PICK g : Sums(f, D, g) /\ Costs!Total(f) = g[D]
  BY TotalIs
<1>2. /\ g[{}] = 0
      /\ \A T \in SUBSET D : \A e \in T : g[T] = f[e] + g[T \ {e}]
  BY <1>1, SumsSay
<1> DEFINE Good == {T \in SUBSET D : g[T] = 0}
<1>3. ASSUME NEW T \in SUBSET D, \A R \in SUBSET D : Cardinality(R) < Cardinality(T) => R \in Good
      PROVE  T \in Good
  <2>1. CASE T = {}
    BY <1>2, <2>1
  <2>2. CASE T # {}
    <3>1. PICK e \in T : TRUE
      BY <2>2
    <3>2. IsFiniteSet(T)
      BY FS_Subset
    <3>3. Cardinality(T \ {e}) < Cardinality(T)
      BY <3>2, FewerWithout
    <3>4. T \ {e} \in Good
      <4> HIDE DEF Good
      <4> QED BY <1>3, <3>3
    <3> QED BY <1>2, <3>4
  <2> QED BY <2>1, <2>2
<1>4. D \in Good
  <2> HIDE DEF Good
  <2> QED BY <1>3, SizeInduction
<1> QED BY <1>1, <1>4

\* A sum, taken part by part.
PartSum(w, key, T, p) == Costs!Total([i \in {j \in T : key[j] = p} |-> w[i]])

LEMMA SplitSum ==
  ASSUME NEW D, IsFiniteSet(D), NEW P, IsFiniteSet(P), NEW w \in [D -> Int], NEW key \in [D -> P]
  PROVE  Costs!Total([p \in P |-> PartSum(w, key, D, p)]) = Costs!Total(w)
<1>1. PICK g : Sums(w, D, g) /\ Costs!Total(w) = g[D]
  BY TotalIs
<1>2. /\ g[{}] = 0 /\ \A T \in SUBSET D : g[T] \in Int
      /\ \A T \in SUBSET D : \A e \in T : g[T] = w[e] + g[T \ {e}]
  BY <1>1, SumsSay
<1> DEFINE Of(T, p) == {j \in T : key[j] = p}
           F(T) == [p \in P |-> g[Of(T, p)]]
           Good == {T \in SUBSET D : Costs!Total(F(T)) = g[T]}
<1>3. \A T \in SUBSET D : \A p \in P : Of(T, p) \in SUBSET D
  OBVIOUS
<1>4. \A T \in SUBSET D : F(T) \in [P -> Int] /\ \A p \in P : F(T)[p] = g[Of(T, p)]
  <2> HIDE DEF Of
  <2> QED BY <1>2, <1>3
<1>5. ASSUME NEW T \in SUBSET D, \A R \in SUBSET D : Cardinality(R) < Cardinality(T) => R \in Good
      PROVE  T \in Good
  <2>0. IsFiniteSet(T)
    BY FS_Subset
  <2>1. CASE T = {}
    <3>1. \A p \in P : F(T)[p] = 0
      <4>1. \A p \in P : Of(T, p) = {}
        BY <2>1
      <4> HIDE DEF Of, F
      <4> QED BY <1>2, <1>4, <4>1
    <3>2. Costs!Total(F(T)) = 0
      <4>1. F(T) \in [P -> Int]
        BY <1>4
      <4> HIDE DEF F
      <4> QED BY <3>1, <4>1, TotalOfNought
    <3> HIDE DEF F
    <3> QED BY <1>2, <2>1, <3>2
  <2>2. CASE T # {}
    <3>1. PICK e \in T : TRUE
      BY <2>2
    <3> DEFINE R == T \ {e}
               q == key[e]
    <3>2. R \in SUBSET D /\ R \in Good /\ q \in P
      <4>1. Cardinality(R) < Cardinality(T)
        <5>1. Cardinality(R) = Cardinality(T) - 1 /\ Cardinality(T) \in Nat
          BY <2>0, <3>1, FewerWithout
        <5> HIDE DEF R
        <5> QED BY <5>1
      <4> HIDE DEF Good
      <4> QED BY <1>5, <4>1
    <3>3. Costs!Total(F(R)) = g[R]
      BY <3>2
    <3>4. F(T)[q] = w[e] + F(R)[q]
      <4>1. Of(T, q) \ {e} = Of(R, q) /\ e \in Of(T, q) /\ Of(T, q) \in SUBSET D
        BY <3>1
      <4>2. g[Of(T, q)] = w[e] + g[Of(R, q)]
        BY <1>2, <4>1
      <4> HIDE DEF Of, F
      <4> QED BY <1>4, <3>2, <4>2
    <3>5. Without(F(T), q) = Without(F(R), q)
      <4>1. \A p \in P \ {q} : Of(T, p) = Of(R, p)
        OBVIOUS
      <4>2. \A p \in P \ {q} : F(T)[p] = F(R)[p]
        <5> HIDE DEF Of, F, R, q
        <5> QED BY <1>4, <3>2, <4>1
      <4>3. DOMAIN F(T) = P /\ DOMAIN F(R) = P
        OBVIOUS
      <4> HIDE DEF F, Of, R, q
      <4> QED BY <4>2, <4>3 DEF Without
    <3>6. F(T) \in [P -> Int] /\ F(R) \in [P -> Int] /\ w[e] \in Int /\ g[T] = w[e] + g[R] /\ g[R] \in Int
      <4> HIDE DEF F
      <4> QED BY <1>2, <1>4, <3>1, <3>2
    <3> HIDE DEF F, R, q
    <3>7. /\ Costs!Total(F(T)) = F(T)[q] + Costs!Total(Without(F(T), q))
          /\ Costs!Total(F(R)) = F(R)[q] + Costs!Total(Without(F(R), q))
          /\ Costs!Total(Without(F(R), q)) \in Int /\ F(R)[q] \in Int
      BY <3>2, <3>6, TotalOf
    <3>8. Costs!Total(F(T)) = g[T]
      BY <3>3, <3>4, <3>5, <3>6, <3>7
    <3> QED BY <3>8
  <2> QED BY <2>1, <2>2
<1>6. D \in Good
  <2> HIDE DEF Good
  <2> QED BY <1>5, SizeInduction
<1>7. F(D) = [p \in P |-> PartSum(w, key, D, p)]
  <2>1. \A p \in P : g[Of(D, p)] = PartSum(w, key, D, p)
    BY <1>1, PartOfSum DEF PartSum
  <2> HIDE DEF Of
  <2> QED BY <2>1
<1> HIDE DEF F
<1> QED BY <1>1, <1>6, <1>7

\* The sum does not change with the names of what is summed.
Under(u, h, D) == [i \in D |-> u[h[i]]]

Matches(h, D, P) ==
  /\ h \in [D -> P]
  /\ \A i, j \in D : h[i] = h[j] => i = j
  /\ \A p \in P : \E i \in D : h[i] = p

LEMMA Renamed ==
  ASSUME NEW D, IsFiniteSet(D), NEW P, IsFiniteSet(P), NEW u \in [P -> Int],
         NEW h, Matches(h, D, P)
  PROVE  Costs!Total(Under(u, h, D)) = Costs!Total(u)
<1>0. /\ h \in [D -> P] /\ \A i, j \in D : h[i] = h[j] => i = j
      /\ \A p \in P : \E i \in D : h[i] = p
  BY DEF Matches
<1> DEFINE w == [i \in D |-> u[h[i]]]
<1>1. w \in [D -> Int] /\ \A i \in D : w[i] = u[h[i]]
  BY <1>0
<1> HIDE DEF w
<1>2. ASSUME NEW p \in P PROVE PartSum(w, h, D, p) = u[p]
  <2>1. PICK i \in D : h[i] = p
    BY <1>0
  <2>2. {j \in D : h[j] = p} = {i}
    BY <1>0, <2>1
  <2>3. PICK f : f = [j \in {i} |-> w[j]]
    OBVIOUS
  <2>4. f \in [{i} -> Int] /\ f[i] = u[p] /\ DOMAIN f = {i}
    BY <1>1, <2>1, <2>3
  <2>5. IsFiniteSet({i}) /\ IsFiniteSet({})
    BY FS_Singleton, FS_EmptySet
  <2>6. Costs!Total(f) = f[i] + Costs!Total(Without(f, i))
    BY <2>4, <2>5, TotalOf
  <2>7. PICK r : r = Without(f, i)
    OBVIOUS
  <2>8. r \in [{} -> Int]
    BY <2>4, <2>7 DEF Without
  <2>9. Costs!Total(r) = 0
    BY <2>5, <2>8, TotalOf
  <2>10. Costs!Total(f) = u[p]
    BY <2>4, <2>6, <2>7, <2>9
  <2>11. PartSum(w, h, D, p) = Costs!Total(f)
    BY <2>2, <2>3, Zenon DEF PartSum
  <2> QED BY <2>10, <2>11
<1>3. [p \in P |-> PartSum(w, h, D, p)] = u
  BY <1>2
<1>4. Costs!Total([p \in P |-> PartSum(w, h, D, p)]) = Costs!Total(w)
  BY <1>0, <1>1, SplitSum
<1> QED BY <1>3, <1>4 DEF w, Under

-----------------------------------------------------------------------------
(* Ranks in a total order, which is a set of pairs *)

Ahead(S, R, i) == {j \in S : <<j, i>> \in R}

Ordered(S, R) ==
  /\ \A i \in S : <<i, i>> \notin R
  /\ \A i, j \in S : i # j => <<i, j>> \in R \/ <<j, i>> \in R
  /\ \A i, j, k \in S : <<i, j>> \in R /\ <<j, k>> \in R => <<i, k>> \in R

\* h lists S in the order R.
Lists(h, S, R) ==
  /\ h \in [1..Cardinality(S) -> S]
  /\ \A k \in 1..Cardinality(S) : Cardinality(Ahead(S, R, h[k])) = k - 1
  /\ \A i \in S : \E k \in 1..Cardinality(S) : h[k] = i
  /\ \A j, k \in 1..Cardinality(S) : j < k <=> <<h[j], h[k]>> \in R
  /\ \A i \in S, k \in 1..Cardinality(S) : Cardinality(Ahead(S, R, i)) = k - 1 => i = h[k]

LEMMA Ranking ==
  ASSUME NEW S, IsFiniteSet(S), NEW R, Ordered(S, R)
  PROVE  \E h : Lists(h, S, R)
<1> DEFINE c == Cardinality(S)
           rank == [i \in S |-> Cardinality(Ahead(S, R, i)) + 1]
<1>1. c \in Nat
  BY FS_CardinalityType
<1>2. ASSUME NEW i \in S
      PROVE  /\ IsFiniteSet(Ahead(S, R, i)) /\ Cardinality(Ahead(S, R, i)) \in Nat
             /\ Cardinality(Ahead(S, R, i)) < c /\ i \notin Ahead(S, R, i)
  <2> DEFINE A == Ahead(S, R, i)
  <2>1. i \notin A /\ A \in SUBSET S
    BY DEF Ahead, Ordered
  <2>2. IsFiniteSet(A) /\ A \in SUBSET (S \ {i})
    BY <2>1, FS_Subset
  <2> HIDE DEF A
  <2>3. IsFiniteSet(S \ {i}) /\ Cardinality(S \ {i}) = c - 1
    BY FewerWithout
  <2>4. Cardinality(A) <= Cardinality(S \ {i}) /\ Cardinality(A) \in Nat
    BY <2>2, <2>3, FS_Subset, FS_CardinalityType
  <2>5. Cardinality(A) < c
    BY <1>1, <2>3, <2>4
  <2> QED BY <2>1, <2>2, <2>4, <2>5 DEF A
<1>3. ASSUME NEW i \in S, NEW j \in S, <<i, j>> \in R
      PROVE  Cardinality(Ahead(S, R, i)) < Cardinality(Ahead(S, R, j))
  <2> DEFINE A == Ahead(S, R, i)
             B == Ahead(S, R, j)
  <2>1. A \in SUBSET (B \ {i}) /\ i \in B
    BY <1>2, <1>3 DEF Ahead, Ordered
  <2>2. IsFiniteSet(B) /\ Cardinality(B) \in Nat /\ Cardinality(A) \in Nat
    BY <1>2
  <2> HIDE DEF A, B
  <2>3. IsFiniteSet(B \ {i}) /\ Cardinality(B \ {i}) = Cardinality(B) - 1
    BY <2>1, <2>2, FewerWithout
  <2>4. Cardinality(A) <= Cardinality(B \ {i})
    BY <2>1, <2>3, FS_Subset
  <2>5. Cardinality(A) < Cardinality(B)
    BY <2>2, <2>3, <2>4
  <2> QED BY <2>5 DEF A, B
<1>4. rank \in [S -> 1..c] /\ \A i \in S : rank[i] = Cardinality(Ahead(S, R, i)) + 1
  BY <1>1, <1>2
<1> HIDE DEF rank
<1>5. \A i, j \in S : rank[i] = rank[j] => i = j
  <2> SUFFICES ASSUME NEW i \in S, NEW j \in S, i # j PROVE rank[i] # rank[j]
    OBVIOUS
  <2>1. /\ Cardinality(Ahead(S, R, i)) < Cardinality(Ahead(S, R, j))
           \/ Cardinality(Ahead(S, R, j)) < Cardinality(Ahead(S, R, i))
        /\ Cardinality(Ahead(S, R, i)) \in Nat /\ Cardinality(Ahead(S, R, j)) \in Nat
    BY <1>2, <1>3 DEF Ordered
  <2> QED BY <1>4, <2>1
<1>6. rank \in Injection(S, 1..c)
  <2> HIDE DEF c
  <2> QED BY <1>4, <1>5 DEF Injection, IsInjective
<1>7. IsFiniteSet(1..c) /\ Cardinality(1..c) = c
  BY <1>1, FS_Interval
<1>8. rank \in Surjection(S, 1..c)
  <2> QED BY <1>6, <1>7, FS_Injection
<1>9. \A k \in 1..c : \E i \in S : rank[i] = k
  <2> HIDE DEF c
  <2> QED BY <1>8 DEF Surjection
<1> DEFINE h == [k \in 1..c |-> CHOOSE i \in S : rank[i] = k]
<1>10. h \in [1..c -> S] /\ \A k \in 1..c : rank[h[k]] = k
  BY <1>9
<1> HIDE DEF h
<1>11. \A i \in S : \E k \in 1..c : h[k] = i
  BY <1>4, <1>5, <1>10
<1>12. \A k \in 1..c : Cardinality(Ahead(S, R, h[k])) = k - 1
  <2> TAKE k \in 1..c
  <2>1. h[k] \in S /\ rank[h[k]] = k /\ k \in Int
    BY <1>1, <1>10
  <2>2. Cardinality(Ahead(S, R, h[k])) + 1 = k /\ Cardinality(Ahead(S, R, h[k])) \in Nat
    BY <1>2, <1>4, <2>1
  <2> QED BY <2>1, <2>2
<1>13. \A i \in S, k \in 1..c : Cardinality(Ahead(S, R, i)) = k - 1 => i = h[k]
  <2> TAKE i \in S, k \in 1..c
  <2> HAVE Cardinality(Ahead(S, R, i)) = k - 1
  <2>1. k \in Int
    BY <1>1
  <2>2. rank[i] = k
    BY <1>4, <2>1
  <2> QED BY <1>5, <1>10, <2>2
<1>14. \A j, k \in 1..c : j < k <=> <<h[j], h[k]>> \in R
  <2> SUFFICES ASSUME NEW j \in 1..c, NEW k \in 1..c PROVE j < k <=> <<h[j], h[k]>> \in R
    OBVIOUS
  <2>1. h[j] \in S /\ h[k] \in S /\ j \in Int /\ k \in Int
    BY <1>1, <1>10
  <2>2. Cardinality(Ahead(S, R, h[j])) = j - 1 /\ Cardinality(Ahead(S, R, h[k])) = k - 1
    BY <1>12
  <2>3. <<h[j], h[k]>> \in R => j < k
    <3>1. <<h[j], h[k]>> \in R => j - 1 < k - 1
      BY <1>3, <2>1, <2>2
    <3> QED BY <2>1, <3>1
  <2>4. <<h[k], h[j]>> \in R => k < j
    <3>1. <<h[k], h[j]>> \in R => k - 1 < j - 1
      BY <1>3, <2>1, <2>2
    <3> QED BY <2>1, <3>1
  <2>5. h[j] = h[k] => j = k
    BY <1>10
  <2> QED BY <2>1, <2>3, <2>4, <2>5 DEF Ordered
<1> QED BY <1>10, <1>11, <1>12, <1>13, <1>14 DEF Lists

LEMMA SameCardinalityOfCosts == \A S : Costs!Cardinality(S) = Cardinality(S)
  BY DEF Costs!Cardinality, Cardinality

Sooner(S) == {p \in S \X S : p[1] < p[2]}

\* The places of a filter, as Nth finds them.
LEMMA NthIs ==
  ASSUME NEW S \in SUBSET Nat, IsFiniteSet(S)
  PROVE  /\ Cardinality(S) \in Nat
         /\ \E h : Lists(h, S, Sooner(S)) /\ \A k \in 1..Cardinality(S) : Costs!Nth(S, k) = h[k]
<1>1. Cardinality(S) \in Nat
  BY FS_CardinalityType
<1>2. Ordered(S, Sooner(S))
  BY DEF Ordered, Sooner
<1>3. PICK h : Lists(h, S, Sooner(S))
  BY <1>2, Ranking
<1>4. ASSUME NEW k \in 1..Cardinality(S) PROVE Costs!Nth(S, k) = h[k]
  <2>1. \A i \in S : {j \in S : j < i} = Ahead(S, Sooner(S), i)
    BY DEF Ahead, Sooner
  <2>2. Costs!Nth(S, k) = CHOOSE i \in S : Cardinality({j \in S : j < i}) = k - 1
    BY SameCardinalityOfCosts DEF Costs!Nth
  <2>3. h[k] \in S /\ Cardinality({j \in S : j < h[k]}) = k - 1
    BY <1>3, <2>1 DEF Lists
  <2>4. \A i \in S : Cardinality({j \in S : j < i}) = k - 1 => i = h[k]
    BY <1>3, <2>1 DEF Lists
  <2> QED BY <2>2, <2>3, <2>4
<1> QED BY <1>1, <1>3, <1>4

LEMMA KeptIs ==
  ASSUME NEW S \in SUBSET Nat, IsFiniteSet(S), NEW list
  PROVE  /\ Cardinality(S) \in Nat
         /\ \E h : /\ Lists(h, S, Sooner(S))
                   /\ Costs!Kept(list, S) = [k \in 1..Cardinality(S) |-> list[h[k]]]
<1>1. PICK h : Lists(h, S, Sooner(S)) /\ \A k \in 1..Cardinality(S) : Costs!Nth(S, k) = h[k]
  BY NthIs
<1>2. Costs!Kept(list, S) = [k \in 1..Cardinality(S) |-> list[Costs!Nth(S, k)]]
  BY SameCardinalityOfCosts DEF Costs!Kept
<1> QED BY <1>1, <1>2, NthIs

-----------------------------------------------------------------------------
(* What a list of messages costs, and a part of it *)

Usd(e) == e.out * Rate(e.model)

Billed(list, S) ==
  IF \E i \in S : Rate(list[i].model) = None THEN None
  ELSE Costs!Total([i \in S |-> Usd(list[i])])

Priceable(list, S) == \A i \in S : list[i].out \in Nat /\ Rate(list[i].model) \in Int \cup {None}

LEMMA WholeCost == \A list : Costs!Cost(list) = Billed(list, DOMAIN list)
  BY Zenon DEF Costs!Cost, Billed, Usd

\* The places of a filter, one for each rank.
LEMMA ListsOnce ==
  ASSUME NEW S \in SUBSET Nat, IsFiniteSet(S), NEW h, Lists(h, S, Sooner(S))
  PROVE  /\ \A k \in 1..Cardinality(S) : h[k] \in S
         /\ \A j, k \in 1..Cardinality(S) : h[j] = h[k] => j = k
         /\ \A j, k \in 1..Cardinality(S) : j < k <=> h[j] < h[k]
<1>1. Cardinality(S) \in Nat
  BY FS_CardinalityType
<1>2. ASSUME NEW j \in 1..Cardinality(S), NEW k \in 1..Cardinality(S)
      PROVE  j < k <=> h[j] < h[k]
  <2>1. h[j] \in S /\ h[k] \in S
    BY DEF Lists
  <2>2. <<h[j], h[k]>> \in Sooner(S) <=> h[j] < h[k]
    BY <2>1 DEF Sooner
  <2> QED BY <2>2 DEF Lists
<1>3. ASSUME NEW j \in 1..Cardinality(S), NEW k \in 1..Cardinality(S), h[j] = h[k]
      PROVE  j = k
  <2>1. h[j] \in Nat /\ h[k] \in Nat /\ j \in Int /\ k \in Int
    <3>1. h[j] \in S /\ h[k] \in S
      BY DEF Lists
    <3>2. h[j] \in Nat /\ h[k] \in Nat
      BY <3>1
    <3>3. j \in Int /\ k \in Int
      BY <1>1
    <3> QED BY <3>2, <3>3
  <2>2. ~ (h[j] < h[k]) /\ ~ (h[k] < h[j])
    BY <1>3, <2>1
  <2> QED BY <1>2, <2>1, <2>2
<1> QED BY <1>2, <1>3 DEF Lists

LEMMA KeptCost ==
  ASSUME NEW S \in SUBSET Nat, IsFiniteSet(S), NEW list, Priceable(list, S)
  PROVE  Costs!Cost(Costs!Kept(list, S)) = Billed(list, S)
<1>1. PICK h : /\ Lists(h, S, Sooner(S))
               /\ Costs!Kept(list, S) = [k \in 1..Cardinality(S) |-> list[h[k]]]
  BY KeptIs
<1>2. PICK kept : kept = Costs!Kept(list, S)
  OBVIOUS
<1>3. PICK D : D = 1..Cardinality(S)
  OBVIOUS
<1>4. IsFiniteSet(D)
  BY <1>3, FS_Interval, FS_CardinalityType
<1>5. /\ kept = [k \in D |-> list[h[k]]] /\ DOMAIN kept = D
      /\ h \in [D -> S] /\ \A i \in S : \E k \in D : h[k] = i
      /\ \A j, k \in D : h[j] = h[k] => j = k
  BY <1>1, <1>2, <1>3, ListsOnce DEF Lists
<1>6. (\E k \in D : Rate(kept[k].model) = None) <=> (\E i \in S : Rate(list[i].model) = None)
  BY <1>5
<1>7. CASE \E i \in S : Rate(list[i].model) = None
  <2>1. Billed(kept, D) = None /\ Billed(list, S) = None
    BY <1>6, <1>7 DEF Billed
  <2> QED BY <1>2, <1>5, <2>1, WholeCost
<1>8. CASE ~ \E i \in S : Rate(list[i].model) = None
  <2>1. PICK u : u = [i \in S |-> Usd(list[i])]
    OBVIOUS
  <2>2. u \in [S -> Int]
    <3>1. ASSUME NEW i \in S PROVE Usd(list[i]) \in Int
      <4>1. list[i].out \in Nat /\ Rate(list[i].model) \in Int
        BY <1>8 DEF Priceable
      <4> QED BY <4>1 DEF Usd
    <3> QED BY <2>1, <3>1
  <2>3. Costs!Total(Under(u, h, D)) = Costs!Total(u)
    <3>1. Matches(h, D, S)
      BY <1>5 DEF Matches
    <3> QED BY <1>4, <2>2, <3>1, Renamed
  <2>4. Under(u, h, D) = [k \in D |-> Usd(kept[k])]
    <3>1. \A k \in D : u[h[k]] = Usd(kept[k])
      <4> TAKE k \in D
      <4>1. h[k] \in S /\ kept[k] = list[h[k]]
        BY <1>5
      <4> QED BY <2>1, <4>1, Zenon
    <3> QED BY <3>1 DEF Under
  <2>5. Billed(kept, D) = Costs!Total([k \in D |-> Usd(kept[k])])
    BY <1>6, <1>8, Zenon DEF Billed
  <2>6. Billed(list, S) = Costs!Total(u)
    BY <1>8, <2>1, Zenon DEF Billed
  <2> QED BY <1>2, <1>5, <2>3, <2>4, <2>5, <2>6, WholeCost
<1> QED BY <1>7, <1>8

\* Two lists that bill the same, message by message, cost the same.
LEMMA SameCost ==
  ASSUME NEW S \in SUBSET Nat, IsFiniteSet(S), NEW T \in SUBSET Nat, IsFiniteSet(T),
         NEW list, NEW other, Priceable(other, T), NEW b, Matches(b, S, T),
         \A i \in S : list[i].out = other[b[i]].out /\ list[i].model = other[b[i]].model
  PROVE  Costs!Cost(Costs!Kept(list, S)) = Costs!Cost(Costs!Kept(other, T))
<1>0. b \in [S -> T] /\ \A t \in T : \E i \in S : b[i] = t
  BY DEF Matches
<1>1. Priceable(list, S)
  BY <1>0 DEF Priceable
<1>2. (\E k \in T : Rate(other[k].model) = None) <=> (\E i \in S : Rate(list[i].model) = None)
  <2>1. ASSUME NEW t \in T, Rate(other[t].model) = None PROVE \E i \in S : Rate(list[i].model) = None
    <3>1. PICK i \in S : b[i] = t
      BY <1>0
    <3> QED BY <2>1, <3>1, Zenon
  <2>2. ASSUME NEW i \in S, Rate(list[i].model) = None PROVE \E t \in T : Rate(other[t].model) = None
    <3>1. b[i] \in T /\ list[i].model = other[b[i]].model
      BY <1>0
    <3> QED BY <2>2, <3>1, Zenon
  <2> QED BY <2>1, <2>2, Zenon
<1>3. Billed(list, S) = Billed(other, T)
  <2>1. CASE \E i \in S : Rate(list[i].model) = None
    BY <1>2, <2>1 DEF Billed
  <2>2. CASE ~ \E i \in S : Rate(list[i].model) = None
    <3>1. PICK u : u = [t \in T |-> Usd(other[t])]
      OBVIOUS
    <3>2. u \in [T -> Int]
      <4>1. ASSUME NEW i \in T PROVE Usd(other[i]) \in Int
        <5>1. other[i].out \in Nat /\ Rate(other[i].model) \in Int
          BY <1>2, <2>2 DEF Priceable
        <5> QED BY <5>1 DEF Usd
      <4> QED BY <3>1, <4>1
    <3>3. Costs!Total(Under(u, b, S)) = Costs!Total(u)
      BY <3>2, Renamed
    <3>4. Under(u, b, S) = [i \in S |-> Usd(list[i])]
      <4>1. \A i \in S : u[b[i]] = Usd(list[i])
        <5> TAKE i \in S
        <5>1. b[i] \in T
          BY <1>0
        <5> QED BY <3>1, <5>1, Zenon DEF Usd
      <4> QED BY <4>1 DEF Under
    <3>5. Billed(list, S) = Costs!Total([i \in S |-> Usd(list[i])])
      BY <2>2, Zenon DEF Billed
    <3>6. Billed(other, T) = Costs!Total(u)
      BY <1>2, <2>2, <3>1, Zenon DEF Billed
    <3> QED BY <3>3, <3>4, <3>5, <3>6
  <2> QED BY <2>1, <2>2
<1> QED BY <1>1, <1>3, KeptCost

-----------------------------------------------------------------------------
(* Which segment a message falls in *)

Earlier(list) ==
  {p \in (DOMAIN list) \X (DOMAIN list) :
     list[p[1]].at < list[p[2]].at \/ (list[p[1]].at = list[p[2]].at /\ p[1] < p[2])}

Timed(list, n) == n \in Nat /\ DOMAIN list = 1..n /\ \A i \in 1..n : list[i].at \in Nat

LEMMA ByTimeIs ==
  ASSUME NEW n, NEW list, Timed(list, n)
  PROVE  /\ IsFiniteSet(1..n) /\ Cardinality(1..n) = n
         /\ \E h : Lists(h, 1..n, Earlier(list)) /\ Costs!ByTime(list) = [k \in 1..n |-> list[h[k]]]
<1>1. n \in Nat /\ IsFiniteSet(1..n) /\ Cardinality(1..n) = n /\ DOMAIN list = 1..n
  <2>1. n \in Nat /\ DOMAIN list = 1..n
    BY DEF Timed
  <2> QED BY <2>1, FS_Interval
<1>2. Ordered(1..n, Earlier(list))
  <2>1. \A i \in 1..n : list[i].at \in Nat /\ i \in Nat
    BY <1>1 DEF Timed
  <2>2. \A i, j \in 1..n : <<i, j>> \in Earlier(list) <=>
          list[i].at < list[j].at \/ (list[i].at = list[j].at /\ i < j)
    BY <1>1 DEF Earlier
  <2>3. \A i \in 1..n : <<i, i>> \notin Earlier(list)
    BY <2>1, <2>2
  <2>4. \A i, j \in 1..n : i # j => <<i, j>> \in Earlier(list) \/ <<j, i>> \in Earlier(list)
    BY <2>1, <2>2
  <2>5. \A i, j, k \in 1..n : <<i, j>> \in Earlier(list) /\ <<j, k>> \in Earlier(list) => <<i, k>> \in Earlier(list)
    <3> TAKE i, j, k \in 1..n
    <3>1. list[i].at \in Nat /\ list[j].at \in Nat /\ list[k].at \in Nat /\ i \in Nat /\ j \in Nat /\ k \in Nat
      BY <2>1
    <3> QED BY <2>2, <3>1
  <2> QED BY <2>3, <2>4, <2>5 DEF Ordered
<1>3. PICK h : Lists(h, 1..n, Earlier(list))
  BY <1>1, <1>2, Ranking
<1>4. ASSUME NEW k \in 1..n
      PROVE  h[k] = CHOOSE i \in DOMAIN list : Costs!Cardinality({j \in DOMAIN list :
                      list[j].at < list[i].at \/ (list[j].at = list[i].at /\ j < i)}) = k - 1
  <2>1. \A i \in 1..n : {j \in 1..n : list[j].at < list[i].at \/ (list[j].at = list[i].at /\ j < i)}
                          = Ahead(1..n, Earlier(list), i)
    BY <1>1 DEF Ahead, Earlier
  <2>2. h[k] \in 1..n /\ Cardinality(Ahead(1..n, Earlier(list), h[k])) = k - 1
        /\ \A i \in 1..n : Cardinality(Ahead(1..n, Earlier(list), i)) = k - 1 => i = h[k]
    BY <1>1, <1>3 DEF Lists
  <2> QED BY <1>1, <2>1, <2>2, SameCardinalityOfCosts
<1>5. Costs!ByTime(list) = [k \in 1..n |-> list[h[k]]]
  <2>1. Costs!ByTime(list) = [k \in DOMAIN list |->
          list[CHOOSE i \in DOMAIN list : Costs!Cardinality({j \in DOMAIN list :
                 list[j].at < list[i].at \/ (list[j].at = list[i].at /\ j < i)}) = k - 1]]
    BY Zenon DEF Costs!ByTime
  <2> QED BY <1>1, <1>4, <2>1
<1> QED BY <1>1, <1>3, <1>5

OfOne(list, a) == {i \in DOMAIN list : list[i].agent = a}
Gone(list, a, at) == {i \in DOMAIN list : list[i].agent = a /\ list[i].at <= at}

LEMMA SegmentIs ==
  ASSUME NEW n, NEW resets, Timed(resets, n), NEW a, NEW at \in Nat
  PROVE  /\ Cardinality(OfOne(resets, a)) \in 0..n
         /\ Costs!Len(Costs!OfAgent(resets, a)) = Cardinality(OfOne(resets, a))
         /\ Costs!Segment(resets, a, at) \in 0..Cardinality(OfOne(resets, a))
         /\ Costs!Segment(resets, a, at) = Cardinality(Gone(resets, a, at))
<1> DEFINE S == OfOne(resets, a)
           c == Cardinality(S)
<1>1. /\ n \in Nat /\ S \in SUBSET (1..n) /\ S \in SUBSET Nat /\ IsFiniteSet(S) /\ c \in Nat /\ c <= n
      /\ \A i \in S : resets[i].at \in Nat
  <2>1. n \in Nat /\ S \in SUBSET (1..n) /\ \A i \in 1..n : resets[i].at \in Nat
    BY DEF Timed, OfOne
  <2>2. IsFiniteSet(1..n) /\ Cardinality(1..n) = n
    BY <2>1, FS_Interval
  <2> HIDE DEF S
  <2>3. IsFiniteSet(S) /\ Cardinality(S) <= n /\ Cardinality(S) \in Nat
    BY <2>1, <2>2, FS_Subset, FS_CardinalityType
  <2>4. S \in SUBSET Nat
    BY <2>1
  <2> QED BY <2>1, <2>3, <2>4
<1>2. PICK own : own = Costs!OfAgent(resets, a)
  OBVIOUS
<1>3. PICK h : Lists(h, S, Sooner(S)) /\ own = [k \in 1..c |-> resets[h[k]]]
  <2>1. own = Costs!Kept(resets, S)
    BY <1>2 DEF Costs!OfAgent, OfOne
  <2> HIDE DEF S
  <2>2. \E h : /\ Lists(h, S, Sooner(S))
               /\ Costs!Kept(resets, S) = [k \in 1..Cardinality(S) |-> resets[h[k]]]
    BY <1>1, KeptIs
  <2> QED BY <2>1, <2>2
<1> HIDE DEF S, c
<1>4. /\ \A k \in 1..c : h[k] \in S /\ own[k] = resets[h[k]]
      /\ DOMAIN own = 1..c
      /\ \A j, k \in 1..c : h[j] = h[k] => j = k
      /\ \A i \in S : \E k \in 1..c : h[k] = i
  BY <1>1, <1>3, ListsOnce DEF Lists, c
<1>5. Timed(own, c)
  BY <1>1, <1>4 DEF Timed
<1>6. PICK g : Lists(g, 1..c, Earlier(own)) /\ Costs!ByTime(own) = [k \in 1..c |-> own[g[k]]]
  BY <1>5, ByTimeIs
<1>7. Cardinality(1..c) = c
  BY <1>5, ByTimeIs
<1>8. PICK told : told = Costs!ByTime(own)
  OBVIOUS
<1>9. /\ \A k \in 1..c : g[k] \in 1..c /\ told[k] = own[g[k]] /\ told[k] = resets[h[g[k]]] /\ told[k].at \in Nat
      /\ DOMAIN told = 1..c
  <2>1. DOMAIN told = 1..c /\ \A k \in 1..c : told[k] = own[g[k]]
    BY <1>6, <1>8
  <2>2. \A k \in 1..c : g[k] \in 1..c
    BY <1>6, <1>7 DEF Lists
  <2>3. \A k \in 1..c : own[g[k]] = resets[h[g[k]]] /\ h[g[k]] \in S
    BY <1>4, <2>2
  <2>4. \A k \in 1..c : told[k].at \in Nat
    <3> TAKE k \in 1..c
    <3>1. told[k] = resets[h[g[k]]] /\ h[g[k]] \in S
      BY <2>1, <2>3
    <3>2. resets[h[g[k]]].at \in Nat
      BY <1>1, <3>1
    <3> QED BY <3>1, <3>2, Zenon
  <2> QED BY <2>1, <2>2, <2>3, <2>4
<1>10. \A j, k \in 1..c : j <= k => told[j].at <= told[k].at
  <2> SUFFICES ASSUME NEW j \in 1..c, NEW k \in 1..c, j <= k, j # k PROVE told[j].at <= told[k].at
    BY <1>9
  <2>1. j < k
    BY <1>1
  <2>2. <<g[j], g[k]>> \in Earlier(own)
    BY <1>6, <1>7, <2>1 DEF Lists
  <2>3. own[g[j]].at < own[g[k]].at \/ own[g[j]].at = own[g[k]].at
    BY <2>2 DEF Earlier
  <2> QED BY <1>9, <2>3
<1>11. Costs!Len(own) = c /\ Costs!Len(told) = c
  BY <1>1, <1>4, <1>9
<1> DEFINE later == {k \in 1..c : told[k].at > at}
<1>12. PICK s : s = Costs!Segment(resets, a, at)
  OBVIOUS
<1>13. s = IF later = {} THEN c ELSE Costs!Min(later) - 1
  BY <1>2, <1>8, <1>9, <1>11, <1>12 DEF Costs!Segment
<1>14. s \in 0..c /\ \A k \in 1..c : told[k].at <= at <=> k <= s
  <2>1. CASE later = {}
    <3>1. s = c /\ \A k \in 1..c : ~ (told[k].at > at)
      BY <1>13, <2>1
    <3> QED BY <1>1, <1>9, <3>1
  <2>2. CASE later # {}
    <3>1. later \in SUBSET Nat
      BY <1>1
    <3>2. \E m \in later : \A k \in later : m <= k
      <4> HIDE DEF later
      <4> QED BY <2>2, <3>1, LeastNumber
    <3>3. PICK m \in later : \A k \in later : m <= k
      BY <3>2
    <3>4. Costs!Min(later) \in later /\ \A k \in later : Costs!Min(later) <= k
      <4> HIDE DEF later
      <4> QED BY <3>2 DEF Costs!Min
    <3>5. Costs!Min(later) = m
      <4>1. m \in Nat /\ Costs!Min(later) \in Nat
        <5> HIDE DEF later
        <5> QED BY <3>1, <3>4
      <4>2. m <= Costs!Min(later) /\ Costs!Min(later) <= m
        <5> HIDE DEF later
        <5> QED BY <3>3, <3>4
      <4> HIDE DEF later
      <4> QED BY <4>1, <4>2
    <3>6. s = m - 1 /\ m \in 1..c /\ told[m].at > at
      BY <1>13, <2>2, <3>5
    <3>7. ASSUME NEW k \in 1..c PROVE told[k].at <= at <=> k <= s
      <4>1. k \in Nat /\ m \in Nat /\ told[k].at \in Nat /\ told[m].at \in Nat
        BY <1>1, <1>9, <3>6
      <4>2. k < m => ~ (told[k].at > at)
        <5> SUFFICES ASSUME k < m, told[k].at > at PROVE FALSE
          OBVIOUS
        <5>1. k \in later
          OBVIOUS
        <5> HIDE DEF later
        <5> QED BY <3>3, <4>1, <5>1
      <4>3. m <= k => told[m].at <= told[k].at
        BY <1>10, <3>6
      <4> HIDE DEF later
      <4> QED BY <3>6, <4>1, <4>2, <4>3
    <3>8. s \in 0..c
      BY <1>1, <3>6
    <3> QED BY <3>7, <3>8
  <2> QED BY <2>1, <2>2
<1> HIDE DEF later
<1>15. s = Cardinality(Gone(resets, a, at))
  <2>1. s \in Nat /\ 1..s \subseteq 1..c
    BY <1>1, <1>14
  <2>2. IsFiniteSet(1..s) /\ Cardinality(1..s) = s
    BY <2>1, FS_Interval
  <2> DEFINE f == [k \in 1..s |-> h[g[k]]]
             P == Gone(resets, a, at)
  <2>3. \A i \in S : i \in P <=> resets[i].at <= at
    BY DEF S, OfOne, Gone
  <2>4. P \in SUBSET S
    BY DEF S, OfOne, Gone
  <2>5. \A k \in 1..s : h[g[k]] \in P
    <3> TAKE k \in 1..s
    <3>1. k \in 1..c /\ k <= s
      BY <2>1
    <3>2. h[g[k]] \in S /\ resets[h[g[k]]].at <= at
      BY <1>4, <1>9, <1>14, <3>1
    <3> QED BY <2>3, <3>2
  <2>6. \A j, k \in 1..s : h[g[j]] = h[g[k]] => j = k
    <3> SUFFICES ASSUME NEW j \in 1..s, NEW k \in 1..s, h[g[j]] = h[g[k]] PROVE j = k
      OBVIOUS
    <3>1. j \in 1..c /\ k \in 1..c /\ j \in Int /\ k \in Int
      BY <2>1
    <3>2. g[j] = g[k]
      BY <1>4, <1>9, <1>3, <3>1
    <3>3. Cardinality(Ahead(1..c, Earlier(own), g[j])) = j - 1 /\ Cardinality(Ahead(1..c, Earlier(own), g[k])) = k - 1
      BY <1>6, <1>7, <3>1 DEF Lists
    <3> QED BY <3>1, <3>2, <3>3
  <2>7. \A i \in P : \E k \in 1..s : h[g[k]] = i
    <3> TAKE i \in P
    <3>1. i \in S /\ resets[i].at <= at
      BY <2>3, <2>4
    <3>2. PICK j \in 1..c : h[j] = i
      BY <1>4, <3>1
    <3>3. PICK k \in 1..c : g[k] = j
      BY <1>6, <1>7, <3>2 DEF Lists
    <3>4. told[k].at <= at
      BY <1>9, <3>1, <3>2, <3>3
    <3>5. k \in 1..s
      <4>1. k <= s /\ k \in Int /\ 1 <= k
        BY <1>1, <1>14, <3>4
      <4> QED BY <2>1, <4>1
    <3> QED BY <3>2, <3>3, <3>5
  <2>8. f \in Bijection(1..s, P)
    BY <2>5, <2>6, <2>7 DEF Bijection, Injection, Surjection, IsInjective
  <2>9. ExistsBijection(1..s, P)
    BY <2>8 DEF ExistsBijection
  <2> HIDE DEF P
  <2>10. Cardinality(P) = Cardinality(1..s)
    BY <2>2, <2>9, FS_Bijection
  <2> QED BY <2>2, <2>10 DEF P
<1>16. c \in 0..n
  BY <1>1
<1> QED BY <1>2, <1>11, <1>12, <1>14, <1>15, <1>16 DEF S, c

-----------------------------------------------------------------------------
(* The segments of a session hold every message once *)

LEMMA ImageFinite ==
  ASSUME NEW D, IsFiniteSet(D), NEW f, DOMAIN f = D, NEW T, T = {f[x] : x \in D}
  PROVE  IsFiniteSet(T)
<1> DEFINE g == [x \in D |-> f[x]]
<1>1. g \in Surjection(D, T)
  BY DEF Surjection
<1> HIDE DEF g
<1> QED BY <1>1, FS_Surjection

LEMMA WellFormedSays ==
  ASSUME NEW v, Costs!WellFormed(v)
  PROVE  /\ main \in DOMAIN v.agents /\ None \notin DOMAIN v.agents
         /\ IsFiniteSet(DOMAIN v.agents)
         /\ Timed(v.resets, Len(v.resets))
         /\ Len(v.usage) \in Nat /\ DOMAIN v.usage = 1..Len(v.usage)
         /\ \A i \in DOMAIN v.usage :
              /\ DOMAIN v.usage[i] = {"msg", "agent", "model", "out", "at"}
              /\ v.usage[i] = [msg |-> v.usage[i].msg, agent |-> v.usage[i].agent,
                    model |-> v.usage[i].model, out |-> v.usage[i].out, at |-> v.usage[i].at]
              /\ v.usage[i].msg \in Nat /\ v.usage[i].out \in Nat /\ v.usage[i].at \in Nat
              /\ v.usage[i].agent \in (DOMAIN v.agents \ {main}) \cup {None}
              /\ Rate(v.usage[i].model) \in Int \cup {None}
         /\ \A i, j \in DOMAIN v.usage : v.usage[i].msg = v.usage[j].msg => i = j
<1>1. v.usage \in Seq([msg : Nat, agent : (DOMAIN v.agents \ {main}) \cup {None},
                       model : {v.usage[i].model : i \in DOMAIN v.usage}, out : Nat, at : Nat])
  BY DEF Costs!WellFormed
<1>2. v.resets \in Seq([agent : (DOMAIN v.agents \ {main}) \cup {None}, at : Nat])
  BY DEF Costs!WellFormed
<1>0. \A T, list : list \in Seq(T) => Len(list) \in Nat /\ DOMAIN list = 1..Len(list)
                                    /\ \A i \in DOMAIN list : list[i] \in T
  OBVIOUS
<1>3. Len(v.usage) \in Nat /\ DOMAIN v.usage = 1..Len(v.usage)
  BY <1>0, <1>1, Zenon
<1>4. \A i \in DOMAIN v.usage :
        v.usage[i] \in [msg : Nat, agent : (DOMAIN v.agents \ {main}) \cup {None},
                        model : {v.usage[j].model : j \in DOMAIN v.usage}, out : Nat, at : Nat]
  BY <1>0, <1>1, Zenon
<1>5. Timed(v.resets, Len(v.resets))
  <2>1. Len(v.resets) \in Nat /\ DOMAIN v.resets = 1..Len(v.resets)
    BY <1>0, <1>2, Zenon
  <2>2. \A i \in DOMAIN v.resets : v.resets[i] \in [agent : (DOMAIN v.agents \ {main}) \cup {None}, at : Nat]
    BY <1>0, <1>2, Zenon
  <2> QED BY <2>1, <2>2 DEF Timed
<1>6. \A i \in DOMAIN v.usage :
        /\ DOMAIN v.usage[i] = {"msg", "agent", "model", "out", "at"}
        /\ v.usage[i] = [msg |-> v.usage[i].msg, agent |-> v.usage[i].agent,
              model |-> v.usage[i].model, out |-> v.usage[i].out, at |-> v.usage[i].at]
        /\ v.usage[i].msg \in Nat /\ v.usage[i].out \in Nat /\ v.usage[i].at \in Nat
        /\ v.usage[i].agent \in (DOMAIN v.agents \ {main}) \cup {None}
  <2> TAKE i \in DOMAIN v.usage
  <2>1. PICK e : e = v.usage[i]
    OBVIOUS
  <2>2. PICK A, M : e \in [msg : Nat, agent : A, model : M, out : Nat, at : Nat]
                    /\ A = (DOMAIN v.agents \ {main}) \cup {None}
    BY <1>4, <2>1
  <2>3. /\ DOMAIN e = {"msg", "agent", "model", "out", "at"}
        /\ e = [msg |-> e.msg, agent |-> e.agent, model |-> e.model, out |-> e.out, at |-> e.at]
        /\ e.msg \in Nat /\ e.out \in Nat /\ e.at \in Nat /\ e.agent \in A
    BY <2>2
  <2> QED BY <2>1, <2>2, <2>3
<1>7. IsFiniteSet(DOMAIN v.agents)
  BY Zenon DEF Costs!WellFormed, Costs!IsFiniteSet, IsFiniteSet
<1> QED BY <1>3, <1>5, <1>6, <1>7 DEF Costs!WellFormed

In(v, a, n) ==
  {i \in DOMAIN v.usage : v.usage[i].agent = a /\ Costs!Segment(v.resets, a, v.usage[i].at) = n}

Part(v, a, n) ==
  [agent |-> a, index |-> n, messages |-> Costs!Kept(v.usage, In(v, a, n)),
   usd |-> Costs!Cost(Costs!Kept(v.usage, In(v, a, n)))]

Groups(v) ==
  {v.usage[i].agent : i \in DOMAIN v.usage} \cup {v.resets[k].agent : k \in DOMAIN v.resets}

Cut(v, parts, naive) ==
  /\ Costs!Total([p \in parts |-> p.usd]) = naive
  /\ \A i \in DOMAIN v.usage :
       \E p \in parts :
         /\ {q \in parts : \E k \in DOMAIN q.messages : q.messages[k].msg = v.usage[i].msg} = {p}
         /\ p.agent = v.usage[i].agent
         /\ p.index = Cardinality(Gone(v.resets, v.usage[i].agent, v.usage[i].at))

LEMMA SegmentsAre ==
  ASSUME NEW v, Costs!WellFormed(v)
  PROVE  \A p : p \in Costs!Segments(v) <=>
           \E a \in Groups(v), n \in Nat :
             n <= Cardinality(OfOne(v.resets, a)) /\ p = Part(v, a, n)
<1>1. \A a \in Groups(v) : /\ Costs!Len(Costs!OfAgent(v.resets, a)) = Cardinality(OfOne(v.resets, a))
                           /\ Cardinality(OfOne(v.resets, a)) \in Nat
  <2> TAKE a \in Groups(v)
  <2>1. PICK m : m = Len(v.resets)
    OBVIOUS
  <2>2. Timed(v.resets, m) /\ m \in Nat /\ 0 \in Nat
    BY <2>1, WellFormedSays DEF Timed
  <2>3. /\ Costs!Len(Costs!OfAgent(v.resets, a)) = Cardinality(OfOne(v.resets, a))
        /\ Cardinality(OfOne(v.resets, a)) \in 0..m
    BY <2>2, SegmentIs
  <2> QED BY <2>2, <2>3
<1>2. Costs!Segments(v) =
        UNION {{Part(v, a, n) : n \in 0..Costs!Len(Costs!OfAgent(v.resets, a))} : a \in Groups(v)}
  BY Zenon DEF Costs!Segments, Part, In, Groups
<1>3. \A a \in Groups(v) : \A n : n \in 0..Costs!Len(Costs!OfAgent(v.resets, a)) <=>
                                 n \in Nat /\ n <= Cardinality(OfOne(v.resets, a))
  BY <1>1
<1> QED BY <1>2, <1>3

LEMMA SegmentsFinite ==
  ASSUME NEW v, Costs!WellFormed(v)
  PROVE  IsFiniteSet(Costs!Segments(v))
<1>1. PICK m : m = Len(v.resets)
  OBVIOUS
<1>2. m \in Nat /\ Timed(v.resets, m) /\ Len(v.usage) \in Nat /\ DOMAIN v.usage = 1..Len(v.usage)
  BY <1>1, WellFormedSays DEF Timed
<1>3. IsFiniteSet(0..m) /\ IsFiniteSet(DOMAIN v.usage) /\ IsFiniteSet(DOMAIN v.resets)
  BY <1>2, FS_Interval DEF Timed
<1>4. IsFiniteSet(Groups(v))
  <2>1. IsFiniteSet({v.usage[i].agent : i \in DOMAIN v.usage})
    <3>1. PICK f, T : f = [i \in DOMAIN v.usage |-> v.usage[i].agent] /\ T = {v.usage[i].agent : i \in DOMAIN v.usage}
      OBVIOUS
    <3>2. PICK D : D = DOMAIN v.usage
      OBVIOUS
    <3>3. T = {f[i] : i \in D} /\ DOMAIN f = D /\ IsFiniteSet(D)
      BY <1>3, <3>1, <3>2
    <3>4. IsFiniteSet(T)
      BY <3>3, ImageFinite
    <3> QED BY <3>1, <3>4
  <2>2. IsFiniteSet({v.resets[i].agent : i \in DOMAIN v.resets})
    <3>1. PICK f, T : f = [i \in DOMAIN v.resets |-> v.resets[i].agent] /\ T = {v.resets[i].agent : i \in DOMAIN v.resets}
      OBVIOUS
    <3>2. PICK D : D = DOMAIN v.resets
      OBVIOUS
    <3>3. T = {f[i] : i \in D} /\ DOMAIN f = D /\ IsFiniteSet(D)
      BY <1>3, <3>1, <3>2
    <3>4. IsFiniteSet(T)
      BY <3>3, ImageFinite
    <3> QED BY <3>1, <3>4
  <2> QED BY <2>1, <2>2, FS_Union DEF Groups
<1>5. IsFiniteSet(Groups(v) \X (0..m))
  BY <1>3, <1>4, FS_Product
<1> DEFINE All == {Part(v, x[1], x[2]) : x \in Groups(v) \X (0..m)}
<1>6. IsFiniteSet(All)
  <2>1. PICK f : f = [x \in Groups(v) \X (0..m) |-> Part(v, x[1], x[2])]
    OBVIOUS
  <2>2. All = {f[x] : x \in Groups(v) \X (0..m)} /\ DOMAIN f = Groups(v) \X (0..m)
    BY <2>1
  <2> HIDE DEF All
  <2> QED BY <1>5, <2>2, ImageFinite
<1>7. Costs!Segments(v) \in SUBSET All
  <2> SUFFICES ASSUME NEW p \in Costs!Segments(v) PROVE p \in All
    OBVIOUS
  <2>1. PICK a \in Groups(v), n \in Nat : n <= Cardinality(OfOne(v.resets, a)) /\ p = Part(v, a, n)
    BY SegmentsAre
  <2>2. Cardinality(OfOne(v.resets, a)) \in 0..m /\ 0 \in Nat
    BY <1>2, SegmentIs
  <2>3. <<a, n>> \in Groups(v) \X (0..m)
    BY <1>2, <2>1, <2>2
  <2> QED BY <2>1, <2>3
<1> HIDE DEF All
<1> QED BY <1>6, <1>7, FS_Subset

LEMMA PartsReconcile ==
  ASSUME NEW v, Costs!WellFormed(v), Costs!Cost(v.usage) # None
  PROVE  Cut(v, Costs!Segments(v), Costs!Cost(v.usage))
<1> DEFINE D == DOMAIN v.usage
           parts == Costs!Segments(v)
           Own(i) == Part(v, v.usage[i].agent, Costs!Segment(v.resets, v.usage[i].agent, v.usage[i].at))
<1>1. /\ Len(v.usage) \in Nat /\ D = 1..Len(v.usage)
      /\ \A i \in D : v.usage[i].out \in Nat /\ v.usage[i].at \in Nat /\ Rate(v.usage[i].model) \in Int \cup {None}
      /\ \A i, j \in D : v.usage[i].msg = v.usage[j].msg => i = j
      /\ Timed(v.resets, Len(v.resets))
  BY WellFormedSays
<1>2. IsFiniteSet(D) /\ D \in SUBSET Nat
  BY <1>1, FS_Interval
<1>3. \A i \in D : Rate(v.usage[i].model) # None
  <2>1. Billed(v.usage, D) # None
    BY WholeCost
  <2> QED BY <2>1 DEF Billed
<1>4. PICK w : w = [i \in D |-> Usd(v.usage[i])]
  OBVIOUS
<1>5. w \in [D -> Int] /\ \A i \in D : w[i] = Usd(v.usage[i])
  <2>1. ASSUME NEW i \in D PROVE Usd(v.usage[i]) \in Int
    <3>1. v.usage[i].out \in Nat /\ Rate(v.usage[i].model) \in Int
      BY <1>1, <1>3
    <3> QED BY <3>1 DEF Usd
  <2> QED BY <1>4, <2>1
<1>6. Costs!Cost(v.usage) = Costs!Total(w)
  <2>1. Billed(v.usage, D) = Costs!Total(w)
    BY <1>3, <1>4, Zenon DEF Billed
  <2> QED BY <2>1, WholeCost
<1>7. ASSUME NEW i \in D
      PROVE  /\ Own(i) \in parts
             /\ Costs!Segment(v.resets, v.usage[i].agent, v.usage[i].at) =
                  Cardinality(Gone(v.resets, v.usage[i].agent, v.usage[i].at))
  <2>1. PICK a, n : a = v.usage[i].agent /\ n = Costs!Segment(v.resets, a, v.usage[i].at)
    OBVIOUS
  <2>2. /\ n \in 0..Cardinality(OfOne(v.resets, a))
        /\ n = Cardinality(Gone(v.resets, a, v.usage[i].at))
    BY <1>1, <2>1, SegmentIs
  <2>3. a \in Groups(v)
    BY <2>1 DEF Groups
  <2> QED BY <2>1, <2>2, <2>3, SegmentsAre
<1>8. PICK key : key = [i \in D |-> Own(i)]
  OBVIOUS
<1>9. key \in [D -> parts] /\ \A i \in D : key[i] = Own(i)
  BY <1>7, <1>8
<1>10. ASSUME NEW a \in Groups(v), NEW n \in Nat
       PROVE  /\ {i \in D : key[i] = Part(v, a, n)} = In(v, a, n)
              /\ Part(v, a, n).usd = Billed(v.usage, In(v, a, n))
              /\ In(v, a, n) \in SUBSET D
              /\ Part(v, a, n).messages = Costs!Kept(v.usage, In(v, a, n))
  <2>1. \A b, m : Part(v, b, m) = Part(v, a, n) => b = a /\ m = n
    BY DEF Part
  <2>2. {i \in D : key[i] = Part(v, a, n)} = In(v, a, n)
    <3>1. \A i \in D : key[i] = Part(v, a, n) <=> i \in In(v, a, n)
      <4> TAKE i \in D
      <4>1. key[i] = Part(v, a, n) => i \in In(v, a, n)
        BY <1>9, <2>1 DEF In
      <4>2. i \in In(v, a, n) => key[i] = Part(v, a, n)
        BY <1>9 DEF In
      <4> QED BY <4>1, <4>2
    <3> QED BY <3>1 DEF In
  <2>3. In(v, a, n) \in SUBSET D
    BY DEF In
  <2>4. IsFiniteSet(In(v, a, n)) /\ In(v, a, n) \in SUBSET Nat
    BY <1>2, <2>3, FS_Subset
  <2>5. Priceable(v.usage, In(v, a, n))
    BY <1>1, <2>3 DEF Priceable
  <2>6. Costs!Cost(Costs!Kept(v.usage, In(v, a, n))) = Billed(v.usage, In(v, a, n))
    BY <2>4, <2>5, KeptCost
  <2> QED BY <2>2, <2>3, <2>6 DEF Part
<1>11. [p \in parts |-> p.usd] = [p \in parts |-> PartSum(w, key, D, p)]
  <2> SUFFICES ASSUME NEW p \in parts PROVE p.usd = PartSum(w, key, D, p)
    OBVIOUS
  <2>1. PICK a \in Groups(v), n \in Nat : n <= Cardinality(OfOne(v.resets, a)) /\ p = Part(v, a, n)
    BY SegmentsAre
  <2>2. PICK S : S = In(v, a, n)
    OBVIOUS
  <2>3. {j \in D : key[j] = p} = S /\ p.usd = Billed(v.usage, S) /\ S \in SUBSET D
    BY <1>10, <2>1, <2>2
  <2>4. [i \in S |-> Usd(v.usage[i])] = [i \in S |-> w[i]]
    BY <1>5, <2>3
  <2>5. Billed(v.usage, S) = Costs!Total([i \in S |-> Usd(v.usage[i])])
    <3>1. ~ \E i \in S : Rate(v.usage[i].model) = None
      BY <1>3, <2>3
    <3> QED BY <3>1, Zenon DEF Billed
  <2>6. PartSum(w, key, D, p) = Costs!Total([i \in S |-> w[i]])
    BY <2>3, Zenon DEF PartSum
  <2> QED BY <2>3, <2>4, <2>5, <2>6
<1>12. Costs!Total([p \in parts |-> p.usd]) = Costs!Cost(v.usage)
  <2>1. Costs!Total([p \in parts |-> PartSum(w, key, D, p)]) = Costs!Total(w)
    <3>1. IsFiniteSet(parts)
      BY SegmentsFinite
    <3> HIDE DEF parts, D
    <3> QED BY <1>2, <1>5, <1>9, <3>1, SplitSum
  <2> QED BY <1>6, <1>11, <2>1
<1>13. ASSUME NEW i \in D
       PROVE  {q \in parts : \E k \in DOMAIN q.messages : q.messages[k].msg = v.usage[i].msg} = {Own(i)}
  <2>1. ASSUME NEW q \in parts
        PROVE  (\E k \in DOMAIN q.messages : q.messages[k].msg = v.usage[i].msg) <=> q = Own(i)
    <3>1. PICK a \in Groups(v), n \in Nat : q = Part(v, a, n)
      BY SegmentsAre
    <3>2. PICK S : S = In(v, a, n)
      OBVIOUS
    <3>3. /\ q.messages = Costs!Kept(v.usage, S) /\ S \in SUBSET D
          /\ \A j \in D : key[j] = q <=> j \in S
      <4>1. /\ {j \in D : key[j] = q} = S /\ S \in SUBSET D
            /\ q.messages = Costs!Kept(v.usage, S)
        BY <1>10, <3>1, <3>2
      <4> QED BY <4>1
    <3>4. IsFiniteSet(S) /\ S \in SUBSET Nat
      BY <1>2, <3>3, FS_Subset
    <3>5. PICK h : /\ Lists(h, S, Sooner(S))
                   /\ Costs!Kept(v.usage, S) = [k \in 1..Cardinality(S) |-> v.usage[h[k]]]
      BY <3>4, KeptIs
    <3>6. PICK list : list = q.messages
      OBVIOUS
    <3>7. DOMAIN list = 1..Cardinality(S) /\ \A k \in DOMAIN list : list[k] = v.usage[h[k]]
      BY <3>3, <3>5, <3>6
    <3>8. \A k \in 1..Cardinality(S) : h[k] \in S
      BY <3>5 DEF Lists
    <3>9. \A j \in S : \E k \in 1..Cardinality(S) : h[k] = j
      BY <3>5 DEF Lists
    <3>10. ASSUME NEW k \in DOMAIN list, list[k].msg = v.usage[i].msg PROVE i \in S
      <4>1. h[k] \in S /\ v.usage[h[k]].msg = v.usage[i].msg /\ h[k] \in D
        BY <3>3, <3>7, <3>8, <3>10
      <4> QED BY <1>1, <4>1
    <3>11. ASSUME i \in S PROVE \E k \in DOMAIN list : list[k].msg = v.usage[i].msg
      <4>1. PICK k \in 1..Cardinality(S) : h[k] = i
        BY <3>9, <3>11
      <4> QED BY <3>7, <4>1
    <3>12. i \in S <=> q = Own(i)
      BY <1>9, <3>3
    <3> QED BY <3>6, <3>10, <3>11, <3>12
  <2> HIDE DEF Own, parts
  <2> QED BY <1>7, <2>1
<1>14. \A i \in D :
         /\ Own(i) \in parts
         /\ {q \in parts : \E k \in DOMAIN q.messages : q.messages[k].msg = v.usage[i].msg} = {Own(i)}
         /\ Own(i).agent = v.usage[i].agent
         /\ Own(i).index = Cardinality(Gone(v.resets, v.usage[i].agent, v.usage[i].at))
  <2> TAKE i \in D
  <2>1. /\ Own(i).agent = v.usage[i].agent
        /\ Own(i).index = Costs!Segment(v.resets, v.usage[i].agent, v.usage[i].at)
    BY DEF Part
  <2> HIDE DEF Own, parts
  <2> QED BY <1>7, <1>13, <2>1
<1> HIDE DEF Own
<1> QED BY <1>12, <1>14, Zenon DEF Cut

-----------------------------------------------------------------------------
(* Two lists of the same messages, in whatever order, say the same *)

IsUsage(list) ==
  /\ DOMAIN list \in SUBSET Nat /\ IsFiniteSet(DOMAIN list)
  /\ \A i \in DOMAIN list : /\ list[i].out \in Nat /\ Rate(list[i].model) \in Int \cup {None}
                            /\ {"model", "out"} \subseteq DOMAIN list[i]

Retells(list, other, b) ==
  /\ IsUsage(list) /\ IsUsage(other)
  /\ Matches(b, DOMAIN list, DOMAIN other)
  /\ \A i \in DOMAIN list : /\ list[i].agent = other[b[i]].agent
                            /\ list[i].model = other[b[i]].model
                            /\ list[i].out = other[b[i]].out

Untied(list) ==
  \A i, j \in DOMAIN list :
    list[i].agent = list[j].agent /\ list[i].out = list[j].out => list[i].model = list[j].model

LEMMA Restricted ==
  ASSUME NEW D, NEW E, NEW b, Matches(b, D, E), NEW S \in SUBSET D, NEW T \in SUBSET E,
         \A i \in D : i \in S <=> b[i] \in T
  PROVE  Matches([i \in S |-> b[i]], S, T)
<1> DEFINE part == [i \in S |-> b[i]]
<1>1. /\ b \in [D -> E] /\ \A i, j \in D : b[i] = b[j] => i = j
      /\ \A p \in E : \E i \in D : b[i] = p
  BY DEF Matches
<1>2. part \in [S -> T] /\ \A i \in S : part[i] = b[i]
  BY <1>1
<1> HIDE DEF part
<1>3. \A i, j \in S : part[i] = part[j] => i = j
  BY <1>1, <1>2
<1>4. \A p \in T : \E i \in S : part[i] = p
  BY <1>1, <1>2
<1> QED BY <1>2, <1>3, <1>4 DEF Matches, part

LEMMA OfOneSame ==
  ASSUME NEW list, NEW other, NEW b, Retells(list, other, b), NEW a
  PROVE  /\ OfOne(list, a) \in SUBSET Nat /\ IsFiniteSet(OfOne(list, a)) /\ OfOne(list, a) \in SUBSET (DOMAIN list)
         /\ OfOne(other, a) \in SUBSET Nat /\ IsFiniteSet(OfOne(other, a)) /\ OfOne(other, a) \in SUBSET (DOMAIN other)
         /\ \E c : /\ Matches(c, OfOne(list, a), OfOne(other, a))
                   /\ \A i \in OfOne(list, a) : c[i] = b[i]
<1>1. OfOne(list, a) \in SUBSET (DOMAIN list) /\ OfOne(other, a) \in SUBSET (DOMAIN other)
  BY DEF OfOne
<1>2. /\ DOMAIN list \in SUBSET Nat /\ IsFiniteSet(DOMAIN list)
      /\ DOMAIN other \in SUBSET Nat /\ IsFiniteSet(DOMAIN other)
  BY DEF Retells, IsUsage
<1>3. IsFiniteSet(OfOne(list, a)) /\ IsFiniteSet(OfOne(other, a))
  BY <1>1, <1>2, FS_Subset
<1>4. \A i \in DOMAIN list : i \in OfOne(list, a) <=> b[i] \in OfOne(other, a)
  <2>1. \A i \in DOMAIN list : b[i] \in DOMAIN other /\ list[i].agent = other[b[i]].agent
    BY DEF Retells, Matches
  <2> QED BY <2>1 DEF OfOne
<1>5. Matches([i \in OfOne(list, a) |-> b[i]], OfOne(list, a), OfOne(other, a))
  <2>1. Matches(b, DOMAIN list, DOMAIN other)
    BY DEF Retells
  <2> QED BY <1>1, <1>4, <2>1, Restricted
<1>6. PICK c : c = [i \in OfOne(list, a) |-> b[i]]
  OBVIOUS
<1> QED BY <1>1, <1>2, <1>3, <1>5, <1>6

LEMMA SameActual ==
  ASSUME NEW list, NEW other, NEW b, Retells(list, other, b), NEW a
  PROVE  Costs!Cost(Costs!OfAgent(list, a)) = Costs!Cost(Costs!OfAgent(other, a))
<1>1. PICK S, T : S = OfOne(list, a) /\ T = OfOne(other, a)
  OBVIOUS
<1>2. /\ S \in SUBSET Nat /\ IsFiniteSet(S) /\ S \in SUBSET (DOMAIN list)
      /\ T \in SUBSET Nat /\ IsFiniteSet(T) /\ T \in SUBSET (DOMAIN other)
      /\ \E c : Matches(c, S, T) /\ \A i \in S : c[i] = b[i]
  BY <1>1, OfOneSame
<1>3. PICK c : Matches(c, S, T) /\ \A i \in S : c[i] = b[i]
  BY <1>2
<1>4. Priceable(other, T)
  BY <1>2 DEF Retells, IsUsage, Priceable
<1>5. \A i \in S : list[i].out = other[c[i]].out /\ list[i].model = other[c[i]].model
  BY <1>2, <1>3 DEF Retells
<1>6. Costs!Cost(Costs!Kept(list, S)) = Costs!Cost(Costs!Kept(other, T))
  BY <1>2, <1>3, <1>4, <1>5, SameCost
<1> QED BY <1>1, <1>6, Zenon DEF Costs!OfAgent, OfOne

\* The messages of an agent on another model.
Moved(e, m) == IF e.model = free THEN e ELSE [e EXCEPT !.model = m]
AllMoved(list, m) == [i \in DOMAIN list |-> Moved(list[i], m)]

LEMMA MovedKept ==
  ASSUME NEW list, NEW S \in SUBSET (DOMAIN list), S \in SUBSET Nat, IsFiniteSet(S), NEW m
  PROVE  AllMoved(Costs!Kept(list, S), m) = Costs!Kept(AllMoved(list, m), S)
<1>1. PICK h : /\ Lists(h, S, Sooner(S)) /\ \A k \in 1..Cardinality(S) : Costs!Nth(S, k) = h[k]
  BY NthIs
<1>2. \A k \in 1..Cardinality(S) : Costs!Nth(S, k) \in DOMAIN list
  BY <1>1 DEF Lists
<1>3. \A l : Costs!Kept(l, S) = [k \in 1..Cardinality(S) |-> l[Costs!Nth(S, k)]]
  BY SameCardinalityOfCosts DEF Costs!Kept
<1>4. PICK moved : moved = AllMoved(list, m)
  OBVIOUS
<1>5. \A i \in DOMAIN list : moved[i] = Moved(list[i], m)
  BY <1>4 DEF AllMoved
<1>6. PICK kept : kept = Costs!Kept(list, S)
  OBVIOUS
<1>7. DOMAIN kept = 1..Cardinality(S) /\ \A k \in 1..Cardinality(S) : kept[k] = list[Costs!Nth(S, k)]
  BY <1>3, <1>6
<1>8. AllMoved(kept, m) = [k \in 1..Cardinality(S) |-> Moved(kept[k], m)]
  BY <1>7 DEF AllMoved
<1>9. \A k \in 1..Cardinality(S) : Moved(kept[k], m) = moved[Costs!Nth(S, k)]
  BY <1>2, <1>5, <1>7
<1> QED BY <1>3, <1>4, <1>6, <1>8, <1>9

LEMMA SameOtherwise ==
  ASSUME NEW list, NEW other, NEW b, Retells(list, other, b), NEW a,
         NEW m, Rate(m) \in Int \cup {None}
  PROVE  Costs!Cost(AllMoved(Costs!OfAgent(list, a), m)) = Costs!Cost(AllMoved(Costs!OfAgent(other, a), m))
<1>1. PICK S, T : S = OfOne(list, a) /\ T = OfOne(other, a)
  OBVIOUS
<1>2. /\ S \in SUBSET Nat /\ IsFiniteSet(S) /\ S \in SUBSET (DOMAIN list)
      /\ T \in SUBSET Nat /\ IsFiniteSet(T) /\ T \in SUBSET (DOMAIN other)
      /\ \E c : Matches(c, S, T) /\ \A i \in S : c[i] = b[i]
  BY <1>1, OfOneSame
<1>3. PICK c : Matches(c, S, T) /\ \A i \in S : c[i] = b[i]
  BY <1>2
<1>4. ASSUME NEW e, {"model", "out"} \subseteq DOMAIN e
      PROVE  Moved(e, m).out = e.out /\ Moved(e, m).model = IF e.model = free THEN free ELSE m
  <2>1. CASE e.model = free
    BY <2>1 DEF Moved
  <2>2. CASE e.model # free
    <3>1. PICK x : x = [e EXCEPT !.model = m]
      OBVIOUS
    <3>2. x.model = m /\ x.out = e.out
      BY <1>4, <3>1
    <3> QED BY <2>2, <3>1, <3>2 DEF Moved
  <2> QED BY <2>1, <2>2
<1>5. /\ \A i \in DOMAIN list : AllMoved(list, m)[i] = Moved(list[i], m)
      /\ \A i \in DOMAIN other : AllMoved(other, m)[i] = Moved(other[i], m)
  BY DEF AllMoved
<1>6. Priceable(AllMoved(other, m), T)
  <2> SUFFICES ASSUME NEW i \in T
               PROVE  /\ AllMoved(other, m)[i].out \in Nat
                      /\ Rate(AllMoved(other, m)[i].model) \in Int \cup {None}
    BY DEF Priceable
  <2>1. /\ other[i].out \in Nat /\ Rate(other[i].model) \in Int \cup {None}
        /\ {"model", "out"} \subseteq DOMAIN other[i] /\ i \in DOMAIN other
    BY <1>2 DEF Retells, IsUsage
  <2>2. AllMoved(other, m)[i] = Moved(other[i], m)
    BY <1>5, <2>1
  <2>3. /\ Moved(other[i], m).out = other[i].out
        /\ Moved(other[i], m).model = IF other[i].model = free THEN free ELSE m
    BY <1>4, <2>1
  <2>4. CASE other[i].model = free
    BY <2>1, <2>2, <2>3, <2>4, Zenon
  <2>5. CASE other[i].model # free
    BY <2>1, <2>2, <2>3, <2>5, Zenon
  <2> QED BY <2>4, <2>5
<1>7. \A i \in S : /\ AllMoved(list, m)[i].out = AllMoved(other, m)[c[i]].out
                   /\ AllMoved(list, m)[i].model = AllMoved(other, m)[c[i]].model
  <2> TAKE i \in S
  <2>1. i \in DOMAIN list /\ b[i] \in DOMAIN other /\ c[i] = b[i]
    BY <1>2, <1>3 DEF Retells, Matches
  <2>2. /\ {"model", "out"} \subseteq DOMAIN list[i] /\ {"model", "out"} \subseteq DOMAIN other[b[i]]
        /\ list[i].model = other[b[i]].model /\ list[i].out = other[b[i]].out
    BY <2>1 DEF Retells, IsUsage
  <2>3. /\ AllMoved(list, m)[i] = Moved(list[i], m)
        /\ AllMoved(other, m)[b[i]] = Moved(other[b[i]], m)
    BY <1>5, <2>1
  <2>4. /\ Moved(list[i], m).out = list[i].out
        /\ Moved(list[i], m).model = IF list[i].model = free THEN free ELSE m
        /\ Moved(other[b[i]], m).out = other[b[i]].out
        /\ Moved(other[b[i]], m).model = IF other[b[i]].model = free THEN free ELSE m
    BY <1>4, <2>2
  <2> QED BY <2>1, <2>2, <2>3, <2>4, Zenon
<1>8. Costs!Cost(Costs!Kept(AllMoved(list, m), S)) = Costs!Cost(Costs!Kept(AllMoved(other, m), T))
  BY <1>2, <1>3, <1>6, <1>7, SameCost
<1>9. /\ AllMoved(Costs!Kept(list, S), m) = Costs!Kept(AllMoved(list, m), S)
      /\ AllMoved(Costs!Kept(other, T), m) = Costs!Kept(AllMoved(other, m), T)
  BY <1>2, MovedKept
<1>10. Costs!OfAgent(list, a) = Costs!Kept(list, S) /\ Costs!OfAgent(other, a) = Costs!Kept(other, T)
  BY <1>1, Zenon DEF Costs!OfAgent, OfOne
<1> QED BY <1>8, <1>9, <1>10

\* Of a finite set of places, one whose message is largest.
LEMMA SomeLargest ==
  ASSUME NEW S \in SUBSET Nat, IsFiniteSet(S), S # {}, NEW list, \A i \in S : list[i].out \in Nat
  PROVE  \E i \in S : \A j \in S : list[j].out <= list[i].out
<1> DEFINE R == {p \in S \X S : list[p[1]].out < list[p[2]].out
                               \/ (list[p[1]].out = list[p[2]].out /\ p[1] < p[2])}
<1>1. \A i, j \in S : <<i, j>> \in R <=>
        list[i].out < list[j].out \/ (list[i].out = list[j].out /\ i < j)
  OBVIOUS
<1> HIDE DEF R
<1>2. \A i \in S : i \in Nat /\ list[i].out \in Nat
  OBVIOUS
<1>3. Ordered(S, R)
  <2>1. \A i \in S : <<i, i>> \notin R
    BY <1>1, <1>2
  <2>2. \A i, j \in S : i # j => <<i, j>> \in R \/ <<j, i>> \in R
    BY <1>1, <1>2
  <2>3. \A i, j, k \in S : <<i, j>> \in R /\ <<j, k>> \in R => <<i, k>> \in R
    <3> TAKE i, j, k \in S
    <3>1. list[i].out \in Nat /\ list[j].out \in Nat /\ list[k].out \in Nat /\ i \in Nat /\ j \in Nat /\ k \in Nat
      BY <1>2
    <3> QED BY <1>1, <3>1
  <2> QED BY <2>1, <2>2, <2>3 DEF Ordered
<1>4. PICK h : Lists(h, S, R)
  BY <1>3, Ranking
<1>5. PICK c : c = Cardinality(S)
  OBVIOUS
<1>6. c \in Nat /\ c # 0
  BY <1>5, FS_CardinalityType, FS_EmptySet
<1>7. /\ \A k \in 1..c : h[k] \in S
      /\ \A i \in S : \E k \in 1..c : h[k] = i
      /\ \A j, k \in 1..c : j < k <=> <<h[j], h[k]>> \in R
  BY <1>4, <1>5 DEF Lists
<1>8. c \in 1..c
  BY <1>6
<1>9. ASSUME NEW j \in S PROVE list[j].out <= list[h[c]].out
  <2>1. PICK k \in 1..c : h[k] = j
    BY <1>7
  <2>2. k < c \/ k = c
    BY <1>6
  <2>3. CASE k = c
    BY <1>2, <2>1, <2>3
  <2>4. CASE k < c
    <3>1. <<h[k], h[c]>> \in R /\ h[c] \in S
      BY <1>7, <1>8, <2>4
    <3>2. list[h[k]].out < list[h[c]].out \/ list[h[k]].out = list[h[c]].out
      BY <1>1, <2>1, <3>1
    <3>3. list[j].out < list[h[c]].out \/ list[j].out = list[h[c]].out
      BY <2>1, <3>2
    <3>4. list[j].out \in Nat /\ list[h[c]].out \in Nat
      BY <1>2, <3>1
    <3> QED BY <3>3, <3>4
  <2> QED BY <2>2, <2>3, <2>4
<1> QED BY <1>7, <1>8, <1>9

Real(list, a) == {i \in DOMAIN list : list[i].agent = a /\ list[i].model # free}

\* The model an agent settled on is that of its largest message.
LEMMA SettledIs ==
  ASSUME NEW list, IsUsage(list), NEW a
  PROVE  \/ Real(list, a) = {} /\ Costs!SettledModel(Costs!OfAgent(list, a)) = None
         \/ \E i \in Real(list, a) :
              /\ \A j \in Real(list, a) : list[j].out <= list[i].out
              /\ Costs!SettledModel(Costs!OfAgent(list, a)) = list[i].model
<1>1. PICK S : S = OfOne(list, a)
  OBVIOUS
<1>2. S \in SUBSET (DOMAIN list) /\ S \in SUBSET Nat /\ IsFiniteSet(S)
  BY <1>1, FS_Subset DEF IsUsage, OfOne
<1>3. PICK own : own = Costs!OfAgent(list, a)
  OBVIOUS
<1>4. own = Costs!Kept(list, S)
  BY <1>1, <1>3, Zenon DEF Costs!OfAgent, OfOne
<1>5. PICK h : /\ Lists(h, S, Sooner(S))
               /\ Costs!Kept(list, S) = [k \in 1..Cardinality(S) |-> list[h[k]]]
  BY <1>2, KeptIs
<1>6. PICK c : c = Cardinality(S)
  OBVIOUS
<1>7. /\ c \in Nat /\ DOMAIN own = 1..c
      /\ \A k \in 1..c : own[k] = list[h[k]] /\ h[k] \in S
      /\ \A i \in S : \E k \in 1..c : h[k] = i
  BY <1>2, <1>4, <1>5, <1>6, FS_CardinalityType DEF Lists
<1> DEFINE T == {k \in DOMAIN own : own[k].model # free}
<1>8. T \in SUBSET Nat /\ IsFiniteSet(T) /\ T \in SUBSET (1..c)
  <2>1. T \in SUBSET (1..c) /\ (1..c) \in SUBSET Nat
    BY <1>7
  <2>2. IsFiniteSet(1..c)
    BY <1>7, FS_Interval
  <2> HIDE DEF T
  <2> QED BY <2>1, <2>2, FS_Subset
<1>9. PICK g : /\ Lists(g, T, Sooner(T))
               /\ Costs!Kept(own, T) = [k \in 1..Cardinality(T) |-> own[g[k]]]
  <2> HIDE DEF T
  <2> QED BY <1>8, KeptIs
<1>10. PICK real, d : real = Costs!Kept(own, T) /\ d = Cardinality(T)
  OBVIOUS
<1>11. /\ d \in Nat /\ DOMAIN real = 1..d
       /\ \A k \in 1..d : real[k] = own[g[k]] /\ g[k] \in T
       /\ \A i \in T : \E k \in 1..d : g[k] = i
       /\ d = 0 <=> T = {}
  <2> HIDE DEF T
  <2> QED BY <1>8, <1>9, <1>10, FS_CardinalityType, FS_EmptySet DEF Lists
<1>12. \A k \in 1..d : h[g[k]] \in Real(list, a) /\ real[k] = list[h[g[k]]]
  <2> TAKE k \in 1..d
  <2>1. g[k] \in 1..c /\ own[g[k]].model # free /\ real[k] = own[g[k]]
    BY <1>8, <1>11
  <2>2. own[g[k]] = list[h[g[k]]] /\ h[g[k]] \in S
    BY <1>7, <2>1
  <2> QED BY <1>1, <2>1, <2>2 DEF OfOne, Real
<1>13. \A i \in Real(list, a) : \E k \in 1..d : h[g[k]] = i
  <2> TAKE i \in Real(list, a)
  <2>1. i \in S /\ list[i].model # free
    BY <1>1 DEF OfOne, Real
  <2>2. PICK m \in 1..c : h[m] = i
    BY <1>7, <2>1
  <2>3. m \in T
    BY <1>7, <2>1, <2>2
  <2>4. PICK k \in 1..d : g[k] = m
    BY <1>11, <2>3
  <2> QED BY <2>2, <2>4
<1> DEFINE largest == {i \in DOMAIN real : \A j \in DOMAIN real : real[j].out <= real[i].out}
<1>14. Costs!SettledModel(own) = IF real = << >> THEN None ELSE real[Costs!Min(largest)].model
  BY <1>10, Zenon DEF Costs!SettledModel
<1> HIDE DEF T
<1>15. CASE d = 0
  <2>1. DOMAIN real = {}
    BY <1>11, <1>15
  <2>2. real = << >>
    BY <1>9, <1>10, <2>1
  <2>3. Real(list, a) = {}
    BY <1>13, <1>15
  <2> QED BY <1>3, <1>14, <2>2, <2>3
<1>16. CASE d # 0
  <2>1. DOMAIN real \in SUBSET Nat /\ IsFiniteSet(DOMAIN real) /\ DOMAIN real # {}
    <3>1. d \in Nat /\ DOMAIN real = 1..d /\ 1 \in 1..d
      BY <1>11, <1>16
    <3>2. IsFiniteSet(1..d) /\ (1..d) \in SUBSET Nat
      BY <3>1, FS_Interval
    <3> QED BY <3>1, <3>2
  <2>2. \A k \in DOMAIN real : real[k].out \in Nat
    <3> TAKE k \in DOMAIN real
    <3>1. h[g[k]] \in DOMAIN list /\ real[k] = list[h[g[k]]]
      BY <1>11, <1>12 DEF Real
    <3>2. list[h[g[k]]].out \in Nat
      BY <3>1 DEF IsUsage
    <3> QED BY <3>1, <3>2, Zenon
  <2>3. largest # {} /\ largest \in SUBSET Nat
    <3>1. \E i \in DOMAIN real : \A j \in DOMAIN real : real[j].out <= real[i].out
      BY <2>1, <2>2, SomeLargest
    <3> QED BY <2>1, <3>1
  <2>4. Costs!Min(largest) \in largest
    <3>1. \E m \in largest : \A k \in largest : m <= k
      <4> HIDE DEF largest
      <4> QED BY <2>3, LeastNumber
    <3> HIDE DEF largest
    <3> QED BY <3>1 DEF Costs!Min
  <2>5. PICK k \in DOMAIN real : k = Costs!Min(largest) /\ \A j \in DOMAIN real : real[j].out <= real[k].out
    BY <2>4
  <2>6. real # << >>
    BY <2>1
  <2>7. Costs!SettledModel(own) = real[k].model
    <3> HIDE DEF largest
    <3> QED BY <1>14, <2>5, <2>6
  <2>8. k \in 1..d /\ real[k] = list[h[g[k]]] /\ h[g[k]] \in Real(list, a)
    BY <1>11, <1>12
  <2>9. ASSUME NEW j \in Real(list, a) PROVE list[j].out <= list[h[g[k]]].out
    <3>1. PICK m \in 1..d : h[g[m]] = j
      BY <1>13
    <3>2. real[m].out <= real[k].out /\ real[m] = list[j]
      BY <1>11, <1>12, <2>5, <3>1
    <3> QED BY <2>8, <3>2
  <2>10. Costs!SettledModel(Costs!OfAgent(list, a)) = list[h[g[k]]].model
    BY <1>3, <2>7, <2>8
  <2> HIDE DEF largest
  <2> QED BY <2>8, <2>9, <2>10
<1> QED BY <1>15, <1>16

LEMMA SameSettled ==
  ASSUME NEW list, NEW other, NEW b, Retells(list, other, b), Untied(list), NEW a
  PROVE  Costs!SettledModel(Costs!OfAgent(list, a)) = Costs!SettledModel(Costs!OfAgent(other, a))
<1>1. IsUsage(list) /\ IsUsage(other)
  BY DEF Retells
<1>2. /\ \A i \in DOMAIN list : /\ b[i] \in DOMAIN other /\ list[i].agent = other[b[i]].agent
                                /\ list[i].model = other[b[i]].model /\ list[i].out = other[b[i]].out
      /\ \A k \in DOMAIN other : \E i \in DOMAIN list : b[i] = k
  BY DEF Retells, Matches
<1>3. \A i \in DOMAIN list : i \in Real(list, a) <=> b[i] \in Real(other, a)
  BY <1>2 DEF Real
<1>4. \A k \in Real(other, a) : \E i \in Real(list, a) : b[i] = k
  BY <1>2, <1>3 DEF Real
<1>5. PICK mine, theirs : /\ mine = Costs!SettledModel(Costs!OfAgent(list, a))
                          /\ theirs = Costs!SettledModel(Costs!OfAgent(other, a))
  OBVIOUS
<1>6. \/ Real(list, a) = {} /\ mine = None
      \/ \E i \in Real(list, a) : (\A j \in Real(list, a) : list[j].out <= list[i].out) /\ mine = list[i].model
  BY <1>1, <1>5, SettledIs
<1>7. \/ Real(other, a) = {} /\ theirs = None
      \/ \E i \in Real(other, a) : (\A j \in Real(other, a) : other[j].out <= other[i].out) /\ theirs = other[i].model
  BY <1>1, <1>5, SettledIs
<1>8. Real(list, a) = {} <=> Real(other, a) = {}
  <2>1. Real(list, a) = {} => Real(other, a) = {}
    BY <1>4
  <2>2. Real(other, a) = {} => Real(list, a) = {}
    BY <1>3 DEF Real
  <2> QED BY <2>1, <2>2
<1>9. CASE Real(list, a) = {}
  BY <1>5, <1>6, <1>7, <1>8, <1>9
<1>10. CASE Real(list, a) # {}
  <2>1. PICK i \in Real(list, a) : (\A j \in Real(list, a) : list[j].out <= list[i].out) /\ mine = list[i].model
    BY <1>6, <1>10
  <2>2. PICK k \in Real(other, a) : (\A j \in Real(other, a) : other[j].out <= other[k].out) /\ theirs = other[k].model
    BY <1>7, <1>8, <1>10
  <2>3. PICK m \in Real(list, a) : b[m] = k
    BY <1>4
  <2>4. i \in DOMAIN list /\ m \in DOMAIN list /\ list[i].agent = a /\ list[m].agent = a /\ b[i] \in Real(other, a)
    BY <1>3 DEF Real
  <2>5. list[m].out <= list[i].out /\ other[b[i]].out <= other[k].out
    BY <2>1, <2>2, <2>4
  <2>6. list[m].out = other[k].out /\ list[m].model = other[k].model /\ list[i].out = other[b[i]].out
    BY <1>2, <2>3, <2>4
  <2>7. list[m].out \in Nat /\ list[i].out \in Nat
    BY <1>1, <2>4 DEF IsUsage
  <2>8. list[m].out = list[i].out
    BY <2>5, <2>6, <2>7
  <2>9. list[m].model = list[i].model
    BY <2>4, <2>8 DEF Untied
  <2> QED BY <1>5, <2>1, <2>2, <2>6, <2>9
<1> QED BY <1>9, <1>10

-----------------------------------------------------------------------------
(* What delegating saved, told from either account *)

Climb(agents, a, N, up) ==
  up = [n \in 1..N |-> IF n = 1 THEN agents[a]
                       ELSE IF up[n - 1] \in DOMAIN agents THEN agents[up[n - 1]] ELSE None]

LEMMA ClimbExists ==
  ASSUME NEW agents, NEW a, NEW N \in Nat
  PROVE  \E up : Climb(agents, a, N, up)
<1> DEFINE Not == {n \in Nat : ~ \E up : Climb(agents, a, n, up)}
<1>1. ASSUME Not # {} PROVE FALSE
  <2>1. PICK n \in Not : \A j \in Not : n <= j
    <3>1. Not \in SUBSET Nat
      OBVIOUS
    <3> HIDE DEF Not
    <3> QED BY <1>1, <3>1, LeastNumber
  <2>2. n \in Nat /\ ~ \E up : Climb(agents, a, n, up)
    BY <2>1
  <2>3. CASE n = 0
    <3>1. PICK up : up = [k \in {} |-> None]
      OBVIOUS
    <3>2. 1..0 = {}
      OBVIOUS
    <3>3. Climb(agents, a, 0, up)
      BY <3>1, <3>2 DEF Climb
    <3> QED BY <2>2, <2>3, <3>3
  <2>4. CASE n # 0
    <3>1. n - 1 \in Nat /\ n - 1 \notin Not
      <4>1. n - 1 \in Nat /\ ~ (n <= n - 1)
        BY <2>2, <2>4
      <4> HIDE DEF Not
      <4> QED BY <2>1, <4>1
    <3>2. PICK f : Climb(agents, a, n - 1, f)
      BY <3>1
    <3> DEFINE Step(g, k) == IF k = 1 THEN agents[a]
                              ELSE IF g[k - 1] \in DOMAIN agents THEN agents[g[k - 1]] ELSE None
    <3>3. \A k \in 1..(n - 1) : f[k] = Step(f, k)
      BY <3>2, Zenon DEF Climb
    <3>4. PICK g : g = [k \in 1..n |-> IF k = n THEN Step(f, n) ELSE f[k]]
      OBVIOUS
    <3>5. \A k \in 1..n : g[k] = IF k = n THEN Step(f, n) ELSE f[k]
      BY <3>4
    <3>6. \A k \in 1..n : k # 1 => g[k - 1] = f[k - 1]
      <4> HIDE DEF Step
      <4> TAKE k \in 1..n
      <4>1. k # 1 => k - 1 \in 1..n /\ k - 1 # n
        BY <2>2
      <4> QED BY <3>5, <4>1
    <3>7. \A k \in 1..n : k # n => k \in 1..(n - 1)
      BY <2>2
    <3>8. \A k \in 1..n : g[k] = Step(g, k)
      <4> TAKE k \in 1..n
      <4>1. CASE k = n
        BY <3>5, <3>6, <4>1
      <4>2. CASE k # n
        <5>1. g[k] = f[k] /\ f[k] = Step(f, k)
          <6> HIDE DEF Step
          <6> QED BY <3>3, <3>5, <3>7, <4>2
        <5>2. Step(f, k) = Step(g, k)
          BY <3>6
        <5> HIDE DEF Step
        <5> QED BY <5>1, <5>2
      <4> QED BY <4>1, <4>2
    <3>9. DOMAIN g = 1..n /\ g = [k \in 1..n |-> g[k]]
      BY <3>4
    <3>10. Climb(agents, a, n, g)
      BY <3>8, <3>9 DEF Climb
    <3> QED BY <2>2, <3>10
  <2> QED BY <2>3, <2>4
<1>2. N \notin Not
  <2> HIDE DEF Not
  <2> QED BY <1>1
<1> QED BY <1>2

KeyIn(agents, p) == IF p = main /\ main \in DOMAIN agents THEN None ELSE p

ToldBy(agents, usage, a, up) ==
  {n \in DOMAIN up : /\ \A k \in 1..n : up[k] \notin {None, a}
                     /\ Costs!SettledModel(Costs!OfAgent(usage, KeyIn(agents, up[n]))) # None}

TierBy(agents, usage, a, up) ==
  IF ToldBy(agents, usage, a, up) = {} THEN None
  ELSE Costs!SettledModel(Costs!OfAgent(usage, KeyIn(agents, up[Costs!Min(ToldBy(agents, usage, a, up))])))

LEMMA TopTierIs ==
  ASSUME NEW agents, IsFiniteSet(DOMAIN agents), NEW usage, NEW a
  PROVE  \E up : /\ Climb(agents, a, Cardinality(DOMAIN agents), up)
                 /\ Costs!TopTier(agents, usage, a) = TierBy(agents, usage, a, up)
<1>1. PICK N : N = Cardinality(DOMAIN agents)
  OBVIOUS
<1>2. N \in Nat
  BY <1>1, FS_CardinalityType
<1>3. PICK up : up = CHOOSE u : Climb(agents, a, N, u)
  OBVIOUS
<1>4. Climb(agents, a, N, up)
  BY <1>2, <1>3, ClimbExists
<1>5. N = Costs!Cardinality(DOMAIN agents)
  BY <1>1, SameCardinalityOfCosts
<1>6. Costs!TopTier(agents, usage, a) =
        TierBy(agents, usage, a, CHOOSE u : Climb(agents, a, Costs!Cardinality(DOMAIN agents), u))
  BY Zenon DEF Costs!TopTier, Climb, TierBy, ToldBy, KeyIn
<1> QED BY <1>1, <1>3, <1>4, <1>5, <1>6

\* What is stored of a session that was read whole.
Stored(r, v) ==
  /\ DOMAIN r.agents = DOMAIN v.agents
  /\ \A a \in DOMAIN v.agents :
       r.agents[a] = IF v.agents[a] \in DOMAIN v.agents THEN v.agents[a] ELSE None
  /\ DOMAIN r.usage = {v.usage[i].msg : i \in DOMAIN v.usage}
  /\ \A i \in DOMAIN v.usage :
       r.usage[v.usage[i].msg] =
         [agent |-> IF v.usage[i].agent = None THEN main ELSE v.usage[i].agent,
          model |-> v.usage[i].model, out |-> v.usage[i].out]

LEMMA SameTier ==
  ASSUME NEW v, Costs!WellFormed(v), NEW r, Stored(r, v), Untied(v.usage),
         NEW list, NEW b, Retells(v.usage, list, b), NEW a \in DOMAIN v.agents
  PROVE  Costs!TopTier(v.agents, v.usage, a) = Costs!TopTier(r.agents, list, a)
<1>1. PICK D : D = DOMAIN v.agents
  OBVIOUS
<1>2. PICK N : N = Cardinality(D)
  OBVIOUS
<1>3. /\ IsFiniteSet(D) /\ DOMAIN r.agents = D /\ N \in Nat /\ main \in D /\ None \notin D /\ a \in D
      /\ \A x \in D : r.agents[x] = IF v.agents[x] \in D THEN v.agents[x] ELSE None
  BY <1>1, <1>2, WellFormedSays, FS_CardinalityType DEF Stored
<1>4. PICK up : /\ Climb(v.agents, a, N, up)
                /\ Costs!TopTier(v.agents, v.usage, a) = TierBy(v.agents, v.usage, a, up)
  BY <1>1, <1>2, <1>3, TopTierIs
<1>5. PICK to : /\ Climb(r.agents, a, N, to)
                /\ Costs!TopTier(r.agents, list, a) = TierBy(r.agents, list, a, to)
  BY <1>2, <1>3, TopTierIs
<1>6. /\ DOMAIN up = 1..N
      /\ \A n \in 1..N : up[n] = IF n = 1 THEN v.agents[a]
                                 ELSE IF up[n - 1] \in D THEN v.agents[up[n - 1]] ELSE None
  BY <1>1, <1>4, Zenon DEF Climb
<1>7. /\ DOMAIN to = 1..N
      /\ \A n \in 1..N : to[n] = IF n = 1 THEN r.agents[a]
                                 ELSE IF to[n - 1] \in D THEN r.agents[to[n - 1]] ELSE None
  BY <1>3, <1>5, Zenon DEF Climb
<1> DEFINE Not == {n \in 1..N : to[n] # IF up[n] \in D THEN up[n] ELSE None}
<1>8. Not = {}
  <2> SUFFICES ASSUME Not # {} PROVE FALSE
    OBVIOUS
  <2>1. PICK n \in Not : \A j \in Not : n <= j
    <3>1. Not \in SUBSET Nat
      BY <1>3
    <3> HIDE DEF Not
    <3> QED BY <3>1, LeastNumber
  <2>2. n \in 1..N /\ to[n] # IF up[n] \in D THEN up[n] ELSE None
    BY <2>1
  <2>3. CASE n = 1
    BY <1>3, <1>6, <1>7, <2>2, <2>3
  <2>4. CASE n # 1
    <3>1. n - 1 \in 1..N /\ n - 1 \notin Not
      <4>1. n - 1 \in 1..N /\ ~ (n <= n - 1)
        BY <1>3, <2>2, <2>4
      <4> HIDE DEF Not
      <4> QED BY <2>1, <4>1
    <3>2. PICK m : m = n - 1
      OBVIOUS
    <3>3. to[m] = IF up[m] \in D THEN up[m] ELSE None
      BY <3>1, <3>2
    <3>4. /\ up[n] = IF up[m] \in D THEN v.agents[up[m]] ELSE None
          /\ to[n] = IF to[m] \in D THEN r.agents[to[m]] ELSE None
      BY <1>6, <1>7, <2>2, <2>4, <3>2
    <3>5. CASE up[m] \in D
      BY <1>3, <2>2, <3>3, <3>4, <3>5
    <3>6. CASE up[m] \notin D
      BY <1>3, <2>2, <3>3, <3>4, <3>6
    <3> QED BY <3>5, <3>6
  <2> QED BY <2>3, <2>4
<1>9. \A n \in 1..N : to[n] = IF up[n] \in D THEN up[n] ELSE None
  BY <1>8
<1> HIDE DEF Not
<1>10. \A p : KeyIn(v.agents, p) = KeyIn(r.agents, p)
  BY <1>1, <1>3 DEF KeyIn
<1> DEFINE Mine(p) == Costs!SettledModel(Costs!OfAgent(v.usage, KeyIn(v.agents, p)))
           Theirs(p) == Costs!SettledModel(Costs!OfAgent(list, KeyIn(r.agents, p)))
<1>11. \A p : Mine(p) = Theirs(p)
  BY <1>10, SameSettled
<1>12. \A p : p \notin D /\ p # None => Mine(p) = None
  <2> SUFFICES ASSUME NEW p, p \notin D, p # None PROVE Mine(p) = None
    OBVIOUS
  <2>1. KeyIn(v.agents, p) = p
    BY <1>3 DEF KeyIn
  <2>2. \A i \in DOMAIN v.usage : v.usage[i].agent # p
    <3> SUFFICES ASSUME NEW i \in DOMAIN v.usage PROVE v.usage[i].agent # p
      OBVIOUS
    <3>1. v.usage[i].agent \in (DOMAIN v.agents \ {main}) \cup {None}
      BY WellFormedSays
    <3> QED BY <1>1, <3>1
  <2>3. Real(v.usage, p) = {}
    BY <2>2 DEF Real
  <2>4. IsUsage(v.usage)
    BY DEF Retells
  <2>5. Costs!SettledModel(Costs!OfAgent(v.usage, p)) = None
    BY <2>3, <2>4, SettledIs
  <2> QED BY <2>1, <2>5
<1> DEFINE S == ToldBy(v.agents, v.usage, a, up)
           T == ToldBy(r.agents, list, a, to)
<1>13. \A n : n \in S <=> n \in 1..N /\ (\A k \in 1..n : up[k] \notin {None, a}) /\ Mine(up[n]) # None
  BY <1>6 DEF ToldBy
<1>14. \A n : n \in T <=> n \in 1..N /\ (\A k \in 1..n : to[k] \notin {None, a}) /\ Theirs(to[n]) # None
  BY <1>7 DEF ToldBy
<1> HIDE DEF S, T, Mine, Theirs
<1>15. ASSUME NEW n \in S PROVE n \in T /\ to[n] = up[n]
  <2>1. n \in 1..N /\ (\A k \in 1..n : up[k] \notin {None, a}) /\ Mine(up[n]) # None
    BY <1>13
  <2>2. n \in 1..n /\ \A k \in 1..n : k \in 1..N
    BY <1>3, <2>1
  <2>3. ASSUME NEW k \in 1..n PROVE up[k] \in D
    <3>1. CASE k = n
      BY <1>12, <2>1, <2>2, <3>1
    <3>2. CASE k # n
      <4>1. k + 1 \in 1..n /\ k + 1 # 1 /\ (k + 1) - 1 = k
        BY <1>3, <2>1, <3>2
      <4>2. PICK j : j = k + 1
        OBVIOUS
      <4>3. j \in 1..N /\ j \in 1..n /\ j # 1 /\ j - 1 = k
        BY <2>2, <4>1, <4>2
      <4>4. up[j] = IF up[k] \in D THEN v.agents[up[k]] ELSE None
        BY <1>6, <4>3
      <4> QED BY <2>1, <4>3, <4>4
    <3> QED BY <3>1, <3>2
  <2>4. \A k \in 1..n : to[k] = up[k]
    BY <1>9, <2>2, <2>3
  <2> QED BY <1>11, <1>14, <2>1, <2>2, <2>4
<1>16. ASSUME NEW n \in T PROVE n \in S
  <2>1. n \in 1..N /\ (\A k \in 1..n : to[k] \notin {None, a}) /\ Theirs(to[n]) # None
    BY <1>14
  <2>2. n \in 1..n /\ \A k \in 1..n : k \in 1..N
    BY <1>3, <2>1
  <2>3. \A k \in 1..n : to[k] = up[k]
    BY <1>9, <2>1, <2>2
  <2> QED BY <1>11, <1>13, <2>1, <2>2, <2>3
<1>17. S = T
  BY <1>15, <1>16
<1>18. CASE S = {}
  <2>1. TierBy(v.agents, v.usage, a, up) = None /\ TierBy(r.agents, list, a, to) = None
    BY <1>17, <1>18 DEF TierBy, S, T
  <2> QED BY <1>4, <1>5, <2>1
<1>19. CASE S # {}
  <2>1. S \in SUBSET Nat
    BY <1>3, <1>13
  <2>2. \E m \in S : \A k \in S : m <= k
    BY <1>19, <2>1, LeastNumber
  <2>3. PICK m : m = Costs!Min(S)
    OBVIOUS
  <2>4. m \in S
    BY <2>2, <2>3 DEF Costs!Min
  <2>5. TierBy(v.agents, v.usage, a, up) = Mine(up[m])
    BY <1>19, <2>3, Zenon DEF TierBy, S, Mine
  <2>6. TierBy(r.agents, list, a, to) = Theirs(to[m])
    <3>1. T # {} /\ m = Costs!Min(T)
      BY <1>17, <1>19, <2>3
    <3> QED BY <3>1, Zenon DEF TierBy, T, Theirs
  <2> QED BY <1>4, <1>5, <1>11, <1>15, <2>4, <2>5, <2>6
<1> QED BY <1>18, <1>19

\* The model it names is one that a message names.
LEMMA TierNamed ==
  ASSUME NEW agents, IsFiniteSet(DOMAIN agents), NEW usage, IsUsage(usage), NEW a,
         Costs!TopTier(agents, usage, a) # None
  PROVE  Rate(Costs!TopTier(agents, usage, a)) \in Int \cup {None}
<1>1. PICK up : Costs!TopTier(agents, usage, a) = TierBy(agents, usage, a, up)
  BY TopTierIs
<1>2. PICK x : Costs!TopTier(agents, usage, a) = Costs!SettledModel(Costs!OfAgent(usage, x))
  BY <1>1 DEF TierBy
<1>3. PICK i \in DOMAIN usage : Costs!TopTier(agents, usage, a) = usage[i].model
  BY <1>2, SettledIs DEF Real
<1> QED BY <1>3 DEF IsUsage

ModelBy(agents, usage, named, a) == IF named = None THEN Costs!TopTier(agents, usage, a) ELSE named
PricedBy(agents, usage, named) == {a \in DOMAIN agents \ {main} : ModelBy(agents, usage, named, a) # None}
OtherwiseBy(agents, usage, named, a) ==
  Costs!Cost(AllMoved(Costs!OfAgent(usage, a), ModelBy(agents, usage, named, a)))
Saved(agents, usage, named, priced) ==
  [perAgent |-> [a \in priced |-> <<Costs!Cost(Costs!OfAgent(usage, a)),
                                   OtherwiseBy(agents, usage, named, a),
                                   ModelBy(agents, usage, named, a)>>],
   skipped |-> (DOMAIN agents \ {main}) \ priced]
Halts(agents, usage, named) ==
  \E a \in PricedBy(agents, usage, named) :
    None \in {Costs!Cost(Costs!OfAgent(usage, a)), OtherwiseBy(agents, usage, named, a)}

LEMMA SavingsAre ==
  ASSUME NEW agents, NEW usage, NEW named
  PROVE  Costs!Savings(agents, usage, named) =
           IF Halts(agents, usage, named) THEN None
           ELSE Saved(agents, usage, named, PricedBy(agents, usage, named))
  BY Zenon DEF Costs!Savings, Halts, Saved, PricedBy, OtherwiseBy, ModelBy, AllMoved, Moved

Nameable(m) == m = None \/ Rate(m) \in Int \cup {None}

\* A transcript, its stored row, and the messages that row tells.
Alike(v, r, list) ==
  /\ Costs!WellFormed(v) /\ Stored(r, v) /\ Untied(v.usage)
  /\ \E b : Retells(v.usage, list, b)

LEMMA SameSavings ==
  ASSUME NEW v, NEW r, NEW list, Alike(v, r, list), NEW named, Nameable(named)
  PROVE  Costs!Savings(r.agents, list, named) = Costs!Savings(v.agents, v.usage, named)
<1> DEFINE Model(a) == ModelBy(v.agents, v.usage, named, a)
<1>0. PICK b : /\ Costs!WellFormed(v) /\ Stored(r, v) /\ Untied(v.usage)
               /\ Retells(v.usage, list, b)
  BY DEF Alike
<1>1. DOMAIN r.agents = DOMAIN v.agents /\ IsFiniteSet(DOMAIN v.agents)
  BY <1>0, WellFormedSays DEF Stored
<1>2. \A a \in DOMAIN v.agents : ModelBy(r.agents, list, named, a) = Model(a)
  <2> TAKE a \in DOMAIN v.agents
  <2>1. Costs!TopTier(v.agents, v.usage, a) = Costs!TopTier(r.agents, list, a)
    BY <1>0, SameTier
  <2> QED BY <2>1 DEF ModelBy
<1>3. PICK P : P = PricedBy(v.agents, v.usage, named)
  OBVIOUS
<1>4. PricedBy(r.agents, list, named) = P
  BY <1>1, <1>2, <1>3 DEF PricedBy
<1>5. \A a \in P : a \in DOMAIN v.agents /\ Model(a) # None
  BY <1>3 DEF PricedBy
<1>6. \A a \in P : Rate(Model(a)) \in Int \cup {None}
  <2> TAKE a \in P
  <2>1. CASE named # None
    BY <2>1 DEF ModelBy, Nameable
  <2>2. CASE named = None
    <3>1. Model(a) = Costs!TopTier(v.agents, v.usage, a)
      BY <2>2 DEF ModelBy
    <3>2. IsUsage(v.usage)
      BY <1>0 DEF Retells
    <3>3. Rate(Costs!TopTier(v.agents, v.usage, a)) \in Int \cup {None}
      BY <1>1, <1>5, <3>1, <3>2, TierNamed
    <3> QED BY <3>1, <3>3, Zenon
  <2> QED BY <2>1, <2>2
<1>7. \A a \in P : /\ Costs!Cost(Costs!OfAgent(list, a)) = Costs!Cost(Costs!OfAgent(v.usage, a))
                   /\ OtherwiseBy(r.agents, list, named, a) = OtherwiseBy(v.agents, v.usage, named, a)
                   /\ ModelBy(r.agents, list, named, a) = Model(a)
  <2> TAKE a \in P
  <2>1. Costs!Cost(Costs!OfAgent(list, a)) = Costs!Cost(Costs!OfAgent(v.usage, a))
    BY <1>0, SameActual
  <2>2. PICK m : m = Model(a)
    OBVIOUS
  <2>3. Rate(m) \in Int \cup {None}
    BY <1>6, <2>2
  <2>4. Costs!Cost(AllMoved(Costs!OfAgent(v.usage, a), m)) = Costs!Cost(AllMoved(Costs!OfAgent(list, a), m))
    BY <1>0, <2>3, SameOtherwise
  <2>5. ModelBy(r.agents, list, named, a) = m
    BY <1>2, <1>5, <2>2
  <2> QED BY <2>1, <2>2, <2>4, <2>5, Zenon DEF OtherwiseBy
<1>8. Halts(r.agents, list, named) <=> Halts(v.agents, v.usage, named)
  BY <1>3, <1>4, <1>7, Zenon DEF Halts
<1>9. Saved(r.agents, list, named, P) = Saved(v.agents, v.usage, named, P)
  <2>1. [a \in P |-> <<Costs!Cost(Costs!OfAgent(list, a)), OtherwiseBy(r.agents, list, named, a),
                       ModelBy(r.agents, list, named, a)>>]
      = [a \in P |-> <<Costs!Cost(Costs!OfAgent(v.usage, a)), OtherwiseBy(v.agents, v.usage, named, a),
                       ModelBy(v.agents, v.usage, named, a)>>]
    BY <1>7
  <2> QED BY <1>1, <2>1, Zenon DEF Saved
<1> QED BY <1>3, <1>4, <1>8, <1>9, SavingsAre

\* The stored rows tell every message again, in the order of their ids.
LEMMA ToldAgain ==
  ASSUME NEW v, Costs!WellFormed(v), NEW r, Stored(r, v)
  PROVE  \E b : Retells(v.usage, Costs!Reconstructed(r), b)
<1>1. /\ main \in DOMAIN v.agents /\ None \notin DOMAIN v.agents
      /\ Len(v.usage) \in Nat /\ DOMAIN v.usage = 1..Len(v.usage)
      /\ \A i \in DOMAIN v.usage :
           /\ DOMAIN v.usage[i] = {"msg", "agent", "model", "out", "at"}
           /\ v.usage[i].msg \in Nat /\ v.usage[i].out \in Nat
           /\ v.usage[i].agent \in (DOMAIN v.agents \ {main}) \cup {None}
           /\ Rate(v.usage[i].model) \in Int \cup {None}
      /\ \A i, j \in DOMAIN v.usage : v.usage[i].msg = v.usage[j].msg => i = j
  BY WellFormedSays
<1>2. PICK D, M : D = DOMAIN v.usage /\ M = {v.usage[i].msg : i \in DOMAIN v.usage}
  OBVIOUS
<1>3. D \in SUBSET Nat /\ IsFiniteSet(D)
  <2>1. PICK n : n = Len(v.usage)
    OBVIOUS
  <2>2. n \in Nat /\ D = 1..n
    BY <1>1, <1>2, <2>1
  <2>3. IsFiniteSet(1..n) /\ (1..n) \in SUBSET Nat
    BY <2>2, FS_Interval
  <2> QED BY <2>2, <2>3
<1>4. M \in SUBSET Nat /\ IsFiniteSet(M) /\ M = DOMAIN r.usage
  <2>1. PICK f : f = [i \in D |-> v.usage[i].msg]
    OBVIOUS
  <2>2. M = {f[i] : i \in D} /\ DOMAIN f = D
    BY <1>2, <2>1
  <2>3. IsFiniteSet(M)
    BY <1>3, <2>2, ImageFinite
  <2>4. M = DOMAIN r.usage
    BY <1>2 DEF Stored
  <2> QED BY <1>1, <1>2, <2>3, <2>4
<1>5. PICK h : Lists(h, M, Sooner(M)) /\ \A k \in 1..Cardinality(M) : Costs!Nth(M, k) = h[k]
  BY <1>4, NthIs
<1>6. PICK c : c = Cardinality(M)
  OBVIOUS
<1>7. /\ c \in Nat
      /\ \A k \in 1..c : h[k] \in M /\ Costs!Nth(M, k) = h[k]
      /\ \A m \in M : \E k \in 1..c : h[k] = m
      /\ \A j, k \in 1..c : h[j] = h[k] => j = k
  <2>1. c \in Nat
    BY <1>4, <1>6, FS_CardinalityType
  <2>2. /\ \A k \in 1..c : h[k] \in M
        /\ \A j, k \in 1..c : h[j] = h[k] => j = k
    BY <1>4, <1>5, <1>6, ListsOnce
  <2>3. \A m \in M : \E k \in 1..c : h[k] = m
    BY <1>5, <1>6 DEF Lists
  <2> QED BY <1>5, <1>6, <2>1, <2>2, <2>3
<1>8. PICK list : list = Costs!Reconstructed(r)
  OBVIOUS
<1>9. list = [k \in 1..c |-> [msg |-> Costs!Nth(M, k),
                              agent |-> Costs!KeyOf(r, r.usage[Costs!Nth(M, k)].agent),
                              model |-> r.usage[Costs!Nth(M, k)].model,
                              out |-> r.usage[Costs!Nth(M, k)].out, at |-> 0]]
  <2>1. Costs!Reconstructed(r) =
          [k \in 1..Costs!Cardinality(DOMAIN r.usage) |->
             [msg |-> Costs!Nth(DOMAIN r.usage, k),
              agent |-> Costs!KeyOf(r, r.usage[Costs!Nth(DOMAIN r.usage, k)].agent),
              model |-> r.usage[Costs!Nth(DOMAIN r.usage, k)].model,
              out |-> r.usage[Costs!Nth(DOMAIN r.usage, k)].out, at |-> 0]]
    BY Zenon DEF Costs!Reconstructed
  <2>2. c = Costs!Cardinality(DOMAIN r.usage)
    BY <1>4, <1>6, SameCardinalityOfCosts
  <2> QED BY <1>4, <1>8, <2>1, <2>2
<1>10. DOMAIN list = 1..c
  BY <1>9
<1>11. ASSUME NEW i \in D, NEW k \in 1..c, h[k] = v.usage[i].msg
       PROVE  /\ list[k].agent = v.usage[i].agent /\ list[k].model = v.usage[i].model
              /\ list[k].out = v.usage[i].out /\ {"model", "out"} \subseteq DOMAIN list[k]
  <2>1. PICK x : x = v.usage[i].msg
    OBVIOUS
  <2>2. PICK stored : stored = r.usage[x]
    OBVIOUS
  <2>3. list[k] = [msg |-> x, agent |-> Costs!KeyOf(r, stored.agent), model |-> stored.model,
                   out |-> stored.out, at |-> 0]
    BY <1>7, <1>9, <1>11, <2>1, <2>2
  <2>4. stored = [agent |-> IF v.usage[i].agent = None THEN main ELSE v.usage[i].agent,
                  model |-> v.usage[i].model, out |-> v.usage[i].out]
    BY <1>2, <2>1, <2>2 DEF Stored
  <2>5. Costs!KeyOf(r, stored.agent) = v.usage[i].agent
    <3>1. DOMAIN r.agents = DOMAIN v.agents
      BY DEF Stored
    <3>2. stored.agent = IF v.usage[i].agent = None THEN main ELSE v.usage[i].agent
      BY <2>4
    <3>3. v.usage[i].agent # main \/ v.usage[i].agent = None
      BY <1>1, <1>2
    <3> QED BY <1>1, <3>1, <3>2, <3>3 DEF Costs!KeyOf
  <2>6. stored.model = v.usage[i].model /\ stored.out = v.usage[i].out
    BY <2>4
  <2>7. PICK e : e = list[k]
    OBVIOUS
  <2>8. e.agent = Costs!KeyOf(r, stored.agent) /\ e.model = stored.model /\ e.out = stored.out
        /\ {"model", "out"} \subseteq DOMAIN e
    BY <2>3, <2>7
  <2> QED BY <2>5, <2>6, <2>7, <2>8
<1>12. \A i \in D : \E k \in 1..c : h[k] = v.usage[i].msg
  BY <1>2, <1>7
<1> DEFINE b == [i \in D |-> CHOOSE k \in 1..c : h[k] = v.usage[i].msg]
<1>13. b \in [D -> 1..c] /\ \A i \in D : h[b[i]] = v.usage[i].msg
  BY <1>12
<1> HIDE DEF b
<1>14. Matches(b, D, 1..c)
  <2>1. \A i, j \in D : b[i] = b[j] => i = j
    <3> SUFFICES ASSUME NEW i \in D, NEW j \in D, b[i] = b[j] PROVE i = j
      OBVIOUS
    <3>1. v.usage[i].msg = v.usage[j].msg
      BY <1>13
    <3> QED BY <1>1, <1>2, <3>1
  <2>2. \A k \in 1..c : \E i \in D : b[i] = k
    <3> TAKE k \in 1..c
    <3>1. PICK i \in D : h[k] = v.usage[i].msg
      BY <1>2, <1>7
    <3>2. b[i] \in 1..c /\ h[b[i]] = h[k]
      BY <1>13, <3>1
    <3> QED BY <1>7, <3>2
  <2> QED BY <1>13, <2>1, <2>2 DEF Matches
<1>15. \A k \in 1..c : \E i \in D : b[i] = k
  BY <1>14 DEF Matches
<1>16. ASSUME NEW i \in D
       PROVE  /\ list[b[i]].agent = v.usage[i].agent /\ list[b[i]].model = v.usage[i].model
              /\ list[b[i]].out = v.usage[i].out /\ {"model", "out"} \subseteq DOMAIN list[b[i]]
  BY <1>11, <1>13
<1>17. IsUsage(v.usage)
  BY <1>1, <1>2, <1>3 DEF IsUsage
<1>18. IsUsage(list)
  <2>1. (1..c) \in SUBSET Nat /\ IsFiniteSet(1..c)
    BY <1>7, FS_Interval
  <2>2. ASSUME NEW k \in 1..c
        PROVE  /\ list[k].out \in Nat /\ Rate(list[k].model) \in Int \cup {None}
               /\ {"model", "out"} \subseteq DOMAIN list[k]
    <3>1. PICK i \in D : b[i] = k
      BY <1>15
    <3>2. list[k].model = v.usage[i].model /\ list[k].out = v.usage[i].out
          /\ {"model", "out"} \subseteq DOMAIN list[k]
      BY <1>16, <3>1
    <3>3. v.usage[i].out \in Nat /\ Rate(v.usage[i].model) \in Int \cup {None}
      BY <1>1, <1>2
    <3> QED BY <3>2, <3>3, Zenon
  <2> QED BY <1>10, <2>1, <2>2 DEF IsUsage
<1>19. Retells(v.usage, list, b)
  BY <1>2, <1>10, <1>14, <1>16, <1>17, <1>18 DEF Retells
<1> QED BY <1>8, <1>19

-----------------------------------------------------------------------------
(* What is stored of a session that only grew is what was last read of it. *)

\* Nothing was stored that v does not say, or says more of.
Behind(was, v) ==
  /\ DOMAIN was.agents \subseteq DOMAIN v.agents
  /\ \A a \in DOMAIN was.agents : v.agents[a] \notin DOMAIN v.agents => was.agents[a] = None
  /\ DOMAIN was.usage \subseteq {v.usage[i].msg : i \in DOMAIN v.usage}
  /\ \A i \in DOMAIN v.usage :
       v.usage[i].msg \in DOMAIN was.usage /\ was.usage[v.usage[i].msg].out >= v.usage[i].out =>
         \E x : was.usage[v.usage[i].msg] = [agent |-> x, model |-> v.usage[i].model, out |-> v.usage[i].out]

LEMMA UpsertedIsStored ==
  ASSUME NEW v, Costs!WellFormed(v), NEW was, Behind(was, v), NEW slug
  PROVE  Stored(Costs!Upserted(was, v, slug), v)
<1> DEFINE Ids == {v.usage[i].msg : i \in DOMAIN v.usage}
           Parent(a) == IF v.agents[a] \in DOMAIN v.agents THEN v.agents[a] ELSE None
           Before(a) == IF a \in DOMAIN was.agents THEN was.agents[a] ELSE None
           Entry(m) == v.usage[CHOOSE i \in DOMAIN v.usage : v.usage[i].msg = m]
           By(e) == IF e.agent = None THEN main ELSE e.agent
           Row(m) == IF m \in DOMAIN was.usage /\ was.usage[m].out >= Entry(m).out
                     THEN [was.usage[m] EXCEPT !.agent = By(Entry(m))]
                     ELSE [agent |-> By(Entry(m)), model |-> Entry(m).model, out |-> Entry(m).out]
           named == {e.msg : e \in {v.usage[i] : i \in DOMAIN v.usage}}
<1>1. PICK r : r = Costs!Upserted(was, v, slug)
  OBVIOUS
<1>2. r = [slug |-> slug,
           agents |-> [a \in DOMAIN was.agents \cup DOMAIN v.agents |->
                         IF a \notin DOMAIN v.agents \/ Parent(a) = None THEN Before(a) ELSE Parent(a)],
           usage |-> [m \in DOMAIN was.usage \cup named |-> IF m \in named THEN Row(m) ELSE was.usage[m]]]
  BY <1>1, Zenon DEF Costs!Upserted
<1>3. named = Ids
  OBVIOUS
<1>4. None \notin DOMAIN v.agents /\ \A i, j \in DOMAIN v.usage : v.usage[i].msg = v.usage[j].msg => i = j
  BY WellFormedSays
<1>5. PICK agents : agents = r.agents
  OBVIOUS
<1>6. agents = [a \in DOMAIN was.agents \cup DOMAIN v.agents |->
                  IF a \notin DOMAIN v.agents \/ Parent(a) = None THEN Before(a) ELSE Parent(a)]
  <2> HIDE DEF Parent, Before, Row, named
  <2> QED BY <1>2, <1>5
<1>7. DOMAIN agents = DOMAIN v.agents /\ \A a \in DOMAIN v.agents : agents[a] = Parent(a)
  <2>1. DOMAIN was.agents \cup DOMAIN v.agents = DOMAIN v.agents
    BY DEF Behind
  <2>2. DOMAIN agents = DOMAIN v.agents
    <3> HIDE DEF Parent, Before
    <3> QED BY <1>6, <2>1
  <2>3. ASSUME NEW a \in DOMAIN v.agents PROVE agents[a] = Parent(a)
    <3>1. agents[a] = IF Parent(a) = None THEN Before(a) ELSE Parent(a)
      <4> HIDE DEF Parent, Before
      <4> QED BY <1>6, <2>1
    <3>2. Parent(a) = None => v.agents[a] \notin DOMAIN v.agents
      BY <1>4
    <3>3. Parent(a) = None => Before(a) = None
      BY <3>2 DEF Behind
    <3> HIDE DEF Parent, Before
    <3> QED BY <3>1, <3>3
  <2> HIDE DEF Parent
  <2> QED BY <2>2, <2>3
<1>8. PICK usage : usage = r.usage
  OBVIOUS
<1>9. usage = [m \in DOMAIN was.usage \cup named |-> IF m \in named THEN Row(m) ELSE was.usage[m]]
  <2> HIDE DEF Parent, Before, Row, named
  <2> QED BY <1>2, <1>8
<1>10. DOMAIN usage = Ids /\ \A m \in Ids : usage[m] = Row(m)
  <2>1. DOMAIN was.usage \cup named = Ids
    BY <1>3 DEF Behind
  <2> HIDE DEF named, Row, Ids
  <2> QED BY <1>3, <1>9, <2>1
<1>11. ASSUME NEW i \in DOMAIN v.usage
       PROVE  usage[v.usage[i].msg] =
                [agent |-> By(v.usage[i]), model |-> v.usage[i].model, out |-> v.usage[i].out]
  <2>1. PICK m : m = v.usage[i].msg
    OBVIOUS
  <2>2. m \in Ids
    BY <2>1
  <2>3. (CHOOSE j \in DOMAIN v.usage : v.usage[j].msg = m) = i
    BY <1>4, <2>1
  <2>4. Entry(m) = v.usage[i]
    BY <2>3
  <2> HIDE DEF Entry, Ids
  <2>5. usage[m] = Row(m)
    BY <1>10, <2>2
  <2>6. CASE m \in DOMAIN was.usage /\ was.usage[m].out >= v.usage[i].out
    <3>1. PICK x : was.usage[m] = [agent |-> x, model |-> v.usage[i].model, out |-> v.usage[i].out]
      BY <2>1, <2>6 DEF Behind
    <3>2. Row(m) = [was.usage[m] EXCEPT !.agent = By(v.usage[i])]
      <4> HIDE DEF By
      <4> QED BY <2>4, <2>6
    <3>3. Row(m) = [agent |-> By(v.usage[i]), model |-> v.usage[i].model, out |-> v.usage[i].out]
      <4> HIDE DEF By, Row
      <4> QED BY <3>1, <3>2
    <3> HIDE DEF Row
    <3> QED BY <2>1, <2>5, <3>3
  <2>7. CASE ~ (m \in DOMAIN was.usage /\ was.usage[m].out >= v.usage[i].out)
    <3>1. Row(m) = [agent |-> By(v.usage[i]), model |-> v.usage[i].model, out |-> v.usage[i].out]
      <4> HIDE DEF By
      <4> QED BY <2>4, <2>7
    <3> HIDE DEF Row
    <3> QED BY <2>1, <2>5, <3>1
  <2> QED BY <2>6, <2>7
<1> HIDE DEF named, Row, Entry, Before
<1>12. Stored(r, v)
  BY <1>5, <1>7, <1>8, <1>10, <1>11 DEF Stored
<1> QED BY <1>1, <1>12

\* A version that continues the one that is stored is stored over it.
LEMMA ContinuedIsStored ==
  ASSUME NEW v, Costs!WellFormed(v), NEW w, Costs!WellFormed(w), NEW was, Stored(was, w),
         Costs!Continues(w, v), NEW slug
  PROVE  Stored(Costs!Upserted(was, v, slug), v)
<1>1. /\ DOMAIN was.agents = DOMAIN w.agents /\ DOMAIN w.agents \subseteq DOMAIN v.agents
      /\ \A a \in DOMAIN w.agents : w.agents[a] # None => v.agents[a] = w.agents[a]
      /\ \A a \in DOMAIN w.agents :
           was.agents[a] = IF w.agents[a] \in DOMAIN w.agents THEN w.agents[a] ELSE None
      /\ DOMAIN was.usage = {w.usage[i].msg : i \in DOMAIN w.usage}
  BY DEF Stored, Costs!Continues
<1>2. None \notin DOMAIN w.agents
  BY WellFormedSays
<1>3. \A a \in DOMAIN was.agents : v.agents[a] \notin DOMAIN v.agents => was.agents[a] = None
  BY <1>1, <1>2
<1>4. ASSUME NEW i \in DOMAIN w.usage
      PROVE  \E j \in DOMAIN v.usage :
               /\ v.usage[j].msg = w.usage[i].msg /\ v.usage[j].out >= w.usage[i].out
               /\ v.usage[j].out = w.usage[i].out => v.usage[j].model = w.usage[i].model
  BY DEF Costs!Continues
<1>5. DOMAIN was.usage \subseteq {v.usage[i].msg : i \in DOMAIN v.usage}
  BY <1>1, <1>4
<1>6. ASSUME NEW j \in DOMAIN v.usage, v.usage[j].msg \in DOMAIN was.usage,
             was.usage[v.usage[j].msg].out >= v.usage[j].out
      PROVE  \E x : was.usage[v.usage[j].msg] = [agent |-> x, model |-> v.usage[j].model, out |-> v.usage[j].out]
  <2>1. PICK i \in DOMAIN w.usage : w.usage[i].msg = v.usage[j].msg
    BY <1>1, <1>6
  <2>2. PICK k \in DOMAIN v.usage :
               /\ v.usage[k].msg = w.usage[i].msg /\ v.usage[k].out >= w.usage[i].out
               /\ v.usage[k].out = w.usage[i].out => v.usage[k].model = w.usage[i].model
    BY <1>4
  <2>3. k = j
    BY <2>1, <2>2, WellFormedSays
  <2>4. PICK x : was.usage[v.usage[j].msg] = [agent |-> x, model |-> w.usage[i].model, out |-> w.usage[i].out]
    <3>1. PICK x : x = IF w.usage[i].agent = None THEN main ELSE w.usage[i].agent
      OBVIOUS
    <3>2. was.usage[w.usage[i].msg] = [agent |-> x, model |-> w.usage[i].model, out |-> w.usage[i].out]
      BY <3>1 DEF Stored
    <3> QED BY <2>1, <3>2
  <2>5. was.usage[v.usage[j].msg].out = w.usage[i].out
    BY <2>4
  <2>6. v.usage[j].out \in Nat /\ w.usage[i].out \in Nat
    BY WellFormedSays
  <2>7. v.usage[j].out = w.usage[i].out
    BY <1>6, <2>2, <2>3, <2>5, <2>6
  <2> QED BY <2>2, <2>3, <2>4, <2>7
<1>7. Behind(was, v)
  BY <1>1, <1>3, <1>5, <1>6 DEF Behind
<1> QED BY <1>7, UpsertedIsStored

RowTold ==
  /\ row # None => lastRead # None
  /\ lastRead # None /\ onlyGrew =>
       /\ lastRead \in Versions /\ lastRead.is = "whole"
       /\ Stored(row, lastRead)

FiguresKnown == answer # None /\ answer.figures # None => answer.is = "figures"

FInv == AInv /\ RowTold /\ FiguresKnown

LEMMA Whole ==
  ASSUME NEW v \in Versions, v.is = "whole"
  PROVE  Costs!WellFormed(v)
  BY TranscriptsAssumption DEF Costs!Configured

LEMMA IngestTells ==
  ASSUME FInv, Costs!Ingest
  PROVE  RowTold'
<1>1. PICK s, v, was :
        /\ s = Costs!Min(Costs!Listed) /\ v = copies[s]
        /\ was = IF row = None THEN [agents |-> << >>, usage |-> << >>] ELSE row
        /\ Costs!Listed # {} /\ v.is # "empty"
        /\ \/ UNCHANGED <<row, lastRead, onlyGrew>>
           \/ /\ v.is # "poisoned"
              /\ row' = Costs!Upserted(was, v, s) /\ lastRead' = v
              /\ onlyGrew' = (onlyGrew /\ (lastRead = None \/ Costs!Continues(lastRead, v)))
  BY Zenon DEF Costs!Ingest
<1>2. CASE UNCHANGED <<row, lastRead, onlyGrew>>
  BY <1>2 DEF FInv, RowTold, Stored
<1>3. CASE /\ v.is # "poisoned"
           /\ row' = Costs!Upserted(was, v, s) /\ lastRead' = v
           /\ onlyGrew' = (onlyGrew /\ (lastRead = None \/ Costs!Continues(lastRead, v)))
  <2>1. PICK held \in SUBSET Projects : copies \in [held -> Versions]
    BY DEF FInv, AInv, CopiesHeld
  <2>2. Costs!Listed \in SUBSET Projects /\ Costs!Listed \subseteq held
    BY <2>1 DEF Costs!Listed
  <2>3. s \in held
    BY <1>1, <2>2, LeastProject
  <2>4. v \in Versions /\ v.is = "whole"
    BY <1>1, <1>3, <2>1, <2>3, TranscriptKinds
  <2>5. Costs!WellFormed(v)
    BY <2>4, Whole
  <2>6. lastRead' # None
    BY <1>3, <2>4, TranscriptsAssumption DEF Costs!Configured
  <2>7. ASSUME onlyGrew' PROVE Stored(row', v)
    <3>1. CASE row = None
      <4>1. DOMAIN was.agents = {} /\ DOMAIN was.usage = {}
        BY <1>1, <3>1
      <4>2. Behind(was, v)
        BY <4>1 DEF Behind
      <4> QED BY <1>3, <2>5, <4>2, UpsertedIsStored
    <3>2. CASE row # None /\ lastRead # None
      <4>1. onlyGrew /\ Costs!Continues(lastRead, v) /\ was = row
        BY <1>1, <1>3, <2>7, <3>2
      <4>2. Costs!WellFormed(lastRead) /\ Stored(row, lastRead)
        BY <3>2, <4>1, Whole DEF FInv, RowTold
      <4> QED BY <1>3, <2>5, <4>1, <4>2, ContinuedIsStored
    <3>3. CASE row # None /\ lastRead = None
      <4> QED BY <3>3 DEF FInv, RowTold
    <3> QED BY <3>1, <3>2, <3>3
  <2> QED BY <1>3, <2>4, <2>6, <2>7 DEF RowTold, Stored
<1> QED BY <1>1, <1>2, <1>3

LEMMA FInvKept == FInv /\ [SweepNext]_all => FInv'
<1> SUFFICES ASSUME FInv, [SweepNext]_all PROVE FInv'
  OBVIOUS
<1>1. AInv'
  BY SweepAInv DEF FInv
<1>0. UNCHANGED <<row, lastRead, onlyGrew>> => RowTold'
  BY DEF FInv, RowTold, Stored
<1>2. CASE UNCHANGED analysis
  BY <1>1, <1>2 DEF analysis, FInv, RowTold, FiguresKnown, Stored
<1>3. CASE Costs!Next
  <2>1. CASE Costs!Ingest
    <3>1. answer' = None
      BY <2>1 DEF Costs!Ingest
    <3> QED BY <1>1, <2>1, <3>1, IngestTells DEF FInv, FiguresKnown
  <2>2. CASE Costs!Analyse
    <3>1. /\ UNCHANGED <<row, lastRead, onlyGrew>>
          /\ answer' = None \/ (answer' = Costs!Outcome(request.slug, request.named))
      BY <2>2 DEF Costs!Analyse, Costs!Replies
    <3>2. ASSUME answer' # None, answer'.figures # None PROVE answer'.is = "figures"
      BY <3>1, <3>2 DEF Costs!Outcome
    <3>3. FiguresKnown'
      BY <3>2 DEF FiguresKnown
    <3> QED BY <1>0, <1>1, <3>1, <3>3 DEF FInv
  <2>3. CASE \E named \in {big, small} \cup {None} : Costs!Ask(named)
    <3>1. /\ UNCHANGED <<row, lastRead, onlyGrew>>
          /\ answer' = None \/ (\E is : answer' = Costs!Reply(is))
      BY <2>3 DEF Costs!Ask, Costs!Replies, Costs!Reads
    <3>2. \A is : Costs!Reply(is).figures = None
      BY DEF Costs!Reply
    <3>3. FiguresKnown'
      BY <3>1, <3>2 DEF FiguresKnown
    <3> QED BY <1>0, <1>1, <3>1, <3>3 DEF FInv
  <2>4. CASE UNCHANGED <<row, lastRead, onlyGrew>> /\ answer' = None
    BY <1>0, <1>1, <2>4 DEF FInv, FiguresKnown
  <2>5. \/ Costs!Ingest \/ Costs!Analyse
        \/ (\E named \in {big, small} \cup {None} : Costs!Ask(named))
        \/ (UNCHANGED <<row, lastRead, onlyGrew>> /\ answer' = None)
    <3>1. Costs!Disturb => UNCHANGED <<row, lastRead, onlyGrew>> /\ answer' = None
      BY DEF Costs!Disturb
    <3>2. \A s : Costs!Grow(s) \/ Costs!RemoveCopy(s) => Costs!Disturb
      BY DEF Costs!Grow, Costs!RemoveCopy
    <3>3. \A s, t : Costs!Copy(s, t) => Costs!Disturb
      BY DEF Costs!Copy
    <3>4. \A x : Costs!Hide(x) \/ Costs!Heal => Costs!Disturb
      BY DEF Costs!Hide, Costs!Heal
    <3>5. Costs!Forget \/ Costs!Again => UNCHANGED <<row, lastRead, onlyGrew>> /\ answer' = None
      BY DEF Costs!Forget, Costs!Again
    <3> QED BY <1>3, <3>1, <3>2, <3>3, <3>4, <3>5 DEF Costs!Next
  <2> QED BY <2>1, <2>2, <2>3, <2>4, <2>5
<1> QED BY <1>2, <1>3 DEF SweepNext, all

LEMMA FInvReconciles == FInv => Costs!Reconciles
<1> SUFFICES ASSUME FInv, answer # None, answer.figures # None
             PROVE  \E s \in Costs!Readable : Cut(copies[s], answer.figures.segments, answer.figures.naive)
  <2>1. \A v, i : Gone(v.resets, v.usage[i].agent, v.usage[i].at) =
          {k \in DOMAIN v.resets : v.resets[k].agent = v.usage[i].agent /\ v.resets[k].at <= v.usage[i].at}
    BY DEF Gone
  <2> QED BY <2>1, SameCardinalityOfCosts DEF Costs!Reconciles, Cut
<1>1. PICK s \in Costs!Readable :
        copies[s].is = "whole" /\ answer.figures = Costs!Figures(copies[s], answer.named)
  BY DEF FInv, FiguresKnown, AInv, AnswerHonest, Costs!AnswerHonest
<1>2. PICK v : v = copies[s]
  OBVIOUS
<1>3. v \in Versions /\ v.is = "whole"
  BY <1>1, <1>2 DEF FInv, AInv, CopiesHeld, Costs!Readable
<1>4. Costs!WellFormed(v)
  BY <1>3, Whole
<1>5. PICK savings : savings = Costs!Savings(v.agents, v.usage, answer.named)
  OBVIOUS
<1>6. answer.figures = IF Costs!Cost(v.usage) = None \/ savings = None THEN None
                       ELSE [naive |-> Costs!Cost(v.usage), segments |-> Costs!Segments(v), savings |-> savings]
  BY <1>1, <1>2, <1>5, Zenon DEF Costs!Figures
<1>7. /\ Costs!Cost(v.usage) # None
      /\ answer.figures.naive = Costs!Cost(v.usage) /\ answer.figures.segments = Costs!Segments(v)
  BY <1>6
<1>8. Cut(v, Costs!Segments(v), Costs!Cost(v.usage))
  BY <1>4, <1>7, PartsReconcile
<1> QED BY <1>2, <1>7, <1>8

LEMMA FInvSameFigures == FInv => Costs!SameFigures
<1> SUFFICES ASSUME FInv, lastRead # None, onlyGrew, ~ Costs!Tied(lastRead),
                    NEW named \in {big, small} \cup {None}
             PROVE  Costs!Aggregate(row, named) = Costs!Savings(lastRead.agents, lastRead.usage, named)
  BY DEF Costs!SameFigures, Costs!Equivalent
<1>1. PICK v : v = lastRead
  OBVIOUS
<1>2. v \in Versions /\ v.is = "whole" /\ Stored(row, v)
  BY <1>1 DEF FInv, RowTold
<1>3. Costs!WellFormed(v)
  BY <1>2, Whole
<1>4. Untied(v.usage)
  BY <1>1 DEF Costs!Tied, Untied
<1>5. PICK r, list : r = row /\ list = Costs!Reconstructed(r)
  OBVIOUS
<1>6. PICK b : Retells(v.usage, list, b)
  BY <1>2, <1>3, <1>5, ToldAgain
<1>7. Nameable(named)
  BY TranscriptsAssumption DEF Costs!Configured, Nameable
<1>8. Costs!Savings(r.agents, list, named) = Costs!Savings(v.agents, v.usage, named)
  <2>1. Alike(v, r, list)
    BY <1>2, <1>3, <1>4, <1>5, <1>6 DEF Alike
  <2> QED BY <1>7, <2>1, SameSavings
<1> QED BY <1>1, <1>5, <1>8, Zenon DEF Costs!Aggregate

(* A session is accounted for the same in three ways (the analysis route,  *)
(* computeCompactionAwareCost, getAggregateDelegationSavings): the segments*)
(* its compactions cut hold every message once and cost together what it   *)
(* does, and the rows that were stored of it, as it grew, say of its       *)
(* delegation what its transcripts do.                                     *)
THEOREM AccountsAgree == SweepSpec => []FiguresAgree
<1>1. SweepInit => FInv
  <2> SUFFICES ASSUME SweepInit PROVE FInv
    OBVIOUS
  <2>1. AInv
    BY SweepAInvInit
  <2>2. row = None /\ lastRead = None /\ answer = None
    BY DEF SweepInit, Costs!Init
  <2> QED BY <2>1, <2>2 DEF FInv, RowTold, FiguresKnown
<1>2. FInv => FiguresAgree
  BY FInvReconciles, FInvSameFigures DEF FiguresAgree
<1> QED BY <1>1, <1>2, FInvKept, PTL DEF SweepSpec
=============================================================================
