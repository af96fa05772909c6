---------------------------- MODULE CorpusWatcher ----------------------------
(***************************************************************************)
(* The live corpus loop of apps/server/src/ingest/corpus-watcher.ts, with  *)
(* the runner it drives (corpus/ingest-corpus.ts), the enumeration and the *)
(* fingerprint it diffs (corpus/disk-substrate.ts, corpus/fingerprint.ts), *)
(* the persisted replay checkpoint (db/replay-checkpoints.ts) and the      *)
(* startup replay that calls it (index.ts).                                *)
(*                                                                         *)
(* A tick is synchronous JavaScript, but the transcripts belong to other   *)
(* processes, so a tick is cut wherever it looks at the disk again: LOOK   *)
(* (enumerate, fingerprint, diff, prune, cap), ENUMERATE AGAIN (the runner *)
(* resolves the root a second time), one READ per admitted session, and    *)
(* SETTLE (commit fingerprints, budgets, schedules and the checkpoint).    *)
(* The disk may change, a fault may come or go, and the process may die    *)
(* between any two of them.                                                *)
(*                                                                         *)
(* Abstractions.  A transcript is the number of its last write; a          *)
(* fingerprint is that number, plus whether every file under the session   *)
(* could be lstat'ed (an unprobeable one is left out of the string).  The  *)
(* absolute clock `pass` is compared with `dueAt` only, so an entry keeps  *)
(* `wait`, the passes left until it is due.  `count` is kept up to the     *)
(* budget, past which the code never tells two values apart.               *)
(***************************************************************************)
EXTENDS Naturals, FiniteSets

CONSTANTS
  Roots,         \* directories the corpus root may resolve to
  Sessions,      \* session uuids
  Slugs,         \* project directories under a root
  SlugOf,        \* the project directory each session lives in
  Prices,        \* contents the pricing table may have
  EmptyAt,       \* writes that leave no complete record: nothing to ingest
  RefusedAt,     \* <<write, price>> pairs the parser or the halt gate refuses
  MaxAttempts,   \* MAX_INGEST_ATTEMPTS
  BackoffCap,    \* REREAD_BACKOFF_CAP_PASSES
  ReplayCap,     \* REPLAY_MAX_SESSIONS_PER_PASS
  MaxVersion,    \* bound: writes to one transcript
  MaxDisturb,    \* bound: disturbances (writes, faults, repricings, crashes)
  None           \* no root, no price seen yet

ASSUME ConstantsAssumption ==
  /\ SlugOf \in [Sessions -> Slugs]
  /\ IsFiniteSet(Sessions)
  /\ MaxAttempts \in Nat \ {0}
  /\ BackoffCap \in Nat \ {0}
  /\ ReplayCap \in Nat \ {0}
  /\ MaxVersion \in Nat \ {0}
  /\ MaxDisturb \in Nat
  /\ None \notin Roots \cup Prices

VARIABLES
  \* The disk and the operator
  root,          \* what resolveCorpusRoot answers: a root, or None
  rootListable,  \* FALSE while listing the root directory fails
  version,       \* version[r][s]: the last write to s under r
  here,          \* here[r]: the sessions whose transcript exists under r
  fault,         \* fault[s]: what currently fails on the files of s
  badSlugs,      \* slug directories that cannot be probed or listed
  price,         \* content of the pricing table
  disturbances,  \* disturbances so far (the bound MaxDisturb)
  \* The watcher's memory
  fingerprints, attempts, rereadSchedule, slugs, sweep, carriedCap,
  hydratedRoot, pricingSeen,
  \* The pass in flight
  pc,            \* "idle", "looked", "reading" or "halted"
  passRoot,      \* the root the pass enumerated
  next,          \* the fingerprints the pass captured
  present,       \* accountedFor: sessions the pass may keep state for
  changed,       \* sessions the pass admitted
  pending,       \* more sessions wait for a continuation pass
  runRoot,       \* the root the runner resolved for itself
  refs, todo,    \* sessions the runner enumerated, and has yet to read
  projected, failures, incomplete,
  \* The composition root
  mode,          \* "replay" while runStartupReplay loops, then "poll"
  ingestPhase,   \* what /api/health says: "replaying" or "idle"
  outcome,       \* the last TickOutcome
  \* The database
  checkpoint,    \* checkpoint[r][s]: the ingest_checkpoints row, or NoFp
  carried,       \* carried[r][s]: newest write of s under r projected whole
  \* History, read by the properties only
  last,          \* last[s]: how the last pass that admitted s ended for it
  handled,       \* sessions the runner handled in the sweep in progress
  crossed        \* checkpointed by a pass whose two looks saw two roots

disk == <<root, rootListable, version, here, fault, badSlugs, price>>
memory == <<fingerprints, attempts, rereadSchedule, slugs, sweep, carriedCap,
            hydratedRoot, pricingSeen>>
pass == <<passRoot, next, present, changed, pending, runRoot, refs, todo,
          projected, failures, incomplete>>
boot == <<mode, ingestPhase, outcome>>
database == <<checkpoint, carried>>
history == <<last, handled, crossed>>
vars == <<disk, disturbances, memory, pc, pass, boot, database, history>>
----------------------------------------------------------------------------
NoFp == [v |-> 0, whole |-> TRUE]
Fingerprint == [v : 0..MaxVersion, whole : BOOLEAN]

NoBudget == [count |-> 0, gap |-> 0, wait |-> 0]
Budget == [count : 0..MaxAttempts, gap : 0..BackoffCap, wait : 0..BackoffCap]

NoSchedule == [gap |-> 0, wait |-> 0]
Schedule == [gap : 0..BackoffCap, wait : 0..BackoffCap]

Faults == {"none",      \* every file of the session can be read
           "hidden",    \* the main transcript cannot be lstat'ed
           "unprobed",  \* a nested artifact cannot be lstat'ed
           "unread"}    \* every file lstats, one of them cannot be read

Least(a, b) == IF a < b THEN a ELSE b
Doubled(gap) == IF gap = 0 THEN 1 ELSE Least(2 * gap, BackoffCap)
Elapsed(entry) == [entry EXCEPT !.wait = IF @ = 0 THEN 0 ELSE @ - 1]

(* What fingerprintSession computes now: lstat only, never content.        *)
FingerprintNow(r, s) == [v |-> version[r][s], whole |-> fault[s] # "unprobed"]

(* The refs enumerateSessions returns, and the known sessions whose slug   *)
(* or transcript it reports as unreadable.                                 *)
Visible(r) ==
  {s \in here[r] : SlugOf[s] \notin badSlugs /\ fault[s] # "hidden"}
Unreadable(r, s) ==
  \/ SlugOf[s] \in badSlugs
  \/ s \in here[r] /\ fault[s] = "hidden"
SomethingUnreadable(r) ==
  badSlugs # {} \/ \E s \in here[r] : fault[s] = "hidden"
----------------------------------------------------------------------------
(* The first half of ingestChanged, up to the call of the runner.          *)

CapGiven == IF mode = "replay" THEN ReplayCap ELSE 0     \* 0: undefined
Adopting == hydratedRoot # root
Repriced == pricingSeen \notin {None, price}

CapInForce ==
  IF Adopting /\ hydratedRoot # None THEN CapGiven
  ELSE IF CapGiven # 0 THEN CapGiven ELSE carriedCap
Continuing == IF Adopting THEN {} ELSE sweep

(* Hydration (trusted is what the checkpoint store answered), then         *)
(* resolvePricingForPass, which undoes both halves of a quarantine.        *)
BudgetsAfterHydration ==
  IF Adopting THEN [s \in Sessions |-> NoBudget] ELSE attempts
Readmitted(s) == Repriced /\ BudgetsAfterHydration[s].count > 0
Known(trusted) ==
  [s \in Sessions |->
     IF Readmitted(s) THEN NoFp
     ELSE IF Adopting THEN trusted[s] ELSE fingerprints[s]]
Budgets ==
  [s \in Sessions |->
     IF Repriced THEN NoBudget
     ELSE IF Continuing = {} THEN Elapsed(BudgetsAfterHydration[s])
     ELSE BudgetsAfterHydration[s]]
Schedules ==
  [s \in Sessions |-> IF Continuing = {} THEN Elapsed(rereadSchedule[s])
                      ELSE rereadSchedule[s]]
KnownSlugs == IF Adopting THEN {} ELSE slugs

Trusted ==                  \* load: the rows of this scope, or nothing
  {checkpoint[root], [s \in Sessions |-> NoFp]}

AccountedForSeen(known) == Visible(root)                  \* a mutant
AccountedFor(known) ==
  Visible(root) \cup
    {s \in Sessions :
       /\ \/ known[s] # NoFp
          \/ Budgets[s].count > 0
          \/ Schedules[s].gap > 0
       /\ SomethingUnreadable(root)
       /\ s \notin KnownSlugs \/ Unreadable(root, s)}

Due(known) ==
  {s \in Visible(root) \ Continuing :
     \/ /\ known[s] # FingerprintNow(root, s)
        /\ Budgets[s].count < MaxAttempts \/ Budgets[s].wait = 0
     \/ /\ known[s] = FingerprintNow(root, s)
        /\ Schedules[s].gap > 0
        /\ Schedules[s].wait = 0}

(* The cap admits the first ones in readdir order, which is any order.     *)
Admissions(due) ==
  IF CapInForce # 0 /\ Cardinality(due) > CapInForce
  THEN {admitted \in SUBSET due : Cardinality(admitted) = CapInForce}
  ELSE {due}
----------------------------------------------------------------------------

(* How a pass ends for the composition root: runStartupReplay loops while  *)
(* a capped pass has more to drain, and only a read error leaves the phase *)
(* to the first scheduled poll that does not continue the sweep.           *)
Report(kind) ==
  /\ pc' = "idle"
  /\ outcome' = kind
  /\ mode' = IF mode = "replay" /\ kind = "pending" THEN "replay" ELSE "poll"
  /\ ingestPhase' =
       IF \/ kind = "pending"
          \/ mode = "replay" /\ kind = "read-error"
       THEN ingestPhase ELSE "idle"

ForgetPass ==
  /\ passRoot' = None /\ runRoot' = None
  /\ next' = [s \in Sessions |-> NoFp]
  /\ present' = {} /\ changed' = {} /\ pending' = FALSE
  /\ refs' = {} /\ todo' = {}
  /\ projected' = {} /\ failures' = {} /\ incomplete' = {}

LookNoRoot ==
  /\ pc = "idle" /\ root = None
  /\ fingerprints' = [s \in Sessions |-> NoFp]
  /\ attempts' = [s \in Sessions |-> NoBudget]
  /\ rereadSchedule' = [s \in Sessions |-> NoSchedule]
  /\ slugs' = {} /\ sweep' = {} /\ carriedCap' = 0
  /\ hydratedRoot' = None
  /\ Report("no-corpus-root")
  /\ UNCHANGED <<disk, disturbances, pricingSeen, pass, database, history>>

(* Hydration and pricing come first; then nothing is pruned, and the clock *)
(* does not move.                                                          *)
LookUnreadableRoot ==
  /\ pc = "idle" /\ root # None /\ ~rootListable
  /\ \E trusted \in Trusted : fingerprints' = Known(trusted)
  /\ attempts' = IF Repriced THEN [s \in Sessions |-> NoBudget]
                 ELSE BudgetsAfterHydration
  /\ slugs' = KnownSlugs
  /\ sweep' = Continuing
  /\ carriedCap' = CapInForce
  /\ hydratedRoot' = root
  /\ pricingSeen' = price
  /\ Report("read-error")
  /\ UNCHANGED <<disk, disturbances, rereadSchedule, pass, database, history>>

(* settleSweep, run last on each of the two ways out of a pass.            *)
SettleSweep(more, done) ==
  /\ sweep' = IF more THEN sweep \cup done ELSE {}
  /\ carriedCap' = IF more THEN carriedCap ELSE 0

Look ==
  /\ pc = "idle" /\ root # None /\ rootListable
  /\ \E trusted \in Trusted :
       LET known == Known(trusted)
           kept == AccountedFor(known)
           due == Due(known)
       IN
       /\ fingerprints' = [s \in Sessions |-> IF s \in kept THEN known[s] ELSE NoFp]
       /\ attempts' = [s \in Sessions |-> IF s \in kept THEN Budgets[s] ELSE NoBudget]
       /\ rereadSchedule' =
            [s \in Sessions |-> IF s \in kept THEN Schedules[s] ELSE NoSchedule]
       /\ slugs' = (KnownSlugs \cup Visible(root)) \cap kept
       /\ hydratedRoot' = root
       /\ pricingSeen' = price
       /\ \/ /\ due = {}
             /\ sweep' = {} /\ carriedCap' = 0
             /\ Report("unchanged")
             /\ UNCHANGED pass
          \/ /\ due # {}
             /\ \E admitted \in Admissions(due) :
                  /\ changed' = admitted
                  /\ pending' = (admitted # due)
             /\ sweep' = Continuing
             /\ carriedCap' = CapInForce
             /\ present' = kept
             /\ passRoot' = root
             /\ next' = [s \in Sessions |->
                           IF s \in Visible(root) THEN FingerprintNow(root, s) ELSE NoFp]
             /\ pc' = "looked"
             /\ UNCHANGED <<boot, runRoot, refs, todo, projected, failures, incomplete>>
  /\ UNCHANGED <<disk, disturbances, database, history>>
----------------------------------------------------------------------------
(* The runner: a second resolution of the root and a second enumeration.   *)
EnumerateAgain ==
  /\ pc = "looked"
  /\ runRoot' = root
  /\ refs' = IF root = None THEN {} ELSE changed \cap Visible(root)
  /\ todo' = refs'
  /\ root # None => rootListable
  /\ pc' = "reading"
  /\ UNCHANGED <<disk, disturbances, memory, passRoot, next, present, changed,
                 pending, projected, failures, incomplete, boot, database, history>>

(* The second listing throws: the sweep and its cap stay as they were.     *)
EnumerateAgainFails ==
  /\ pc = "looked" /\ root # None /\ ~rootListable
  /\ ForgetPass
  /\ Report("read-error")
  /\ UNCHANGED <<disk, disturbances, memory, database, history>>

Legible(s) ==
  s \in here[runRoot] /\ fault[s] = "none" /\ SlugOf[s] \notin badSlugs

(* Every file read: no record to ingest, a projection in one transaction,  *)
(* or a refusal before the transaction opens.                              *)
ReadWhole(s) ==
  /\ pc = "reading" /\ s \in todo /\ Legible(s)
  /\ todo' = todo \ {s}
  /\ LET v == version[runRoot][s] IN
     \/ /\ v \in EmptyAt
        /\ UNCHANGED <<carried, projected, failures>>
     \/ /\ v \notin EmptyAt /\ <<v, pricingSeen>> \notin RefusedAt
        /\ carried' = [carried EXCEPT ![runRoot][s] = v]
        /\ projected' = projected \cup {s}
        /\ UNCHANGED failures
     \/ /\ v \notin EmptyAt /\ <<v, pricingSeen>> \in RefusedAt
        /\ failures' = failures \cup {s}
        /\ UNCHANGED <<carried, projected>>
  /\ UNCHANGED <<disk, disturbances, memory, pc, passRoot, next, present, changed,
                 pending, runRoot, refs, incomplete, boot, checkpoint, history>>

(* A file could not be read: nothing survives, or the rest is projected or *)
(* refused without it.                                                     *)
ReadFaulted(s) ==
  /\ pc = "reading" /\ s \in todo
  /\ ~Legible(s) \/ root # runRoot
  /\ todo' = todo \ {s}
  /\ incomplete' = incomplete \cup {s}
  /\ \/ UNCHANGED <<projected, failures>>
     \/ projected' = projected \cup {s} /\ UNCHANGED failures
     \/ failures' = failures \cup {s} /\ UNCHANGED projected
  /\ UNCHANGED <<disk, disturbances, memory, pc, passRoot, next, present, changed,
                 pending, runRoot, refs, boot, database, history>>

Disturb ==
  disturbances < MaxDisturb /\ disturbances' = disturbances + 1

(* The projection transaction fails (a locked or a full database).         *)
ProjectionFails(s) ==
  /\ pc = "reading" /\ s \in todo /\ Legible(s)
  /\ Disturb
  /\ todo' = todo \ {s}
  /\ failures' = failures \cup {s}
  /\ UNCHANGED <<disk, memory, pc, passRoot, next, present, changed, pending,
                 runRoot, refs, projected, incomplete, boot, database, history>>
----------------------------------------------------------------------------
(* settlePass, the re-read schedule, the checkpoint and settleSweep.       *)
FailedAgain(budget) ==
  LET count == Least(budget.count + 1, MaxAttempts)
      gap == IF count = MaxAttempts THEN Doubled(budget.gap) ELSE 0
  IN [count |-> count, gap |-> gap, wait |-> gap]

SettledBudget(s) ==
  IF s \notin changed THEN attempts[s]
  ELSE IF s \in failures THEN FailedAgain(attempts[s]) ELSE NoBudget

Committed(s) ==
  s \in changed /\ (s \in failures => SettledBudget(s).count = MaxAttempts)

SettledScheduleNever(s) == NoSchedule                     \* a mutant

SettledSchedule(s) ==
  IF s \notin changed THEN rereadSchedule[s]
  ELSE IF s \in incomplete \ failures
  THEN LET gap == Doubled(rereadSchedule[s].gap) IN [gap |-> gap, wait |-> gap]
  ELSE NoSchedule

CheckpointableHoles == (changed \cap projected) \ failures  \* a mutant
Checkpointable == (changed \cap projected) \ (failures \cup incomplete)

(* replay-checkpoints.ts commit: one transaction, best effort.             *)
CommitCheckpoint ==
  \/ /\ checkpoint' =
          [checkpoint EXCEPT ![passRoot] =
             [s \in Sessions |->
                IF s \in Checkpointable THEN next[s]
                ELSE IF s \in present THEN @[s] ELSE NoFp]]
     /\ crossed' = IF runRoot = passRoot THEN crossed ELSE crossed \cup Checkpointable
  \/ UNCHANGED <<checkpoint, crossed>>

LastOutcome(s) ==
  IF s \notin changed THEN last[s]
  ELSE IF s \in failures THEN "failed"
  ELSE IF s \in incomplete THEN "incomplete"
  ELSE IF s \in refs /\ runRoot = passRoot THEN "read" ELSE "missed"

Settle ==
  /\ pc = "reading" /\ todo = {}
  /\ fingerprints' =
       [s \in Sessions |-> IF Committed(s) THEN next[s] ELSE fingerprints[s]]
  /\ attempts' = [s \in Sessions |-> SettledBudget(s)]
  /\ rereadSchedule' = [s \in Sessions |-> SettledSchedule(s)]
  /\ CommitCheckpoint
  /\ SettleSweep(pending, changed)
  /\ last' = [s \in Sessions |-> LastOutcome(s)]
  /\ handled' = IF sweep = {} THEN refs ELSE handled \cup refs
  /\ ForgetPass
  /\ Report(IF pending THEN "pending" ELSE "drained")
  /\ UNCHANGED <<disk, disturbances, slugs, hydratedRoot, pricingSeen, carried>>
----------------------------------------------------------------------------
(* What happens to the watcher: the disk, the operator, the process.       *)

(* Claude Code writes to a transcript, or creates it.                      *)
Write(r, s) ==
  /\ version[r][s] < MaxVersion
  /\ Disturb
  /\ version' = [version EXCEPT ![r][s] = @ + 1]
  /\ here' = [here EXCEPT ![r] = @ \cup {s}]
  /\ UNCHANGED <<root, rootListable, fault, badSlugs, price, memory, pc, pass,
                 boot, database, history>>

(* A transcript leaves the disk, or comes back byte for byte.              *)
Vanish(r, s) ==
  /\ s \in here[r]
  /\ Disturb
  /\ here' = [here EXCEPT ![r] = @ \ {s}]
  /\ UNCHANGED <<root, rootListable, version, fault, badSlugs, price, memory, pc,
                 pass, boot, database, history>>

Reappear(r, s) ==
  /\ s \notin here[r] /\ version[r][s] > 0
  /\ Disturb
  /\ here' = [here EXCEPT ![r] = @ \cup {s}]
  /\ UNCHANGED <<root, rootListable, version, fault, badSlugs, price, memory, pc,
                 pass, boot, database, history>>

FaultChanges(s) ==
  /\ Disturb
  /\ \E f \in Faults \ {fault[s]} : fault' = [fault EXCEPT ![s] = f]
  /\ UNCHANGED <<root, rootListable, version, here, badSlugs, price, memory, pc,
                 pass, boot, database, history>>

SlugFaultChanges(g) ==
  /\ Disturb
  /\ badSlugs' = IF g \in badSlugs THEN badSlugs \ {g} ELSE badSlugs \cup {g}
  /\ UNCHANGED <<root, rootListable, version, here, fault, price, memory, pc,
                 pass, boot, database, history>>

RootChanges ==
  /\ Disturb
  /\ \/ /\ root' \in (Roots \cup {None}) \ {root}
        /\ UNCHANGED rootListable
     \/ rootListable' = ~rootListable /\ UNCHANGED root
  /\ UNCHANGED <<version, here, fault, badSlugs, price, memory, pc, pass, boot,
                 database, history>>

Reprice ==
  /\ Disturb
  /\ price' \in Prices \ {price}
  /\ UNCHANGED <<root, rootListable, version, here, fault, badSlugs, memory, pc,
                 pass, boot, database, history>>

(* A ContainmentError escapes a pass: the watcher stops itself for good,   *)
(* and the composition root exits.                                         *)
ContainmentHalt ==
  /\ pc # "halted"
  /\ Disturb
  /\ pc' = "halted"
  /\ outcome' = "containment-halt"
  /\ UNCHANGED <<disk, memory, pass, mode, ingestPhase, database, history>>

(* The process dies at any point and a new one boots on the same database. *)
Restart ==
  /\ \/ pc = "halted" /\ UNCHANGED disturbances
     \/ pc # "halted" /\ Disturb
  /\ pc' = "idle"
  /\ fingerprints' = [s \in Sessions |-> NoFp]
  /\ attempts' = [s \in Sessions |-> NoBudget]
  /\ rereadSchedule' = [s \in Sessions |-> NoSchedule]
  /\ slugs' = {} /\ sweep' = {} /\ carriedCap' = 0
  /\ hydratedRoot' = None /\ pricingSeen' = None
  /\ ForgetPass
  /\ mode' = "replay" /\ ingestPhase' = "replaying" /\ outcome' = "booting"
  /\ last' = [s \in Sessions |-> "never"]
  /\ handled' = {}
  /\ UNCHANGED <<disk, database, crossed>>
----------------------------------------------------------------------------
Init ==
  /\ root \in Roots /\ rootListable = TRUE
  /\ version = [r \in Roots |-> [s \in Sessions |-> 1]]
  /\ here = [r \in Roots |-> Sessions]
  /\ fault = [s \in Sessions |-> "none"]
  /\ badSlugs = {}
  /\ price \in Prices
  /\ disturbances = 0
  /\ fingerprints = [s \in Sessions |-> NoFp]
  /\ attempts = [s \in Sessions |-> NoBudget]
  /\ rereadSchedule = [s \in Sessions |-> NoSchedule]
  /\ slugs = {} /\ sweep = {} /\ carriedCap = 0
  /\ hydratedRoot = None /\ pricingSeen = None
  /\ pc = "idle"
  /\ passRoot = None /\ runRoot = None
  /\ next = [s \in Sessions |-> NoFp]
  /\ present = {} /\ changed = {} /\ pending = FALSE
  /\ refs = {} /\ todo = {}
  /\ projected = {} /\ failures = {} /\ incomplete = {}
  /\ mode = "replay" /\ ingestPhase = "replaying" /\ outcome = "booting"
  /\ checkpoint = [r \in Roots |-> [s \in Sessions |-> NoFp]]
  /\ carried = [r \in Roots |-> [s \in Sessions |-> 0]]
  /\ last = [s \in Sessions |-> "never"]
  /\ handled = {} /\ crossed = {}

Tick ==
  \/ LookNoRoot \/ LookUnreadableRoot \/ Look
  \/ EnumerateAgain \/ EnumerateAgainFails
  \/ \E s \in Sessions : ReadWhole(s) \/ ReadFaulted(s)
  \/ Settle

Environment ==
  \/ \E r \in Roots, s \in Sessions : Write(r, s) \/ Vanish(r, s) \/ Reappear(r, s)
  \/ \E s \in Sessions : FaultChanges(s) \/ ProjectionFails(s)
  \/ \E g \in Slugs : SlugFaultChanges(g)
  \/ RootChanges \/ Reprice \/ ContainmentHalt

Next == Tick \/ Environment \/ Restart

Spec == Init /\ [][Next]_vars
(* The poll timer keeps firing and a tick, once begun, is synchronous.     *)
FairSpec == Spec /\ WF_vars(Tick)
----------------------------------------------------------------------------
Outcomes == {"booting", "no-corpus-root", "read-error", "unchanged", "pending",
             "drained", "containment-halt"}

(* Every variable keeps its type, and a pass in flight never admits, reads *)
(* or fails a session it did not enumerate.                                *)
TypeOK ==
  /\ root \in Roots \cup {None} /\ rootListable \in BOOLEAN
  /\ version \in [Roots -> [Sessions -> 0..MaxVersion]]
  /\ here \in [Roots -> SUBSET Sessions]
  /\ fault \in [Sessions -> Faults]
  /\ badSlugs \in SUBSET Slugs
  /\ price \in Prices
  /\ disturbances \in 0..MaxDisturb
  /\ fingerprints \in [Sessions -> Fingerprint]
  /\ attempts \in [Sessions -> Budget]
  /\ rereadSchedule \in [Sessions -> Schedule]
  /\ slugs \in SUBSET Sessions
  /\ sweep \in SUBSET Sessions
  /\ carriedCap \in {0, ReplayCap}
  /\ hydratedRoot \in Roots \cup {None}
  /\ pricingSeen \in Prices \cup {None}
  /\ pc \in {"idle", "looked", "reading", "halted"}
  /\ passRoot \in Roots \cup {None} /\ runRoot \in Roots \cup {None}
  /\ next \in [Sessions -> Fingerprint]
  /\ present \in SUBSET Sessions /\ changed \in SUBSET Sessions
  /\ pending \in BOOLEAN
  /\ refs \in SUBSET changed /\ todo \in SUBSET refs
  /\ projected \in SUBSET refs /\ failures \in SUBSET refs
  /\ incomplete \in SUBSET refs
  /\ mode \in {"replay", "poll"} /\ ingestPhase \in {"replaying", "idle"}
  /\ outcome \in Outcomes
  /\ checkpoint \in [Roots -> [Sessions -> Fingerprint]]
  /\ carried \in [Roots -> [Sessions -> 0..MaxVersion]]
  /\ last \in [Sessions -> {"never", "read", "incomplete", "failed", "missed"}]
  /\ handled \in SUBSET Sessions /\ crossed \in SUBSET Sessions

(* corpus-watcher.ts:26-35: a checkpoint may change how much work a boot   *)
(* does, never what it results in.  A persisted fingerprint names a write  *)
(* whose content the database already holds whole, in every state a crash  *)
(* can leave behind (a pass whose two looks at the root resolved to two    *)
(* different directories is set apart in `crossed`).                       *)
CheckpointBacked ==
  \A r \in Roots, s \in Sessions :
    s \notin crossed => checkpoint[r][s].v <= carried[r][s]

(* The session has a fingerprint that says "nothing to do", and neither    *)
(* the retry budget nor the re-read schedule will bring it back.           *)
TakenAsRead(s) ==
  /\ pc = "idle" /\ root # None /\ hydratedRoot = root
  /\ s \in Visible(root)
  /\ fingerprints[s] = FingerprintNow(root, s)
  /\ attempts[s].count = 0 /\ rereadSchedule[s].gap = 0

Held(s) == carried[root][s] = version[root][s] \/ version[root][s] \in EmptyAt

(* corpus-watcher.ts:412-427: a session the watcher takes as read is in    *)
(* the database with its current content.  It covers a fingerprint         *)
(* committed by this process or adopted from a checkpoint; the sessions    *)
(* the runner's own enumeration did not return are NothingMissed.          *)
NothingLost ==
  \A s \in Sessions \ crossed :
    TakenAsRead(s) /\ last[s] # "missed" => Held(s)

(* corpus-watcher.ts:874-882: the budget and the re-read schedule hold     *)
(* exactly sessions whose latest pass failed, respectively could not read  *)
(* a file, so the exclusions /api/health serves never count a session that *)
(* is in the database, and no session is on two schedules at once.         *)
ExclusionsTruthful ==
  \A s \in Sessions :
    /\ attempts[s].count > 0 => last[s] = "failed"
    /\ rereadSchedule[s].gap > 0 => last[s] = "incomplete"

(* corpus-watcher.ts:498-513: looking away from a slug or a transcript the *)
(* pass could not probe is not seeing it gone.  A fingerprint is forgotten *)
(* only when the session left the disk, the root was lost or replaced, the *)
(* process restarted, or a new price re-admits it.                         *)
FaultForgetsNothing ==
  [][\A s \in Sessions :
       fingerprints[s] # NoFp /\ fingerprints'[s] = NoFp =>
         \/ hydratedRoot' # hydratedRoot
         \/ pricingSeen' # pricingSeen
         \/ s \notin here[root]]_vars

(* Every disturbance ends (MaxDisturb), so from some point on nothing      *)
(* moves.  A session that can then be read whole and is not refused is in  *)
(* the database with its current content, however its bytes, faults,       *)
(* prices, crashes and passes interleaved; except one that is quarantined, *)
(* or parked on its own fingerprint by a failure (Parked).                 *)
Readable(s) ==
  /\ root # None /\ rootListable /\ pc # "halted"
  /\ s \in Visible(root) /\ fault[s] = "none"
  /\ <<version[root][s], price>> \notin RefusedAt
Parked(s) == attempts[s].count > 0 /\ fingerprints[s] = FingerprintNow(root, s)
Recovers ==
  \A s \in Sessions :
    <>[](Readable(s) /\ ~Parked(s) /\ last[s] # "missed" /\ s \notin crossed
         => Held(s))

(* corpus-watcher.ts:128-138, index.ts:1060-1074: a file that never        *)
(* recovers, or a transcript that is always refused, does not cost a read  *)
(* on every poll, as passes that leave the session alone keep coming; and  *)
(* it does not hold the phase /api/health reports at the replay.           *)
ComesToRest ==
  /\ \A s \in Sessions :
       []<>(\/ pc = "looked" /\ s \notin changed
            \/ outcome \in {"unchanged", "no-corpus-root", "read-error"}
            \/ pc = "halted")
  /\ []<>(ingestPhase = "idle" \/ pc = "halted")
----------------------------------------------------------------------------
(* A claim of the source that a run refutes.                               *)

(* fingerprint.ts:23-24: "An unreadable entry therefore costs a re-ingest, *)
(* never content."                                                         *)
NothingMissed == \A s \in Sessions \ crossed : TakenAsRead(s) => Held(s)

=============================================================================
