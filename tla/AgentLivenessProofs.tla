------------------------ MODULE AgentLivenessProofs -------------------------
(***************************************************************************)
(* Proofs about AgentLiveness, for every set of agents and sessions, every *)
(* watchdog window and every bound.  StopHeard is not inductive: a stop    *)
(* that came before its agent's first row is only kept by the projected    *)
(* timeline, so StopKept says it is still there to be replayed.            *)
(*                                                                         *)
(* Then the migrations of a database: for every set of builds, of earlier  *)
(* databases, of processes and of asked rates, a migrated one is as a      *)
(* fresh one.  What is recorded stays a beginning of the one list, so a    *)
(* pending migration runs on exactly the rows its predecessors left, and a *)
(* process serves only migrations that read as its own.                    *)
(***************************************************************************)
EXTENDS MCAgentLiveness, Integers, FiniteSetTheorems, SequenceTheorems,
        WellFoundedInduction, TLAPS

OwnStop(stop) == stop.agent # stop.session /\ SessionOf[stop.agent] = stop.session

StopKept ==
  \A stop \in stored \ expired :
    OwnStop(stop) /\ status[stop.agent] = "none" => stop \in projected

IInv ==
  /\ TypeOK /\ StopHeard /\ StopKept
  /\ CompletedObserved /\ UnknownMeansSilent /\ AnchorsAgree

LEMMA StatusTypes ==
  ASSUME NEW before \in Status, NEW asserted \in Status,
         NEW m, NEW a, NEW seenBefore, NEW seen
  PROVE  /\ UpsertedStatus(before, seenBefore, asserted, seen) \in Status
         /\ Reconciled(m, a, before) \in Status
  BY DEF Status, UpsertedStatus, Reconciled

LEMMA InitIInv == Init => IInv
  BY LivenessAssumption
     DEF Init, IInv, TypeOK, Status, StopHeard, StopKept, CompletedObserved,
         UnknownMeansSilent, AnchorsAgree, Members

(* Actions that touch no row and no stored stop.                           *)
LEMMA WorldIInv ==
  ASSUME IInv, (\E a \in Agents : Write(a) \/ Kill(a)) \/ ClockTicks
  PROVE  IInv'
  <1>1. /\ UNCHANGED <<agents, sessions, events, receipts, history>>
        /\ now' \in 1..MaxClock /\ now <= now'
    BY LivenessAssumption DEF Write, Kill, ClockTicks, IInv, TypeOK
  <1>2. wrote' \in [Agents -> 0..MaxClock] /\ killed' \in SUBSET Agents
    BY LivenessAssumption DEF Write, Kill, ClockTicks, IInv, TypeOK, disk
  <1>3. TypeOK'
    BY <1>1, <1>2 DEF IInv, TypeOK, agents, sessions, events, history
  <1>4. UnknownMeansSilent'
    <2>1. now \in Int /\ now' \in Int /\ Threshold \in Int
          /\ \A a \in Agents : lastSeen[a] \in Int
      BY <1>1, LivenessAssumption DEF IInv, TypeOK
    <2> QED
      BY <1>1, <2>1 DEF IInv, UnknownMeansSilent, agents
  <1> QED
    BY <1>1, <1>3, <1>4
       DEF IInv, StopHeard, StopKept, CompletedObserved, AnchorsAgree,
           agents, sessions, events, history

(* The projection of session m, with the choices of the pass picked.       *)
LEMMA IngestIInv ==
  ASSUME IInv, NEW m \in Mains, Ingest(m)
  PROVE  IInv'
  <1>a. PICK read \in SUBSET {a \in Members(m) : wrote[a] > 0} :
          \E seen \in [read -> 1..now], errors \in SUBSET (read \cap killed) :
          \E latest \in {seen[a] : a \in read} :
            /\ \A a \in read : seen[a] <= wrote[a] /\ seen[a] <= latest
            /\ Projects(m, read, seen, errors, latest)
    BY DEF Ingest
  <1>b. PICK seen \in [read -> 1..now], errors \in SUBSET (read \cap killed) :
          \E latest \in {seen[a] : a \in read} :
            /\ \A a \in read : seen[a] <= wrote[a] /\ seen[a] <= latest
            /\ Projects(m, read, seen, errors, latest)
    BY <1>a
  <1>c. PICK latest \in {seen[a] : a \in read} :
            /\ \A a \in read : seen[a] <= wrote[a] /\ seen[a] <= latest
            /\ Projects(m, read, seen, errors, latest)
    BY <1>b
  <1>1. /\ \A a \in read : seen[a] <= latest
        /\ \E a \in read : seen[a] = latest
        /\ status' =
             [a \in Agents |->
                IF a \in read
                THEN Reconciled(m, a, UpsertedStatus(status[a], lastSeen[a],
                       IF a \in errors THEN "error" ELSE "working", seen[a]))
                ELSE status[a]]
        /\ lastSeen' =
             [a \in Agents |->
                IF a \in read THEN Later(seen[a], lastSeen[a]) ELSE lastSeen[a]]
        /\ sessionStatus' =
             [sessionStatus EXCEPT ![m] =
                UpsertedSessionStatus(@, lastActivity[m], latest)]
        /\ lastActivity' = [lastActivity EXCEPT ![m] = Later(latest, @)]
    BY <1>c DEF Projects
  <1>2. UNCHANGED <<now, disk, events, receipts, history>>
    BY DEF Ingest
  <1>3. /\ read \subseteq Agents /\ \A a \in read : SessionOf[a] = m
        /\ \A a \in read : seen[a] \in 1..now
        /\ latest \in 1..now /\ now \in 1..MaxClock
        /\ \A a \in Agents : lastSeen[a] \in 0..MaxClock
        /\ \A n \in Mains : lastActivity[n] \in 0..MaxClock
        /\ MaxClock \in Nat /\ Threshold \in Nat
    BY <1>1, LivenessAssumption DEF Members, IInv, TypeOK
  <1>4. \A a \in read : Later(seen[a], lastSeen[a]) \in 0..MaxClock
    <2> SUFFICES ASSUME NEW a \in read PROVE Later(seen[a], lastSeen[a]) \in 0..MaxClock
      OBVIOUS
    <2>1. a \in Agents /\ seen[a] \in 1..now
      BY <1>3
    <2>2. seen[a] \in 0..MaxClock /\ lastSeen[a] \in 0..MaxClock
      BY <1>3, <2>1
    <2> QED
      BY <2>2 DEF Later
  <1>5. TypeOK'
    <2>1. status' \in [Agents -> Status]
      <3>1. \A a \in Agents : status[a] \in Status
        BY DEF IInv, TypeOK
      <3>2. "error" \in Status /\ "working" \in Status
        BY DEF Status
      <3> QED
        BY <1>1, <3>1, <3>2, StatusTypes
    <2>2. lastSeen' \in [Agents -> 0..MaxClock]
      BY <1>1, <1>3, <1>4
    <2>3. sessionStatus' \in [Mains -> Status]
      <3>1. "working" \in Status /\ sessionStatus \in [Mains -> Status]
        BY DEF IInv, TypeOK, Status
      <3>2. UpsertedSessionStatus(sessionStatus[m], lastActivity[m], latest) \in Status
        BY <3>1 DEF UpsertedSessionStatus
      <3> QED
        BY <1>1, <3>1, <3>2
    <2>4. lastActivity' \in [Mains -> 0..MaxClock]
      <3>1. Later(latest, lastActivity[m]) \in 0..MaxClock
        BY <1>3 DEF Later
      <3> QED
        BY <1>1, <3>1 DEF IInv, TypeOK
    <2> QED
      BY <1>2, <2>1, <2>2, <2>3, <2>4 DEF IInv, TypeOK, disk, events, history
  <1>6. StopHeard' /\ StopKept'
    <2>1. \A a \in Agents : status[a] \in {"completed", "error"} => status'[a] = status[a]
      BY <1>1 DEF UpsertedStatus, Reconciled
    <2>2. \A a \in Agents : status'[a] = "none" => status[a] = "none"
      BY <1>1 DEF UpsertedStatus, Reconciled
    <2>3. \A a \in read : status[a] = "none" /\ a # m
             /\ [session |-> m, agent |-> a] \in projected
             => status'[a] \in {"completed", "error"}
      BY <1>1, <1>3 DEF UpsertedStatus, Reconciled
    <2>4. \A stop \in stored : stop = [session |-> stop.session, agent |-> stop.agent]
                               /\ stop.agent \in Agents
      BY DEF IInv, TypeOK, SubagentStops
    <2>5. ASSUME NEW stop \in acked \ expired, OwnStop(stop), status'[stop.agent] # "none"
          PROVE  status'[stop.agent] \in {"completed", "error"}
      <3>1. stop \in stored /\ stop.agent \in Agents
        BY <2>4 DEF IInv, TypeOK
      <3>2. CASE status[stop.agent] # "none"
        BY <2>1, <2>5, <3>1, <3>2 DEF IInv, StopHeard, OwnStop
      <3>3. CASE status[stop.agent] = "none"
        <4>1. stop.agent \in read
          BY <1>1, <2>5, <3>1, <3>3
        <4>2. stop \in projected
          BY <2>5, <3>1, <3>3 DEF IInv, StopKept
        <4>3. stop.session = m
          BY <1>3, <2>5, <4>1 DEF OwnStop
        <4> QED
          BY <2>3, <2>4, <2>5, <3>1, <3>3, <4>1, <4>2, <4>3 DEF OwnStop
      <3> QED
        BY <3>2, <3>3
    <2>6. StopHeard'
      BY <1>2, <2>5 DEF StopHeard, OwnStop, history
    <2>7. StopKept'
      BY <1>2, <2>2, <2>4 DEF IInv, StopKept, OwnStop, history, events
    <2> QED
      BY <2>6, <2>7
  <1>7. CompletedObserved'
    <2>1. ASSUME NEW a \in Agents, status'[a] = "completed", status[a] # "completed"
          PROVE  /\ a \notin Mains
                 /\ [session |-> SessionOf[a], agent |-> a] \in stored
      <3>1. a \in read /\ a # m /\ [session |-> m, agent |-> a] \in projected
        BY <1>1, <2>1 DEF UpsertedStatus, Reconciled
      <3>2. SessionOf[a] = m
        BY <1>3, <3>1
      <3> QED
        BY <3>1, <3>2, LivenessAssumption DEF IInv, TypeOK
    <2>2. \A n \in Mains : sessionStatus'[n] \notin {"completed", "error"}
      <3>1. \A n \in Mains : sessionStatus'[n] \in {sessionStatus[n], "working"}
        BY <1>1 DEF UpsertedSessionStatus, IInv, TypeOK
      <3> QED
        BY <3>1 DEF IInv, CompletedObserved
    <2> QED
      BY <1>2, <2>1, <2>2 DEF IInv, CompletedObserved, events
  <1>8. UnknownMeansSilent'
    <2> SUFFICES ASSUME NEW a \in Agents, status'[a] = "unknown"
                 PROVE  now - lastSeen'[a] >= Threshold
      BY <1>2 DEF UnknownMeansSilent
    <2>1. status[a] = "unknown" /\ (a \in read => ~(seen[a] > lastSeen[a]))
      BY <1>1 DEF UpsertedStatus, Reconciled
    <2>2. lastSeen'[a] = lastSeen[a]
      BY <1>1, <1>3, <2>1 DEF Later
    <2> QED
      BY <2>1, <2>2 DEF IInv, UnknownMeansSilent
  <1>9. AnchorsAgree'
    <2>1. \A n \in Mains : lastActivity'[n] = IF n = m THEN Later(latest, lastActivity[m])
                                              ELSE lastActivity[n]
      BY <1>1 DEF IInv, TypeOK
    <2>2. \A a \in Agents : lastSeen'[a] = IF a \in read THEN Later(seen[a], lastSeen[a])
                                           ELSE lastSeen[a]
      BY <1>1
    <2>3. ASSUME NEW n \in Mains, n # m
          PROVE  /\ \A a \in Members(n) : lastSeen'[a] <= lastActivity'[n]
                 /\ lastActivity'[n] > 0 =>
                      \E a \in Members(n) : lastSeen'[a] = lastActivity'[n]
      <3>1. \A a \in Members(n) : a \in Agents /\ a \notin read
        BY <1>3, <2>3 DEF Members
      <3> QED
        BY <2>1, <2>2, <2>3, <3>1 DEF IInv, AnchorsAgree
    <2>4. \A a \in Members(m) : lastSeen[a] <= lastActivity[m] /\ a \in Agents
      BY DEF IInv, AnchorsAgree, Members
    <2>5. \A a \in Members(m) : lastSeen'[a] <= lastActivity'[m]
      <3> SUFFICES ASSUME NEW a \in Members(m) PROVE lastSeen'[a] <= lastActivity'[m]
        OBVIOUS
      <3>1. a \in Agents /\ lastSeen[a] <= lastActivity[m]
        BY <2>4
      <3>2. a \in read => seen[a] <= latest
        BY <1>1
      <3> QED
        BY <1>3, <2>1, <2>2, <3>1, <3>2 DEF Later
    <2>6. \E a \in Members(m) : lastSeen'[a] = lastActivity'[m]
      <3>1. CASE latest >= lastActivity[m]
        <4>1. PICK a \in read : seen[a] = latest
          BY <1>1
        <4>2. a \in Members(m)
          BY <1>3, <4>1 DEF Members
        <4>3. lastSeen'[a] = latest /\ lastActivity'[m] = latest
          BY <1>3, <2>1, <2>2, <2>4, <3>1, <4>1, <4>2 DEF Later
        <4> QED
          BY <4>2, <4>3
      <3>2. CASE ~(latest >= lastActivity[m])
        <4>1. lastActivity[m] > 0 /\ lastActivity'[m] = lastActivity[m]
          BY <1>3, <2>1, <3>2 DEF Later
        <4>2. PICK a \in Members(m) : lastSeen[a] = lastActivity[m]
          BY <4>1 DEF IInv, AnchorsAgree
        <4>3. a \in read => seen[a] <= latest
          BY <1>1
        <4>4. lastSeen'[a] = lastSeen[a]
          BY <1>3, <2>2, <2>4, <3>2, <4>2, <4>3 DEF Later
        <4> QED
          BY <4>1, <4>2, <4>4
      <3> QED
        BY <3>1, <3>2
    <2> QED
      BY <2>3, <2>5, <2>6 DEF AnchorsAgree
  <1> QED
    BY <1>5, <1>6, <1>7, <1>8, <1>9 DEF IInv
LEMMA StoresTypes ==
  ASSUME TypeOK, NEW stop \in SubagentStops, Received, StoresOnce(stop)
  PROVE  /\ stored' \in SUBSET SubagentStops /\ projected' \in SUBSET stored'
         /\ receipts' \in 0..MaxReceipts
         /\ stored \subseteq stored' /\ projected \subseteq projected'
         /\ stop \in stored' /\ (stop \notin stored => stop \in projected')
  BY LivenessAssumption DEF TypeOK, Received, StoresOnce

(* A hook that moves a row moves the row it speaks for, and no anchor.     *)
LEMMA MovesFacts ==
  ASSUME TypeOK, NEW a \in Agents, NEW verdict \in Status, Moves(a, verdict)
  PROVE  /\ status' \in [Agents -> Status] /\ sessionStatus' \in [Mains -> Status]
         /\ \A x \in Agents : status'[x] = IF x = a THEN verdict ELSE status[x]
         /\ \A m \in Mains : sessionStatus'[m] = IF m = a THEN verdict
                                                  ELSE sessionStatus[m]
         /\ UNCHANGED <<lastSeen, lastActivity>>
  BY LivenessAssumption DEF TypeOK, Moves

LEMMA ReceiveSubagentStopIInv ==
  ASSUME IInv, NEW stop \in SubagentStops, ReceiveSubagentStop(stop)
  PROVE  IInv'
  <1>1. /\ stored' \in SUBSET SubagentStops /\ projected' \in SUBSET stored'
        /\ receipts' \in 0..MaxReceipts
        /\ stored \subseteq stored' /\ projected \subseteq projected'
        /\ stop \in stored' /\ (stop \notin stored => stop \in projected')
    BY StoresTypes DEF IInv, ReceiveSubagentStop
  <1>2. /\ stop.agent \in Agents /\ "completed" \in Status
        /\ stop = [session |-> stop.session, agent |-> stop.agent]
        /\ acked' = acked \cup {stop} /\ stored' = stored \cup {stop}
        /\ UNCHANGED <<now, wrote, killed, expired>>
    BY DEF SubagentStops, Status, ReceiveSubagentStop, StoresOnce, disk
  <1>3. CASE Speaks(stop) /\ Moves(stop.agent, "completed")
    <2>1. /\ status' \in [Agents -> Status] /\ sessionStatus' \in [Mains -> Status]
          /\ \A x \in Agents : status'[x] = IF x = stop.agent THEN "completed"
                                            ELSE status[x]
          /\ \A m \in Mains : sessionStatus'[m] = IF m = stop.agent THEN "completed"
                                                   ELSE sessionStatus[m]
          /\ UNCHANGED <<lastSeen, lastActivity>>
      BY <1>2, <1>3, MovesFacts DEF IInv
    <2>2. stop.agent \notin Mains /\ SessionOf[stop.agent] = stop.session
      BY <1>3, LivenessAssumption DEF Speaks
    <2>3. TypeOK'
      BY <1>1, <1>2, <2>1 DEF IInv, TypeOK
    <2>4. /\ \A t \in acked : t.agent \in Agents
          /\ \A t \in stored : t.agent \in Agents
      BY DEF IInv, TypeOK, SubagentStops
    <2>5. StopHeard' /\ StopKept'
      BY <1>1, <1>2, <1>3, <2>1, <2>4 DEF IInv, StopHeard, StopKept, OwnStop, Speaks
    <2>6. CompletedObserved'
      BY <1>1, <1>2, <2>1, <2>2 DEF IInv, CompletedObserved
    <2>7. UnknownMeansSilent' /\ AnchorsAgree'
      BY <1>2, <2>1 DEF IInv, UnknownMeansSilent, AnchorsAgree
    <2> QED
      BY <2>3, <2>5, <2>6, <2>7 DEF IInv
  <1>4. CASE ~Speaks(stop) /\ UNCHANGED <<agents, sessions>>
    <2>1. TypeOK'
      BY <1>1, <1>2, <1>4 DEF IInv, TypeOK, agents, sessions
    <2>2. OwnStop(stop) => status[stop.agent] = "none"
      BY <1>4 DEF OwnStop, Speaks
    <2>3. StopHeard'
      BY <1>2, <1>4, <2>2 DEF IInv, StopHeard, OwnStop, agents
    <2>4. StopKept'
      BY <1>1, <1>2, <1>4 DEF IInv, StopKept, OwnStop, agents
    <2>6. CompletedObserved' /\ UnknownMeansSilent' /\ AnchorsAgree'
      BY <1>1, <1>2, <1>4
         DEF IInv, CompletedObserved, UnknownMeansSilent, AnchorsAgree, agents, sessions
    <2> QED
      BY <2>1, <2>3, <2>4, <2>6 DEF IInv
  <1> QED
    BY <1>3, <1>4 DEF ReceiveSubagentStop

LEMMA ReceiveCutIInv ==
  ASSUME IInv, NEW stop \in SubagentStops, ReceiveSubagentStopCut(stop)
  PROVE  IInv'
  <1>1. /\ stored' \in SUBSET SubagentStops /\ projected' \in SUBSET stored'
        /\ receipts' \in 0..MaxReceipts
        /\ stored \subseteq stored' /\ projected \subseteq projected'
    BY StoresTypes DEF IInv, ReceiveSubagentStopCut
  <1>2. /\ stored' = stored \cup {stop}
        /\ stop \in stored \/ stop \in projected'
        /\ UNCHANGED <<now, wrote, killed, agents, sessions, acked, expired>>
    BY DEF ReceiveSubagentStopCut, StoresOnce, disk, history
  <1>3. TypeOK'
    BY <1>1, <1>2 DEF IInv, TypeOK, agents, sessions
  <1>4. StopHeard' /\ StopKept'
    BY <1>1, <1>2 DEF IInv, StopHeard, StopKept, OwnStop, agents
  <1>5. CompletedObserved' /\ UnknownMeansSilent' /\ AnchorsAgree'
    BY <1>1, <1>2
       DEF IInv, CompletedObserved, UnknownMeansSilent, AnchorsAgree, agents, sessions
  <1> QED
    BY <1>3, <1>4, <1>5 DEF IInv

LEMMA ReceiveStopIInv ==
  ASSUME IInv, NEW m \in Mains, ReceiveStop(m)
  PROVE  IInv'
  <1>1. /\ m \in Agents /\ "waiting" \in Status /\ SessionOf[m] = m
        /\ status[m] # "none" /\ Moves(m, "waiting")
        /\ UNCHANGED <<now, wrote, killed, stored, projected, acked, expired>>
    BY LivenessAssumption DEF Status, ReceiveStop, disk, events, history
  <1>2. /\ status' \in [Agents -> Status] /\ sessionStatus' \in [Mains -> Status]
        /\ \A x \in Agents : status'[x] = IF x = m THEN "waiting" ELSE status[x]
        /\ \A n \in Mains : sessionStatus'[n] = IF n = m THEN "waiting"
                                                 ELSE sessionStatus[n]
        /\ UNCHANGED <<lastSeen, lastActivity>>
    BY <1>1, MovesFacts DEF IInv
  <1>3. receipts' \in 0..MaxReceipts
    BY LivenessAssumption DEF IInv, TypeOK, ReceiveStop, Received
  <1>4. TypeOK'
    BY <1>1, <1>2, <1>3 DEF IInv, TypeOK
  <1>5. \A stop \in stored : stop.agent \in Agents /\ (OwnStop(stop) => stop.agent # m)
    BY <1>1 DEF IInv, TypeOK, SubagentStops, OwnStop
  <1>6. acked \subseteq stored
    BY DEF IInv, TypeOK
  <1>7. StopHeard' /\ StopKept'
    BY <1>1, <1>2, <1>5, <1>6 DEF IInv, StopHeard, StopKept, OwnStop
  <1>8. CompletedObserved' /\ UnknownMeansSilent' /\ AnchorsAgree'
    BY <1>1, <1>2 DEF IInv, CompletedObserved, UnknownMeansSilent, AnchorsAgree
  <1> QED
    BY <1>4, <1>7, <1>8 DEF IInv

LEMMA SweepIInv ==
  ASSUME IInv, NEW marked \in SUBSET Stale, Marks(marked)
  PROVE  IInv'
  <1>1. /\ \A a \in marked : a \in Agents /\ status[a] \in {"working", "waiting"}
                             /\ now - lastSeen[a] >= Threshold
        /\ "unknown" \in Status
    BY DEF Stale, Status
  <1>2. /\ status' = [a \in Agents |-> IF a \in marked THEN "unknown" ELSE status[a]]
        /\ sessionStatus' =
             [m \in Mains |-> IF m \in marked THEN "unknown" ELSE sessionStatus[m]]
        /\ UNCHANGED <<now, disk, lastSeen, lastActivity, events, receipts, history>>
    BY DEF Marks
  <1>3. TypeOK'
    BY <1>1, <1>2 DEF IInv, TypeOK, disk, events, history
  <1>4. \A stop \in stored : stop.agent \in Agents
    BY DEF IInv, TypeOK, SubagentStops
  <1>5. acked \subseteq stored
    BY DEF IInv, TypeOK
  <1>6. StopHeard' /\ StopKept'
    BY <1>1, <1>2, <1>4, <1>5 DEF IInv, StopHeard, StopKept, OwnStop, events, history
  <1>7. CompletedObserved' /\ UnknownMeansSilent' /\ AnchorsAgree'
    BY <1>1, <1>2 DEF IInv, CompletedObserved, UnknownMeansSilent, AnchorsAgree, events
  <1> QED
    BY <1>3, <1>6, <1>7 DEF IInv

LEMMA PruneIInv ==
  ASSUME IInv, NEW stop \in SubagentStops, Prune(stop)
  PROVE  IInv'
  <1>1. /\ stop \in projected /\ projected' = projected \ {stop}
        /\ expired \subseteq expired' /\ expired' \subseteq expired \cup {stop}
        /\ status[stop.agent] = "none" => stop \in expired'
        /\ UNCHANGED <<now, disk, agents, sessions, stored, receipts, acked>>
    BY DEF Prune
  <1>2. TypeOK'
    BY <1>1 DEF IInv, TypeOK, disk, agents, sessions
  <1>3. StopHeard' /\ StopKept'
    BY <1>1 DEF IInv, StopHeard, StopKept, OwnStop, agents
  <1>4. CompletedObserved' /\ UnknownMeansSilent' /\ AnchorsAgree'
    BY <1>1 DEF IInv, CompletedObserved, UnknownMeansSilent, AnchorsAgree, agents, sessions
  <1> QED
    BY <1>2, <1>3, <1>4 DEF IInv

LEMMA NextIInv == IInv /\ [Next]_vars => IInv'
  <1> SUFFICES ASSUME IInv, [Next]_vars PROVE IInv'
    OBVIOUS
  <1>1. CASE UNCHANGED vars
    BY <1>1 DEF IInv, TypeOK, StopHeard, StopKept, CompletedObserved, UnknownMeansSilent,
       AnchorsAgree, vars, disk, agents, sessions, events, history
  <1>2. CASE Sweep \/ SweepCut
    BY <1>2, SweepIInv DEF Sweep, SweepCut
  <1>3. CASE Hooks
    BY <1>3, ReceiveSubagentStopIInv, ReceiveCutIInv, ReceiveStopIInv DEF Hooks
  <1> QED
    BY <1>1, <1>2, <1>3, WorldIInv, IngestIInv, PruneIInv DEF Next

THEOREM LivenessInductive == Spec => []IInv
  BY InitIInv, NextIInv, PTL DEF Spec
----------------------------------------------------------------------------
(* Every row, every stored stop and every anchor keeps its type.           *)
THEOREM LivenessTypeCorrect == Spec => []TypeOK
  <1>1. IInv => TypeOK
    BY DEF IInv
  <1> QED
    BY <1>1, LivenessInductive, PTL

(* A SubagentStop the receiver acknowledged is heard, in whatever order it *)
(* and the transcript arrive and wherever a crash cut the receiver.        *)
THEOREM StopsAreHeard == Spec => []StopHeard
  <1>1. IInv => StopHeard
    BY DEF IInv
  <1> QED
    BY <1>1, LivenessInductive, PTL

(* 'completed' always has a hook of the agent's own session behind it.     *)
THEOREM CompletedIsObserved == Spec => []CompletedObserved
  <1>1. IInv => CompletedObserved
    BY DEF IInv
  <1> QED
    BY <1>1, LivenessInductive, PTL

(* 'unknown' never outlives the evidence that contradicts it.              *)
THEOREM UnknownIsSilent == Spec => []UnknownMeansSilent
  <1>1. IInv => UnknownMeansSilent
    BY DEF IInv
  <1> QED
    BY <1>1, LivenessInductive, PTL

(* The two activity anchors never part, whatever a pass could read.        *)
THEOREM AnchorsNeverPart == Spec => []AnchorsAgree
  <1>1. IInv => AnchorsAgree
    BY DEF IInv
  <1> QED
    BY <1>1, LivenessInductive, PTL
----------------------------------------------------------------------------
(* No transcript ever states that a main agent was killed, so a Stop, the  *)
(* one hook that moves a main agent, finds no ending to overwrite.         *)
MainsNeverFail == \A m \in Mains : m \notin killed /\ status[m] # "error"

(* One lemma for every step: what it may write over an ending.             *)
LEMMA StepsKeepEndings ==
  ASSUME IInv, MainsNeverFail, [Next]_vars, NEW a \in Agents
  PROVE  /\ status[a] = "completed" => status'[a] = "completed"
         /\ status[a] = "error" => status'[a] \in {"error", "completed"}
         /\ a \in Mains => status'[a] # "error" /\ a \notin killed'
  <1> DEFINE Kept == /\ status[a] = "completed" => status'[a] = "completed"
                     /\ status[a] = "error" => status'[a] \in {"error", "completed"}
                     /\ a \in Mains => status'[a] # "error" /\ a \notin killed'
  <1>0. /\ a \in Mains => status[a] # "completed" /\ status[a] # "error" /\ a \notin killed
        /\ status \in [Agents -> Status]
    BY DEF IInv, TypeOK, CompletedObserved, MainsNeverFail
  <1>1. CASE UNCHANGED status /\ UNCHANGED killed
    BY <1>0, <1>1
  <1>2. CASE \E x \in Agents : Kill(x)
    BY <1>0, <1>2 DEF Kill, agents
  <1>3. ASSUME NEW m \in Mains, Ingest(m) PROVE Kept
    <2>1. PICK read \in SUBSET {x \in Members(m) : wrote[x] > 0} :
            \E seen \in [read -> 1..now], errors \in SUBSET (read \cap killed) :
            \E latest \in {seen[x] : x \in read} : Projects(m, read, seen, errors, latest)
      BY <1>3 DEF Ingest
    <2>2. PICK seen \in [read -> 1..now], errors \in SUBSET (read \cap killed) :
            \E latest \in {seen[x] : x \in read} : Projects(m, read, seen, errors, latest)
      BY <2>1
    <2>3. status'[a] =
            IF a \in read
            THEN Reconciled(m, a, UpsertedStatus(status[a], lastSeen[a],
                   IF a \in errors THEN "error" ELSE "working", seen[a]))
            ELSE status[a]
      BY <2>2 DEF Projects
    <2>4. killed' = killed /\ (a \in errors => a \in killed)
      BY <1>3, <2>2 DEF Ingest, disk
    <2> QED
      BY <1>0, <2>3, <2>4 DEF Reconciled, UpsertedStatus
  <1>4. ASSUME NEW stop \in SubagentStops, ReceiveSubagentStop(stop) PROVE Kept
    <2>1. stop.agent \in Agents /\ killed' = killed
      BY <1>4 DEF SubagentStops, ReceiveSubagentStop, disk
    <2>2. \/ UNCHANGED status
          \/ status' = [status EXCEPT ![stop.agent] = "completed"]
      BY <1>4 DEF ReceiveSubagentStop, Moves, agents
    <2> QED
      BY <1>0, <2>1, <2>2
  <1>5. ASSUME NEW m \in Mains, ReceiveStop(m) PROVE Kept
    <2>1. status' = [status EXCEPT ![m] = "waiting"] /\ killed' = killed
      BY <1>5 DEF ReceiveStop, Moves, disk
    <2> QED
      BY <1>0, <2>1
  <1>6. ASSUME NEW marked \in SUBSET Stale, Marks(marked) PROVE Kept
    <2>1. /\ status'[a] = IF a \in marked THEN "unknown" ELSE status[a]
          /\ a \in marked => status[a] \in {"working", "waiting"}
          /\ killed' = killed
      BY <1>6 DEF Marks, Stale, disk
    <2> QED
      BY <1>0, <2>1
  <1>7. \/ UNCHANGED status /\ UNCHANGED killed
        \/ \E x \in Agents : Kill(x)
        \/ \E m \in Mains : Ingest(m) \/ ReceiveStop(m)
        \/ \E stop \in SubagentStops : ReceiveSubagentStop(stop)
        \/ \E marked \in SUBSET Stale : Marks(marked)
    <2>1. ASSUME (\E x \in Agents : Write(x)) \/ ClockTicks
                 \/ \E stop \in SubagentStops : ReceiveSubagentStopCut(stop) \/ Prune(stop)
          PROVE  UNCHANGED status /\ UNCHANGED killed
      BY <2>1 DEF Write, ClockTicks, ReceiveSubagentStopCut, Prune, agents, disk
    <2>2. CASE UNCHANGED vars
      BY <2>2 DEF vars, agents, disk
    <2>3. CASE Sweep \/ SweepCut
      BY <2>3 DEF Sweep, SweepCut
    <2> QED
      BY <2>1, <2>2, <2>3 DEF Next, Hooks
  <1> QED
    BY <1>1, <1>2, <1>3, <1>4, <1>5, <1>6, <1>7

(* Observed endings are sticky: a flush, a sweep, a Stop or a replayed     *)
(* stop never moves one back.                                              *)
THEOREM EndingsAreSticky == Spec => EndingsStick
  <1>1. Init => MainsNeverFail
    BY LivenessAssumption DEF Init, MainsNeverFail
  <1>2. IInv /\ MainsNeverFail /\ [Next]_vars => MainsNeverFail'
    BY StepsKeepEndings, LivenessAssumption DEF MainsNeverFail
  <1>3. IInv /\ MainsNeverFail /\ [Next]_vars =>
          [\A a \in Agents :
             /\ status[a] = "completed" => status'[a] = "completed"
             /\ status[a] = "error" => status'[a] \in {"error", "completed"}]_status
    BY StepsKeepEndings
  <1> QED
    BY <1>1, <1>2, <1>3, LivenessInductive, PTL DEF Spec, EndingsStick

-----------------------------------------------------------------------------
(* The migrations: what the invariant keeps of a database and of the       *)
(* processes that boot on it.                                              *)

IsTables(t) ==
  t = [prices |-> t.prices, usage |-> t.usage, stamp |-> t.stamp, clock |-> t.clock,
       objects |-> t.objects]

\* The database was made by a beginning of the list; a record without a
\* checksum is of a build from before checksums.
Recorded ==
  /\ Boot!Beginning(DOMAIN applied)
  /\ \A m \in DOMAIN applied : applied[m] = None => m <= 10
  /\ IsTables(db)
  /\ db.objects = DOMAIN applied \cap Boot!Structural

Says(b, m) == m \in b.ids /\ applied[m] = b.says[m]

\* Every process that boots is of the build that is installed. A record it has
\* yet to verify is as it was read, or was adopted meanwhile by another that
\* boots; what it has verified reads as its own text.
Booting(q) ==
  /\ q.pc \in {"verify", "apply"} => q.build = installed
  /\ q.pc = "verify" =>
       /\ \A r \in q.todo :
            /\ r.id \in DOMAIN applied
            /\ r.checksum = applied[r.id] \/ (r.checksum = None /\ Says(installed, r.id))
       /\ \A m \in DOMAIN applied \cap installed.ids :
            Says(installed, m) \/ \E r \in q.todo : r.id = m
  /\ q.pc = "apply" =>
       /\ q.todo \subseteq installed.ids /\ installed.ids \ DOMAIN applied \subseteq q.todo
       /\ \A m \in DOMAIN applied \cap installed.ids : Says(installed, m)

Serving(q) ==
  q.pc = "up" => q.build \in Builds /\ \A m \in q.build.ids : m \in DOMAIN applied /\ Says(q.build, m)

IsBoot(q) ==
  q = [pc |-> q.pc, build |-> q.build, todo |-> q.todo] /\ q.pc \in {"off", "verify", "apply", "up"}

Boots ==
  /\ installed \in Builds
  /\ DOMAIN proc = Processes
  /\ proc = [q \in Processes |-> proc[q]]
  /\ \A q \in Processes : IsBoot(proc[q]) /\ Booting(proc[q]) /\ Serving(proc[q])

\* A rate at the floor is one the operator asked for, or the last that was
\* shipped; before migration 11 the seed's.
AskedFor(k) == \E w \in asked : w.model = k.model /\ w.at = k.at /\ w.rate = db.prices[k]
LastShipped(k) ==
  IF 11 \in DOMAIN applied
  THEN Boot!Pricing(k.model) # {} /\ db.prices[k] = Boot!FloorRate(k.model)
  ELSE k.form = "bare" /\ k.model \in DOMAIN Boot!Seed /\ db.prices[k] = Boot!Seed[k.model]

IsKey(k) == k = Boot!Key(k.model, k.at, k.form)
AtFloor(k) == Boot!Readable(k) /\ k.at = Boot!Floor

Priced ==
  /\ \A k \in DOMAIN db.prices : IsKey(k)
  /\ 7 \notin DOMAIN applied => asked = {}
  /\ \A w \in asked : Boot!Stands(w, db.prices)
  /\ \A k \in DOMAIN db.prices : AtFloor(k) => AskedFor(k) \/ LastShipped(k)
  /\ 11 \in DOMAIN applied =>
       \A m \in DOMAIN applied : \A model \in DOMAIN Boot!Shipped(m, None) :
         \E k \in DOMAIN db.prices : AtFloor(k) /\ k.model = model
  /\ 14 \in DOMAIN applied => \A k \in DOMAIN db.prices : k.form = "canonical"

Usages ==
  /\ \A u \in db.usage : u = [agent |-> u.agent, main |-> u.main, form |-> u.form]
  /\ Boot!UsageMended

Stamps ==
  /\ db.stamp \in Seq(Nat) /\ db.clock \in Nat
  /\ Boot!NewestLast

MigrationInv == Recorded /\ Boots /\ Priced /\ Usages /\ Stamps

LEMMA LeastNumber ==
  ASSUME NEW S \in SUBSET Nat, S # {}
  PROVE  \E n \in S : \A j \in S : n <= j
<1>1. IsWellFoundedOn(OpToRel(<, Nat), Nat)
  BY NatLessThanWellFounded
<1>2. \E n \in S : \A j \in S : <<j, n>> \notin OpToRel(<, Nat)
  <2> DEFINE R == OpToRel(<, Nat)
  <2>1. IsWellFoundedOn(R, Nat)
    BY <1>1
  <2>2. \E n \in S : \A j \in S : ~ (<<j, n>> \in R)
    <3> HIDE DEF R
    <3> QED BY <2>1, WFMin
  <2> QED BY <2>2
<1>3. PICK n \in S : \A j \in S : <<j, n>> \notin OpToRel(<, Nat)
  BY <1>2
<1>4. ASSUME NEW j \in S PROVE n <= j
  <2>1. CASE j < n
    <3>1. <<j, n>> \in OpToRel(<, Nat)
      BY <2>1 DEF OpToRel
    <3> QED BY <1>3, <3>1
  <2> QED BY <2>1
<1> QED BY <1>4

LEMMA BuildsAre ==
  /\ None # "main"
  /\ \A b \in Builds : Boot!Beginning(b.ids) /\ \A m \in b.ids : b.says[m] # None
  BY BootAssumption DEF Boot!Configured

\* The next migration comes after all that are recorded, so that what is
\* recorded stays a beginning of the list.
LEMMA AppliedInOrder ==
  ASSUME Recorded, Boots, NEW q \in Processes, proc[q].pc = "apply", proc[q].todo # {},
         Boot!Pending(q) \notin DOMAIN applied
  PROVE  /\ Boot!Pending(q) \in installed.ids /\ Boot!Pending(q) \in 1..24
         /\ installed.says[Boot!Pending(q)] # None
         /\ \A n \in DOMAIN applied : n \in 1..24 /\ n < Boot!Pending(q)
         /\ Boot!Beginning(DOMAIN applied \cup {Boot!Pending(q)})
         /\ proc[q].build = installed
<1> DEFINE m == Boot!Pending(q)
           S == proc[q].todo
<1>1. proc[q].build = installed /\ S \subseteq installed.ids /\ installed.ids \ DOMAIN applied \subseteq S
  BY DEF Boots, Booting
<1>2. Boot!Beginning(installed.ids) /\ \A n \in installed.ids : installed.says[n] # None
  BY BuildsAre DEF Boots
<1>3. S \in SUBSET (1..24) /\ S \in SUBSET Nat
  BY <1>1, <1>2 DEF Boot!Beginning
<1>4. m \in S /\ \A n \in S : m <= n
  <2>1. \E n \in S : \A j \in S : n <= j
    BY <1>3, LeastNumber
  <2> QED BY <2>1 DEF Boot!Pending, Boot!Min
<1> HIDE DEF m
<1>5. m \in 1..24 /\ m \in installed.ids /\ m \in Boot!Listed
  BY <1>1, <1>3, <1>4 DEF Boot!Listed, Boots
<1>6. DOMAIN applied \subseteq 1..24
  BY DEF Recorded, Boot!Beginning
<1>7. ASSUME NEW n \in DOMAIN applied PROVE n < m
  <2>1. n \in 1..24 /\ (m < n => m \in DOMAIN applied)
    BY <1>5, <1>6 DEF Recorded, Boot!Beginning
  <2>2. m \notin DOMAIN applied
    BY DEF m
  <2> QED BY <1>5, <2>1, <2>2
<1>8. ASSUME NEW n \in Boot!Listed, n < m PROVE n \in DOMAIN applied
  <2>1. n \in installed.ids
    BY <1>2, <1>5, <1>8 DEF Boot!Beginning
  <2>2. n \in 1..24
    BY <2>1, <1>2 DEF Boot!Beginning
  <2>3. ~ (m <= n)
    BY <1>5, <1>8, <2>2
  <2> QED BY <1>1, <1>4, <2>1, <2>3
<1>9. Boot!Beginning(DOMAIN applied \cup {m})
  <2>1. \A k \in DOMAIN applied : {n \in Boot!Listed : n < k} \subseteq DOMAIN applied
    BY DEF Recorded, Boot!Beginning
  <2> QED BY <1>5, <1>6, <1>8, <2>1 DEF Boot!Beginning
<1> QED BY <1>1, <1>2, <1>5, <1>6, <1>7, <1>9 DEF m

LEMMA FirstIs ==
  ASSUME NEW todo, todo # {}, \A r \in todo : r.id \in 1..24
  PROVE  Boot!First(todo) \in todo
<1> DEFINE S == {r.id : r \in todo}
<1>1. S \in SUBSET Nat /\ S # {}
  OBVIOUS
<1>2. \E n \in S : \A j \in S : n <= j
  <2> HIDE DEF S
  <2> QED BY <1>1, LeastNumber
<1>3. \E r \in todo : \A t \in todo : r.id <= t.id
  BY <1>2
<1> QED BY <1>3 DEF Boot!First

-----------------------------------------------------------------------------
(* Processes *)

LEMMA BootsStep ==
  ASSUME Boots, NEW q \in Processes, NEW b, IsBoot(b), (Booting(b) /\ Serving(b))',
         proc' = [proc EXCEPT ![q] = b], installed' = installed,
         \A o : Booting(o) /\ Serving(o) => (Booting(o) /\ Serving(o))'
  PROVE  Boots'
<1>1. DOMAIN proc' = Processes /\ proc' = [o \in Processes |-> proc'[o]]
  BY DEF Boots
<1>2. proc'[q] = b /\ \A o \in Processes : o # q => proc'[o] = proc[o]
  BY DEF Boots
<1>3. ASSUME NEW o \in Processes PROVE IsBoot(proc'[o]) /\ Booting(proc[o])' /\ Serving(proc[o])'
  <2>1. CASE o = q
    BY <1>2, <2>1 DEF Booting, Serving, Says
  <2>2. CASE o # q
    <3>1. proc'[o] = proc[o] /\ IsBoot(proc[o]) /\ Booting(proc[o]) /\ Serving(proc[o])
      BY <1>2, <2>2 DEF Boots
    <3>2. PICK c : c = proc[o]
      OBVIOUS
    <3>3. Booting(c) /\ Serving(c)
      BY <3>1, <3>2
    <3>4. (Booting(c) /\ Serving(c))'
      BY <3>3
    <3>5. proc'[o] = c
      BY <3>1, <3>2
    <3> QED BY <3>1, <3>4, <3>5 DEF Booting, Serving, Says
  <2> QED BY <2>1, <2>2
<1> QED BY <1>1, <1>3 DEF Boots, IsBoot

\* A process that boots adopts a record without a checksum; the others have
\* not verified it, or are of the same build.
LEMMA AdoptedKeepsOthers ==
  ASSUME Recorded, Boots, NEW m \in DOMAIN applied, m \in installed.ids,
         applied[m] \in {None, installed.says[m]},
         applied' = [applied EXCEPT ![m] = installed.says[m]], installed' = installed,
         NEW q, Booting(q), Serving(q)
  PROVE  (Booting(q) /\ Serving(q))'
<1>1. DOMAIN applied' = DOMAIN applied /\ applied'[m] = installed.says[m]
      /\ \A n \in DOMAIN applied : n # m => applied'[n] = applied[n]
  OBVIOUS
<1>2. Booting(q)'
  <2>1. CASE q.pc = "verify"
    <3>1. ASSUME NEW r \in q.todo
          PROVE  /\ r.id \in DOMAIN applied'
                 /\ r.checksum = applied'[r.id] \/ (r.checksum = None /\ Says(installed, r.id)')
      <4>1. r.id \in DOMAIN applied /\ (r.checksum = applied[r.id] \/ (r.checksum = None /\ Says(installed, r.id)))
        BY <2>1 DEF Booting
      <4> QED BY <1>1, <4>1 DEF Says
    <3>2. \A n \in DOMAIN applied \cap installed.ids : Says(installed, n) \/ \E r \in q.todo : r.id = n
      BY <2>1 DEF Booting
    <3> QED BY <1>1, <2>1, <3>1, <3>2 DEF Booting, Says
  <2>2. CASE q.pc = "apply"
    BY <1>1, <2>2 DEF Booting, Says
  <2>3. CASE q.pc \notin {"verify", "apply"}
    BY <2>3 DEF Booting
  <2> QED BY <2>1, <2>2, <2>3
<1>3. Serving(q)'
  <2>1. SUFFICES ASSUME q.pc = "up" PROVE Serving(q)'
    BY DEF Serving
  <2>2. q.build \in Builds /\ \A n \in q.build.ids : n \in DOMAIN applied /\ applied[n] = q.build.says[n]
    BY <2>1 DEF Serving, Says
  <2>3. \A n \in q.build.ids : q.build.says[n] # None
    BY <2>2, BuildsAre
  <2> QED BY <1>1, <2>2, <2>3 DEF Serving, Says
<1> QED BY <1>2, <1>3

\* A migration was recorded: every process that boots lists it with one text.
LEMMA RecordKeepsOthers ==
  ASSUME Boots, NEW m, m \notin DOMAIN applied, m \in installed.ids, installed' = installed,
         DOMAIN applied' = DOMAIN applied \cup {m}, applied'[m] = installed.says[m],
         \A n \in DOMAIN applied : applied'[n] = applied[n],
         NEW q, Booting(q), Serving(q)
  PROVE  (Booting(q) /\ Serving(q))'
<1>1. Booting(q)'
  <2>1. CASE q.pc = "verify"
    BY <2>1 DEF Booting, Says
  <2>2. CASE q.pc = "apply"
    BY <2>2 DEF Booting, Says
  <2>3. CASE q.pc \notin {"verify", "apply"}
    BY <2>3 DEF Booting
  <2> QED BY <2>1, <2>2, <2>3
<1>2. Serving(q)'
  BY DEF Serving, Says
<1> QED BY <1>1, <1>2

LEMMA BootIsBooting ==
  ASSUME Boots, NEW q \in Processes, Boot!Boot(q)
  PROVE  Boots'
<1>1. PICK b : b = [pc |-> "verify", build |-> installed,
                    todo |-> {[id |-> m, checksum |-> applied[m]] : m \in DOMAIN applied}]
  OBVIOUS
<1>2. proc' = [proc EXCEPT ![q] = b] /\ UNCHANGED <<applied, installed>>
  BY <1>1 DEF Boot!Boot
<1>3. IsBoot(b) /\ b.pc = "verify" /\ b.build = installed
  BY <1>1 DEF IsBoot
<1>4. \A m \in DOMAIN applied : [id |-> m, checksum |-> applied[m]] \in b.todo
  BY <1>1
<1>5. \A r \in b.todo : r.id \in DOMAIN applied /\ r.checksum = applied[r.id]
  BY <1>1
<1>6. \A m \in DOMAIN applied : \E r \in b.todo : r.id = m
  BY <1>4
<1>7. (Booting(b) /\ Serving(b))'
  BY <1>2, <1>3, <1>5, <1>6 DEF Booting, Serving
<1>8. \A o : Booting(o) /\ Serving(o) => (Booting(o) /\ Serving(o))'
  BY <1>2 DEF Booting, Serving, Says
<1> QED BY <1>2, <1>3, <1>7, <1>8, BootsStep

\* What a row that is compared says, and what is left to compare.
LEMMA VerifyIsBooting ==
  ASSUME Recorded, Boots, NEW q \in Processes, Boot!Verify(q)
  PROVE  /\ Boots' /\ DOMAIN applied' = DOMAIN applied
         /\ \A m \in DOMAIN applied : applied'[m] = applied[m] \/ (m <= 10 /\ applied'[m] # None)
<1> DEFINE todo == proc[q].todo
<1>0. PICK r : r = Boot!First(proc[q].todo)
  OBVIOUS
<1>1. proc[q].build = installed /\ IsBoot(proc[q]) /\ proc[q].pc = "verify" /\ todo # {}
  BY DEF Boot!Verify, Boots, Booting
<1>2. /\ \A t \in todo : /\ t.id \in DOMAIN applied
                         /\ t.checksum = applied[t.id] \/ (t.checksum = None /\ Says(installed, t.id))
      /\ \A m \in DOMAIN applied \cap installed.ids : Says(installed, m) \/ \E t \in todo : t.id = m
  BY <1>1 DEF Boots, Booting
<1>3. r \in todo
  <2>1. \A t \in todo : t.id \in 1..24
    BY <1>2 DEF Recorded, Boot!Beginning
  <2> QED BY <1>0, <1>1, <2>1, FirstIs
<1>4. /\ r.id \in installed.ids => r.checksum \in {None, installed.says[r.id]}
      /\ applied' = IF r.id \in installed.ids /\ r.checksum = None
                    THEN [applied EXCEPT ![r.id] = installed.says[r.id]] ELSE applied
      /\ proc' = [proc EXCEPT ![q].todo = todo \ {r}] /\ installed' = installed
  BY <1>0, <1>1 DEF Boot!Verify, Boot!MigrationChecksum
<1>5. PICK b : b = [pc |-> "verify", build |-> installed, todo |-> todo \ {r}]
  OBVIOUS
<1>6. proc' = [proc EXCEPT ![q] = b]
  <2>1. proc[q] = [pc |-> "verify", build |-> installed, todo |-> todo]
    BY <1>1 DEF IsBoot
  <2>2. [proc[q] EXCEPT !.todo = todo \ {r}] = b
    BY <1>5, <2>1
  <2>3. proc' = [proc EXCEPT ![q] = [proc[q] EXCEPT !.todo = todo \ {r}]]
    BY <1>4
  <2> QED BY <2>2, <2>3
<1>7. IsBoot(b) /\ b.pc = "verify" /\ b.build = installed /\ b.todo = todo \ {r}
  BY <1>5 DEF IsBoot
<1>8. applied[r.id] \in {None, installed.says[r.id]} \/ r.id \notin installed.ids
  BY <1>2, <1>3, <1>4 DEF Says
<1>9. \A o : Booting(o) /\ Serving(o) => (Booting(o) /\ Serving(o))'
  <2>1. CASE r.id \in installed.ids /\ r.checksum = None
    <3>1. applied' = [applied EXCEPT ![r.id] = installed.says[r.id]] /\ installed' = installed
      BY <1>4, <2>1
    <3> QED BY <1>2, <1>3, <1>8, <2>1, <3>1, AdoptedKeepsOthers
  <2>2. CASE ~ (r.id \in installed.ids /\ r.checksum = None)
    BY <1>4, <2>2 DEF Booting, Serving, Says
  <2> QED BY <2>1, <2>2
<1>10. Booting(proc[q])
  BY DEF Boots
<1>11. PICK was : was = proc[q]
  OBVIOUS
<1>12. Booting(was) /\ Serving(was) /\ was.todo = todo /\ was.pc = "verify"
  BY <1>1, <1>11 DEF Boots
<1>13. Booting(was)'
  BY <1>9, <1>12
<1>14. r.id \in installed.ids => Says(installed, r.id)'
  <2>1. SUFFICES ASSUME r.id \in installed.ids PROVE applied'[r.id] = installed.says[r.id]
    BY <1>4 DEF Says
  <2>2. CASE r.checksum = None
    BY <1>2, <1>3, <1>4, <2>1, <2>2
  <2>3. CASE r.checksum # None
    <3>1. applied[r.id] = r.checksum /\ r.checksum = installed.says[r.id]
      BY <1>2, <1>3, <1>4, <2>1, <2>3
    <3> QED BY <1>4, <2>3, <3>1
  <2> QED BY <2>2, <2>3
<1>15. (Booting(b) /\ Serving(b))'
  <2>1. /\ \A t \in todo : /\ t.id \in DOMAIN applied'
                           /\ t.checksum = applied'[t.id] \/ (t.checksum = None /\ Says(installed, t.id)')
        /\ \A m \in DOMAIN applied' \cap installed.ids : Says(installed, m)' \/ \E t \in todo : t.id = m
    BY <1>4, <1>12, <1>13 DEF Booting
  <2> QED BY <1>4, <1>7, <1>14, <2>1 DEF Booting, Serving, Says
<1>16. Boots'
  BY <1>4, <1>6, <1>7, <1>9, <1>15, BootsStep
<1>17. DOMAIN applied' = DOMAIN applied
  BY <1>4
<1>18. \A m \in DOMAIN applied : applied'[m] = applied[m] \/ (m <= 10 /\ applied'[m] # None)
  <2>1. CASE r.id \in installed.ids /\ r.checksum = None
    <3>1. installed.says[r.id] # None
      BY <2>1, BuildsAre DEF Boots
    <3>2. applied[r.id] = None => r.id <= 10
      BY <1>2, <1>3 DEF Recorded
    <3> QED BY <1>4, <1>8, <2>1, <3>1, <3>2
  <2>2. CASE ~ (r.id \in installed.ids /\ r.checksum = None)
    BY <1>4, <2>2
  <2> QED BY <2>1, <2>2
<1> QED BY <1>16, <1>17, <1>18

LEMMA PlanIsBooting ==
  ASSUME Boots, NEW q \in Processes, Boot!Plan(q)
  PROVE  Boots'
<1>1. PICK b : b = [pc |-> "apply", build |-> installed, todo |-> installed.ids \ DOMAIN applied]
  OBVIOUS
<1>2. proc[q].build = installed /\ IsBoot(proc[q]) /\ proc[q].pc = "verify" /\ proc[q].todo = {}
  BY DEF Boot!Plan, Boots, Booting
<1>3. proc' = [proc EXCEPT ![q] = b] /\ UNCHANGED <<applied, installed>>
  <2>1. proc' = [proc EXCEPT ![q] = [[proc[q] EXCEPT !.pc = "apply"] EXCEPT !.todo = installed.ids \ DOMAIN applied]]
    BY <1>2 DEF Boot!Plan, Boots
  <2>2. [[proc[q] EXCEPT !.pc = "apply"] EXCEPT !.todo = installed.ids \ DOMAIN applied] = b
    <3>1. proc[q] = [pc |-> "verify", build |-> installed, todo |-> {}]
      BY <1>2 DEF IsBoot
    <3>2. PICK c : c = [pc |-> "apply", build |-> installed, todo |-> {}]
      OBVIOUS
    <3>3. [proc[q] EXCEPT !.pc = "apply"] = c
      BY <3>1, <3>2
    <3>4. [c EXCEPT !.todo = installed.ids \ DOMAIN applied] = b
      BY <1>1, <3>2
    <3> QED BY <3>3, <3>4
  <2> QED BY <2>1, <2>2 DEF Boot!Plan
<1>4. IsBoot(b)
  BY <1>1 DEF IsBoot
<1>5. \A m \in DOMAIN applied \cap installed.ids : Says(installed, m)
  BY <1>2 DEF Boots, Booting
<1>6. (Booting(b) /\ Serving(b))'
  BY <1>1, <1>3, <1>5 DEF Booting, Serving, Says
<1>7. \A o : Booting(o) /\ Serving(o) => (Booting(o) /\ Serving(o))'
  BY <1>3 DEF Booting, Serving, Says
<1> QED BY <1>3, <1>4, <1>6, <1>7, BootsStep

LEMMA ServeIsBooting ==
  ASSUME Boots, NEW q \in Processes, Boot!Serve(q)
  PROVE  Boots'
<1>1. PICK b : b = [pc |-> "up", build |-> installed, todo |-> {}]
  OBVIOUS
<1>2. proc[q].build = installed /\ IsBoot(proc[q]) /\ proc[q].pc = "apply" /\ proc[q].todo = {}
  BY DEF Boot!Serve, Boots, Booting
<1>3. proc' = [proc EXCEPT ![q] = b] /\ UNCHANGED <<applied, installed>>
  <2>1. proc' = [proc EXCEPT ![q] = [proc[q] EXCEPT !.pc = "up"]]
    BY <1>2 DEF Boot!Serve, Boots
  <2>2. [proc[q] EXCEPT !.pc = "up"] = b
    BY <1>1, <1>2 DEF IsBoot
  <2> QED BY <2>1, <2>2 DEF Boot!Serve
<1>4. IsBoot(b)
  BY <1>1 DEF IsBoot
<1>5. installed.ids \subseteq DOMAIN applied /\ \A m \in installed.ids : Says(installed, m)
  BY <1>2 DEF Boots, Booting
<1>6. (Booting(b) /\ Serving(b))'
  BY <1>1, <1>3, <1>5 DEF Booting, Serving, Says, Boots
<1>7. \A o : Booting(o) /\ Serving(o) => (Booting(o) /\ Serving(o))'
  BY <1>3 DEF Booting, Serving, Says
<1> QED BY <1>3, <1>4, <1>6, <1>7, BootsStep

LEMMA GoneIsBooting ==
  ASSUME Boots, NEW q \in Processes, Boot!Gone(q)
  PROVE  Boots'
<1>1. PICK b : b = Boot!Off
  OBVIOUS
<1>2. proc' = [proc EXCEPT ![q] = b] /\ UNCHANGED <<applied, installed>>
  BY <1>1 DEF Boot!Gone
<1>3. IsBoot(b) /\ b.pc = "off"
  BY <1>1 DEF IsBoot, Boot!Off
<1>4. (Booting(b) /\ Serving(b))'
  BY <1>3 DEF Booting, Serving
<1>5. \A o : Booting(o) /\ Serving(o) => (Booting(o) /\ Serving(o))'
  BY <1>2 DEF Booting, Serving, Says
<1> QED BY <1>2, <1>3, <1>4, <1>5, BootsStep

LEMMA InstallIsBooting ==
  ASSUME Boots, NEW b \in Builds, Boot!Install(b)
  PROVE  Boots'
<1>1. UNCHANGED <<applied, proc>> /\ installed' = b /\ \A q \in Processes : proc[q].pc \in {"off", "up"}
  BY DEF Boot!Install
<1> QED BY <1>1 DEF Boots, IsBoot, Booting, Serving, Says

LEMMA ApplyIsBooting ==
  ASSUME Recorded, Boots, NEW q \in Processes, Boot!Apply(q)
  PROVE  Boots'
<1> DEFINE m == Boot!Pending(q)
<1>1. /\ proc[q].pc = "apply" /\ proc[q].todo # {} /\ m \notin DOMAIN applied
      /\ applied' = [n \in DOMAIN applied \cup {m} |->
                      IF n = m THEN proc[q].build.says[m] ELSE applied[n]]
      /\ proc' = [proc EXCEPT ![q].todo = proc[q].todo \ {m}] /\ installed' = installed
  BY DEF Boot!Apply, Boot!Applicable, Boot!MigrationChecksum
<1>2. /\ proc[q].build = installed /\ m \in installed.ids
      /\ Boot!Beginning(DOMAIN applied \cup {m})
  BY <1>1, AppliedInOrder
<1>3. IsBoot(proc[q]) /\ Booting(proc[q])
  BY DEF Boots
<1> HIDE DEF m
<1>4. DOMAIN applied' = DOMAIN applied \cup {m}
  BY <1>1
<1>5. applied'[m] = installed.says[m] /\ \A n \in DOMAIN applied : applied'[n] = applied[n]
  BY <1>1, <1>2
<1>6. PICK b : b = [pc |-> "apply", build |-> installed, todo |-> proc[q].todo \ {m}]
  OBVIOUS
<1>7. proc' = [proc EXCEPT ![q] = b]
  <2>1. proc[q] = [pc |-> "apply", build |-> installed, todo |-> proc[q].todo]
    BY <1>1, <1>2, <1>3 DEF IsBoot
  <2>2. [proc[q] EXCEPT !.todo = proc[q].todo \ {m}] = b
    BY <1>6, <2>1
  <2>3. proc' = [proc EXCEPT ![q] = [proc[q] EXCEPT !.todo = proc[q].todo \ {m}]]
    BY <1>1
  <2> QED BY <2>2, <2>3
<1>8. IsBoot(b) /\ b.pc = "apply" /\ b.build = installed /\ b.todo = proc[q].todo \ {m}
  BY <1>6 DEF IsBoot
<1>9. (Booting(b) /\ Serving(b))'
  BY <1>1, <1>2, <1>3, <1>4, <1>5, <1>8 DEF Booting, Serving, Says
<1>10. \A o : Booting(o) /\ Serving(o) => (Booting(o) /\ Serving(o))'
  BY <1>1, <1>2, <1>4, <1>5, RecordKeepsOthers
<1> QED BY <1>1, <1>7, <1>8, <1>9, <1>10, BootsStep

-----------------------------------------------------------------------------
(* What each migration does to the tables *)

LEMMA MaxIs ==
  ASSUME NEW S \in SUBSET Int, NEW top \in S, \A n \in S : n <= top
  PROVE  Boot!Max(S) = top
<1>1. top \in S /\ \A n \in S : top >= n
  OBVIOUS
<1>2. \A n \in S : (\A j \in S : n >= j) => n = top
  OBVIOUS
<1> QED BY <1>1, <1>2 DEF Boot!Max

LEMMA KeyIs ==
  ASSUME NEW model, NEW at, NEW form
  PROVE  /\ Boot!Key(model, at, form).model = model /\ Boot!Key(model, at, form).at = at
         /\ Boot!Key(model, at, form).form = form /\ IsKey(Boot!Key(model, at, form))
         /\ Boot!Canonical(Boot!Key(model, at, form)) = Boot!Key(model, at, "canonical")
  BY DEF Boot!Key, Boot!Canonical, IsKey

LEMMA CanonicalIs ==
  ASSUME NEW k, IsKey(k)
  PROVE  /\ Boot!Canonical(k) = Boot!Key(k.model, k.at, "canonical")
         /\ k.form = "canonical" => Boot!Canonical(k) = k
  BY DEF Boot!Key, Boot!Canonical, IsKey

LEMMA RowIs ==
  ASSUME NEW rates, NEW at, NEW form
  PROVE  /\ \A k \in DOMAIN Boot!Row(rates, at, form) :
              /\ IsKey(k) /\ k.at = at /\ k.form = form /\ k.model \in DOMAIN rates
              /\ Boot!Row(rates, at, form)[k] = rates[k.model]
         /\ \A k : IsKey(k) /\ k.at = at /\ k.form = form /\ k.model \in DOMAIN rates =>
                     k \in DOMAIN Boot!Row(rates, at, form)
         /\ \A model \in DOMAIN rates : Boot!Key(model, at, form) \in DOMAIN Boot!Row(rates, at, form)
<1>1. DOMAIN Boot!Row(rates, at, form) = {Boot!Key(model, at, form) : model \in DOMAIN rates}
      /\ \A k \in DOMAIN Boot!Row(rates, at, form) : Boot!Row(rates, at, form)[k] = rates[k.model]
  BY DEF Boot!Row
<1>2. ASSUME NEW k \in DOMAIN Boot!Row(rates, at, form)
      PROVE  IsKey(k) /\ k.at = at /\ k.form = form /\ k.model \in DOMAIN rates
  <2>1. PICK model \in DOMAIN rates : k = Boot!Key(model, at, form)
    BY <1>1
  <2> QED BY <2>1, KeyIs
<1>3. ASSUME NEW k, IsKey(k), k.at = at, k.form = form, k.model \in DOMAIN rates
      PROVE  k \in DOMAIN Boot!Row(rates, at, form)
  BY <1>1, <1>3 DEF IsKey
<1> QED BY <1>1, <1>2, <1>3

\* What a migration ships does not depend on its text, but the rates may; none
\* of those before checksums does.
LEMMA ShippedIs ==
  /\ \A m \in 1..24 : \A t, u : DOMAIN Boot!Shipped(m, t) = DOMAIN Boot!Shipped(m, u)
  /\ \A m \in 1..19 : \A t, u : Boot!Shipped(m, t) = Boot!Shipped(m, u)
  /\ \A m \in 1..24 : \A t : m \notin {7, 11, 18, 19, 20, 24} => DOMAIN Boot!Shipped(m, t) = {}
  /\ \A t : Boot!Shipped(7, t) = Boot!Seed /\ Boot!Shipped(11, t) = Boot!Seed
<1>1. ASSUME NEW m \in 1..24, NEW t PROVE m # 20 => Boot!Shipped(m, t) = Boot!Shipped(m, None)
  BY DEF Boot!Shipped
<1>2. \A t : DOMAIN Boot!Shipped(20, t) = {"claude_sonnet_5"}
  BY DEF Boot!Shipped
<1>3. \A m \in 1..24 : \A t : m \notin {7, 11, 18, 19, 20, 24} => Boot!Shipped(m, t) = << >>
  BY DEF Boot!Shipped
<1>4. \A t : Boot!Shipped(7, t) = Boot!Seed /\ Boot!Shipped(11, t) = Boot!Seed
  BY DEF Boot!Shipped
<1>5. ASSUME NEW m \in 1..24, NEW t, NEW u PROVE DOMAIN Boot!Shipped(m, t) = DOMAIN Boot!Shipped(m, u)
  <2>1. CASE m = 20
    BY <1>2, <2>1
  <2>2. CASE m # 20
    BY <1>1, <2>2
  <2> QED BY <2>1, <2>2
<1>6. ASSUME NEW m \in 1..19, NEW t, NEW u PROVE Boot!Shipped(m, t) = Boot!Shipped(m, u)
  <2>1. m \in 1..24 /\ m # 20
    OBVIOUS
  <2> QED BY <1>1, <2>1
<1>7. DOMAIN << >> = {}
  OBVIOUS
<1> QED BY <1>3, <1>4, <1>5, <1>6, <1>7

Shipping == {18, 19, 20, 24}

\* What migration m changed of the tables t, and what it left.
Changed(t, m, text, r) ==
  /\ IsTables(r) /\ r.objects = t.objects \cup ({m} \cap Boot!Structural)
  /\ m = 7 => r.prices = Boot!Row(Boot!Seed, Boot!Floor, "bare")
  /\ m = 11 => r.prices = Boot!Converged(t).prices
  /\ m = 14 => r.prices = Boot!PricesCanonical(t).prices
  /\ m \in Shipping =>
       r.prices = Boot!Upserted(t.prices, Boot!Row(Boot!Shipped(m, text), Boot!Floor, "canonical"))
  /\ m \notin {7, 11, 14} \cup Shipping => r.prices = t.prices
  /\ m = 8 => r.usage = Boot!Attributed(t).usage
  /\ m = 15 => r.usage = Boot!UsageCanonical(t).usage
  /\ m \notin {8, 15} => r.usage = t.usage
  /\ m = 22 => r.stamp = [s \in DOMAIN t.stamp |-> s] /\ r.clock = Boot!Max({0} \cup DOMAIN t.stamp)
  /\ m # 22 => r.stamp = t.stamp /\ r.clock = t.clock

LEMMA MigratedIs ==
  ASSUME NEW t, IsTables(t), NEW m \in 1..24, NEW text, NEW r, r = Boot!Migrated(m, text, t)
  PROVE  Changed(t, m, text, r)
<1>0. PICK up : up = Boot!Up(m, text, t)
  OBVIOUS
<1>1. r = [up EXCEPT !.objects = up.objects \cup ({m} \cap Boot!Structural)]
  BY <1>0 DEF Boot!Migrated
<1>2. ASSUME IsTables(up)
      PROVE  /\ IsTables(r) /\ r.prices = up.prices /\ r.usage = up.usage /\ r.stamp = up.stamp
             /\ r.clock = up.clock /\ r.objects = up.objects \cup ({m} \cap Boot!Structural)
  <2>1. r = [prices |-> up.prices, usage |-> up.usage, stamp |-> up.stamp, clock |-> up.clock,
             objects |-> up.objects \cup ({m} \cap Boot!Structural)]
    BY <1>1, <1>2 DEF IsTables
  <2> QED BY <2>1 DEF IsTables
<1>3. CASE m = 7
  <2>1. up = [t EXCEPT !.prices = Boot!Row(Boot!Seed, Boot!Floor, "bare")]
    BY <1>0, <1>3 DEF Boot!Up, Boot!Seeded
  <2>2. IsTables(up) /\ up.prices = Boot!Row(Boot!Seed, Boot!Floor, "bare")
        /\ up.usage = t.usage /\ up.stamp = t.stamp /\ up.clock = t.clock /\ up.objects = t.objects
    BY <2>1 DEF IsTables
  <2> QED BY <1>2, <1>3, <2>2 DEF Shipping, Changed
<1>4. CASE m = 8
  <2>1. up = Boot!Attributed(t)
    BY <1>0, <1>4 DEF Boot!Up
  <2>2. IsTables(up) /\ up.prices = t.prices /\ up.stamp = t.stamp /\ up.clock = t.clock /\ up.objects = t.objects
    BY <2>1 DEF IsTables, Boot!Attributed
  <2> QED BY <1>2, <1>4, <2>1, <2>2 DEF Shipping, Changed
<1>5. CASE m = 11
  <2>1. up = Boot!Converged(t)
    BY <1>0, <1>5 DEF Boot!Up
  <2>2. IsTables(up) /\ up.usage = t.usage /\ up.stamp = t.stamp /\ up.clock = t.clock /\ up.objects = t.objects
    BY <2>1 DEF IsTables, Boot!Converged
  <2> QED BY <1>2, <1>5, <2>1, <2>2 DEF Shipping, Changed
<1>6. CASE m = 14
  <2>1. up = Boot!PricesCanonical(t)
    BY <1>0, <1>6 DEF Boot!Up
  <2>2. IsTables(up) /\ up.usage = t.usage /\ up.stamp = t.stamp /\ up.clock = t.clock /\ up.objects = t.objects
    BY <2>1 DEF IsTables, Boot!PricesCanonical
  <2> QED BY <1>2, <1>6, <2>1, <2>2 DEF Shipping, Changed
<1>7. CASE m = 15
  <2>1. up = Boot!UsageCanonical(t)
    BY <1>0, <1>7 DEF Boot!Up
  <2>2. IsTables(up) /\ up.prices = t.prices /\ up.stamp = t.stamp /\ up.clock = t.clock /\ up.objects = t.objects
    BY <2>1 DEF IsTables, Boot!UsageCanonical
  <2> QED BY <1>2, <1>7, <2>1, <2>2 DEF Shipping, Changed
<1>8. CASE m \in Shipping
  <2>1. up = Boot!Priced(t, Boot!Shipped(m, text))
    BY <1>0, <1>8 DEF Boot!Up, Shipping
  <2>2. up = [t EXCEPT !.prices = Boot!Upserted(t.prices, Boot!Row(Boot!Shipped(m, text), Boot!Floor, "canonical"))]
    BY <2>1 DEF Boot!Priced
  <2>3. IsTables(up) /\ up.usage = t.usage /\ up.stamp = t.stamp /\ up.clock = t.clock /\ up.objects = t.objects
        /\ up.prices = Boot!Upserted(t.prices, Boot!Row(Boot!Shipped(m, text), Boot!Floor, "canonical"))
    BY <2>2 DEF IsTables
  <2> QED BY <1>2, <1>8, <2>3 DEF Shipping, Changed
<1>9. CASE m = 22
  <2>1. up = [t EXCEPT !.stamp = [s \in DOMAIN t.stamp |-> s], !.clock = Boot!Max({0} \cup DOMAIN t.stamp)]
    BY <1>0, <1>9 DEF Boot!Up, Boot!Sequenced
  <2>2. up = [prices |-> t.prices, usage |-> t.usage, stamp |-> [s \in DOMAIN t.stamp |-> s],
              clock |-> Boot!Max({0} \cup DOMAIN t.stamp), objects |-> t.objects]
    BY <2>1 DEF IsTables
  <2> QED BY <1>2, <1>9, <2>2 DEF Shipping, Changed, IsTables
<1>10. CASE m \notin {7, 8, 11, 14, 15, 22} \cup Shipping
  <2>1. up = t
    BY <1>0, <1>10 DEF Boot!Up, Shipping
  <2> QED BY <1>2, <1>10, <2>1 DEF Changed
<1> QED BY <1>3, <1>4, <1>5, <1>6, <1>7, <1>8, <1>9, <1>10

\* Migration m, whose text is given, runs and is recorded.
Applies(m, text) ==
  /\ m \in 1..24 /\ m \notin DOMAIN applied /\ text # None
  /\ \A n \in DOMAIN applied : n \in 1..24 /\ n < m
  /\ Boot!Beginning(DOMAIN applied \cup {m})
  /\ Boot!Runs(m, db)
  /\ DOMAIN applied' = DOMAIN applied \cup {m} /\ applied'[m] = text
  /\ \A n \in DOMAIN applied : applied'[n] = applied[n]
  /\ db' = Boot!Migrated(m, text, db)
  /\ asked' = {w \in asked : [model |-> w.model, at |-> w.at] \in Boot!TakenOver(m, text) =>
                               Boot!Stands(w, db'.prices)}

LEMMA ApplyIs ==
  ASSUME Recorded, Boots, NEW q \in Processes, Boot!Apply(q)
  PROVE  \E m, text : Applies(m, text)
<1>0. PICK m : m = Boot!Pending(q)
  OBVIOUS
<1>1. /\ proc[q].pc = "apply" /\ proc[q].todo # {} /\ m \notin DOMAIN applied /\ Boot!Runs(m, db)
      /\ db' = Boot!Migrated(m, proc[q].build.says[m], db)
      /\ applied' = [n \in DOMAIN applied \cup {m} |->
                       IF n = m THEN proc[q].build.says[m] ELSE applied[n]]
      /\ asked' = {w \in asked : [model |-> w.model, at |-> w.at] \in Boot!TakenOver(m, proc[q].build.says[m]) =>
                                   Boot!Stands(w, db'.prices)}
  BY <1>0 DEF Boot!Apply, Boot!Applicable, Boot!MigrationChecksum
<1>2. /\ m \in 1..24 /\ installed.says[m] # None /\ proc[q].build = installed
      /\ \A n \in DOMAIN applied : n \in 1..24 /\ n < m
      /\ Boot!Beginning(DOMAIN applied \cup {m})
  BY <1>0, <1>1, AppliedInOrder
<1>3. Applies(m, installed.says[m])
  BY <1>1, <1>2 DEF Applies
<1> QED BY <1>3

LEMMA AppliesRecorded ==
  ASSUME Recorded, NEW m, NEW text, Applies(m, text)
  PROVE  Recorded'
<1>1. PICK r : r = db'
  OBVIOUS
<1>2. IsTables(r) /\ r.objects = db.objects \cup ({m} \cap Boot!Structural)
  <2>1. IsTables(db) /\ m \in 1..24 /\ r = Boot!Migrated(m, text, db)
    BY <1>1 DEF Applies, Recorded
  <2>2. Changed(db, m, text, r)
    BY <2>1, MigratedIs
  <2> QED BY <2>2 DEF Changed
<1>3. (IsTables(db))'
  BY <1>1, <1>2 DEF IsTables
<1>4. Boot!Beginning(DOMAIN applied)'
  BY DEF Applies, Boot!Beginning
<1>5. db'.objects = DOMAIN applied' \cap Boot!Structural
  BY <1>1, <1>2 DEF Applies, Recorded
<1>6. \A n \in DOMAIN applied' : applied'[n] = None => n <= 10
  BY DEF Applies, Recorded
<1> QED BY <1>3, <1>4, <1>5, <1>6 DEF Recorded

-----------------------------------------------------------------------------
(* Rates *)

LEMMA PricingIs ==
  ASSUME Recorded, NEW model, Boot!Pricing(model) # {}
  PROVE  /\ Boot!Pricing(model) \subseteq DOMAIN applied
         /\ Boot!Max(Boot!Pricing(model)) \in Boot!Pricing(model)
         /\ \A n \in Boot!Pricing(model) : n <= Boot!Max(Boot!Pricing(model))
<1>1. Boot!Pricing(model) \subseteq DOMAIN applied /\ DOMAIN applied \subseteq 1..24
  BY DEF Boot!Pricing, Recorded, Boot!Beginning
<1> DEFINE P == Boot!Pricing(model)
           Above == {25 - n : n \in P}
<1>2. Above \in SUBSET Nat /\ Above # {}
  <2>1. P \subseteq 1..24
    BY <1>1
  <2> QED BY <2>1
<1>3. \E a \in Above : \A b \in Above : a <= b
  <2> HIDE DEF Above
  <2> QED BY <1>2, LeastNumber
<1>4. PICK top \in P : \A n \in P : 25 - top <= 25 - n
  BY <1>3
<1>5. \A n \in P : n <= top
  BY <1>1, <1>4
<1>6. Boot!Max(P) = top
  <2>1. P \in SUBSET Int
    BY <1>1
  <2> HIDE DEF P
  <2> QED BY <1>5, <2>1, MaxIs
<1> QED BY <1>1, <1>5, <1>6

\* A migration decides the rates it ships, and no others.
LEMMA RateAfter ==
  ASSUME Recorded, NEW m, NEW text, Applies(m, text), NEW model
  PROVE  /\ model \in DOMAIN Boot!Shipped(m, text) =>
              /\ Boot!Pricing(model)' # {} /\ Boot!FloorRate(model)' = Boot!Shipped(m, text)[model]
         /\ model \notin DOMAIN Boot!Shipped(m, text) /\ Boot!Pricing(model) # {} =>
              /\ Boot!Pricing(model)' # {} /\ Boot!FloorRate(model)' = Boot!FloorRate(model)
<1>1. /\ m \in 1..24 /\ \A n \in DOMAIN applied : n \in 1..24 /\ n < m
      /\ DOMAIN applied' = DOMAIN applied \cup {m} /\ applied'[m] = text /\ m \notin DOMAIN applied
      /\ \A n \in DOMAIN applied : applied'[n] = applied[n]
  BY DEF Applies
<1>2. Boot!Pricing(model)' = Boot!Pricing(model) \cup (IF model \in DOMAIN Boot!Shipped(m, text) THEN {m} ELSE {})
  BY <1>1 DEF Boot!Pricing
<1>3. Boot!Pricing(model) \subseteq DOMAIN applied
  BY DEF Boot!Pricing
<1>4. CASE model \in DOMAIN Boot!Shipped(m, text)
  <2>1. m \in Boot!Pricing(model)' /\ Boot!Pricing(model)' \in SUBSET Int
        /\ \A n \in Boot!Pricing(model)' : n <= m
    BY <1>1, <1>2, <1>3, <1>4
  <2>2. Boot!Max(Boot!Pricing(model)') = m
    BY <2>1, MaxIs
  <2>3. Boot!FloorRate(model)' = Boot!Shipped(Boot!Max(Boot!Pricing(model)'), applied'[Boot!Max(Boot!Pricing(model)')])[model]
    BY DEF Boot!FloorRate
  <2> QED BY <1>1, <1>4, <2>1, <2>2, <2>3
<1>5. CASE model \notin DOMAIN Boot!Shipped(m, text) /\ Boot!Pricing(model) # {}
  <2>1. Boot!Pricing(model)' = Boot!Pricing(model)
    BY <1>2, <1>5
  <2>2. Boot!Max(Boot!Pricing(model)) \in DOMAIN applied
    BY <1>3, <1>5, PricingIs
  <2>3. Boot!FloorRate(model)' = Boot!Shipped(Boot!Max(Boot!Pricing(model)'), applied'[Boot!Max(Boot!Pricing(model)')])[model]
    BY DEF Boot!FloorRate
  <2>4. Boot!FloorRate(model) = Boot!Shipped(Boot!Max(Boot!Pricing(model)), applied[Boot!Max(Boot!Pricing(model))])[model]
    BY DEF Boot!FloorRate
  <2> QED BY <1>1, <1>5, <2>1, <2>2, <2>3, <2>4
<1> QED BY <1>4, <1>5

\* Adopting a checksum moves no rate: the records without one ship one text.
LEMMA RateAdopted ==
  ASSUME Recorded, DOMAIN applied' = DOMAIN applied,
         \A n \in DOMAIN applied : applied'[n] = applied[n] \/ (n <= 10 /\ applied'[n] # None),
         NEW model, Boot!Pricing(model) # {}
  PROVE  Boot!Pricing(model)' # {} /\ Boot!FloorRate(model)' = Boot!FloorRate(model)
<1>0. DOMAIN applied \subseteq 1..24
  BY DEF Recorded, Boot!Beginning
<1>1. \A n \in DOMAIN applied : Boot!Shipped(n, applied'[n]) = Boot!Shipped(n, applied[n])
  <2> SUFFICES ASSUME NEW n \in DOMAIN applied, n <= 10
               PROVE  Boot!Shipped(n, applied'[n]) = Boot!Shipped(n, applied[n])
    OBVIOUS
  <2>1. n \in 1..19
    BY <1>0
  <2> QED BY <2>1, ShippedIs
<1>2. Boot!Pricing(model)' = Boot!Pricing(model)
  BY <1>1 DEF Boot!Pricing
<1>3. Boot!Max(Boot!Pricing(model)) \in DOMAIN applied
  BY PricingIs
<1>4. Boot!FloorRate(model)' = Boot!Shipped(Boot!Max(Boot!Pricing(model)'), applied'[Boot!Max(Boot!Pricing(model)')])[model]
  BY DEF Boot!FloorRate
<1>5. Boot!FloorRate(model) = Boot!Shipped(Boot!Max(Boot!Pricing(model)), applied[Boot!Max(Boot!Pricing(model))])[model]
  BY DEF Boot!FloorRate
<1> QED BY <1>1, <1>2, <1>3, <1>4, <1>5

LEMMA UpsertedIs ==
  ASSUME NEW prices, NEW new, NEW P, P = Boot!Upserted(prices, new)
  PROVE  /\ DOMAIN P = DOMAIN prices \cup DOMAIN new
         /\ \A k \in DOMAIN new : P[k] = new[k]
         /\ \A k \in DOMAIN prices : k \notin DOMAIN new => P[k] = prices[k]
  BY DEF Boot!Upserted

LEMMA ConvergedIs ==
  ASSUME NEW t, IsTables(t), \A k \in DOMAIN t.prices : IsKey(k),
         NEW P, P = Boot!Converged(t).prices
  PROVE  /\ \A k \in DOMAIN P :
              \/ /\ IsKey(k) /\ k.at = Boot!Floor /\ k.form = "bare" /\ k.model \in DOMAIN Boot!Seed
                 /\ P[k] = Boot!Seed[k.model]
              \/ /\ k \in DOMAIN t.prices /\ P[k] = t.prices[k]
                 /\ ~ (k.at = Boot!Floor /\ k.form = "bare" /\ k.model \in DOMAIN Boot!Seed)
         /\ \A k : IsKey(k) /\ k.at = Boot!Floor /\ k.form = "bare" /\ k.model \in DOMAIN Boot!Seed
                     => k \in DOMAIN P
         /\ \A k \in DOMAIN t.prices :
              \/ k.at = Boot!Authored /\ k.model \in DOMAIN Boot!OriginalSeed
              \/ k.at = Boot!Floor /\ k.model \in DOMAIN Boot!Seed
              \/ k \in DOMAIN P /\ P[k] = t.prices[k]
<1> DEFINE original == {Boot!Key(model, Boot!Authored, "bare") : model \in DOMAIN Boot!OriginalSeed}
           kept == Boot!Restrict(t.prices, DOMAIN t.prices \ original)
           new == Boot!Row(Boot!Seed, Boot!Floor, "bare")
<1>1. Boot!Converged(t) = [t EXCEPT !.prices = Boot!Upserted(kept, new)]
  BY DEF Boot!Converged
<1>2. P = Boot!Upserted(kept, new)
  <2> HIDE DEF kept, new
  <2> QED BY <1>1 DEF IsTables
<1>3. DOMAIN kept = DOMAIN t.prices \ original /\ \A k \in DOMAIN kept : kept[k] = t.prices[k]
  BY DEF Boot!Restrict
<1>4. \A k \in original : k.at = Boot!Authored /\ k.model \in DOMAIN Boot!OriginalSeed
  <2> SUFFICES ASSUME NEW k \in original PROVE k.at = Boot!Authored /\ k.model \in DOMAIN Boot!OriginalSeed
    OBVIOUS
  <2>1. PICK model \in DOMAIN Boot!OriginalSeed : k = Boot!Key(model, Boot!Authored, "bare")
    OBVIOUS
  <2> QED BY <2>1, KeyIs
<1>5. /\ \A k \in DOMAIN new : IsKey(k) /\ k.at = Boot!Floor /\ k.form = "bare"
                               /\ k.model \in DOMAIN Boot!Seed /\ new[k] = Boot!Seed[k.model]
      /\ \A k : IsKey(k) /\ k.at = Boot!Floor /\ k.form = "bare" /\ k.model \in DOMAIN Boot!Seed
                  => k \in DOMAIN new
  BY RowIs
<1> HIDE DEF original, kept, new
<1>6. /\ DOMAIN P = DOMAIN kept \cup DOMAIN new
      /\ \A k \in DOMAIN new : P[k] = new[k]
      /\ \A k \in DOMAIN kept : k \notin DOMAIN new => P[k] = kept[k]
  BY <1>2 DEF Boot!Upserted
<1> QED BY <1>3, <1>4, <1>5, <1>6

LEMMA CanonicalizedIs ==
  ASSUME NEW t, IsTables(t), \A k \in DOMAIN t.prices : IsKey(k), Boot!PricesDatable(t),
         NEW P, P = Boot!PricesCanonical(t).prices
  PROVE  /\ \A k \in DOMAIN P :
              /\ IsKey(k) /\ k.form = "canonical"
              /\ \E l \in DOMAIN t.prices : l.model = k.model /\ l.at = k.at /\ P[k] = t.prices[l]
         /\ \A l \in DOMAIN t.prices :
              /\ Boot!Readable(l)
              /\ \E k \in DOMAIN P : l.model = k.model /\ l.at = k.at /\ P[k] = t.prices[l]
<1>1. P = [k \in {Boot!Canonical(l) : l \in DOMAIN t.prices} |->
             t.prices[CHOOSE l \in DOMAIN t.prices : Boot!Canonical(l) = k]]
  BY DEF Boot!PricesCanonical, IsTables
<1>2. ASSUME NEW l \in DOMAIN t.prices, NEW c, c = Boot!Canonical(l)
      PROVE  /\ IsKey(c) /\ c.form = "canonical" /\ c.model = l.model /\ c.at = l.at
             /\ c \in DOMAIN P /\ P[c] = t.prices[l]
  <2>1. c = Boot!Key(l.model, l.at, "canonical")
    BY <1>2, CanonicalIs
  <2>2. IsKey(c) /\ c.form = "canonical" /\ c.model = l.model /\ c.at = l.at
    BY <2>1, KeyIs
  <2>3. PICK o : o = CHOOSE n \in DOMAIN t.prices : Boot!Canonical(n) = c
    OBVIOUS
  <2>4. o \in DOMAIN t.prices /\ Boot!Canonical(o) = c
    BY <1>2, <2>3
  <2>5. c = Boot!Key(o.model, o.at, "canonical")
    BY <2>4, CanonicalIs
  <2>6. c.model = o.model /\ c.at = o.at
    BY <2>5, KeyIs
  <2>7. t.prices[o] = t.prices[l]
    BY <2>2, <2>4, <2>6 DEF Boot!PricesDatable, Boot!SameInstant
  <2>8. c \in DOMAIN P /\ P[c] = t.prices[o]
    BY <1>1, <1>2, <2>3
  <2> QED BY <2>2, <2>7, <2>8
<1>3. ASSUME NEW k \in DOMAIN P
      PROVE  /\ IsKey(k) /\ k.form = "canonical"
             /\ \E l \in DOMAIN t.prices : l.model = k.model /\ l.at = k.at /\ P[k] = t.prices[l]
  <2>1. PICK l \in DOMAIN t.prices : k = Boot!Canonical(l)
    BY <1>1
  <2> QED BY <1>2, <2>1
<1>4. ASSUME NEW l \in DOMAIN t.prices
      PROVE  /\ Boot!Readable(l)
             /\ \E k \in DOMAIN P : l.model = k.model /\ l.at = k.at /\ P[k] = t.prices[l]
  <2>1. PICK c : c = Boot!Canonical(l)
    OBVIOUS
  <2> QED BY <1>2, <2>1 DEF Boot!PricesDatable
<1> QED BY <1>3, <1>4

\* A rate that was asked for is taken over only at an instant whose rate the
\* migration ships, or that of the original seed.
LEMMA TakenOverIs ==
  ASSUME NEW m \in 1..24, NEW text, NEW model, NEW at
  PROVE  [model |-> model, at |-> at] \in Boot!TakenOver(m, text) <=>
           \/ at = Boot!Floor /\ model \in DOMAIN Boot!Shipped(m, text)
           \/ m = 11 /\ at = Boot!Authored /\ model \in DOMAIN Boot!OriginalSeed
<1> DEFINE A == {[model |-> n, at |-> Boot!Floor] : n \in DOMAIN Boot!Shipped(m, text)}
           B == {[model |-> n, at |-> Boot!Authored] : n \in DOMAIN Boot!OriginalSeed}
<1>1. Boot!TakenOver(m, text) = A \cup IF m = 11 THEN B ELSE {}
  BY DEF Boot!TakenOver
<1>2. [model |-> model, at |-> at] \in A <=> at = Boot!Floor /\ model \in DOMAIN Boot!Shipped(m, text)
  OBVIOUS
<1>3. [model |-> model, at |-> at] \in B <=> at = Boot!Authored /\ model \in DOMAIN Boot!OriginalSeed
  OBVIOUS
<1> HIDE DEF A, B
<1> QED BY <1>1, <1>2, <1>3

\* A migration that ships nothing and leaves the price table alone.
LEMMA PlainPriced ==
  ASSUME Recorded, Priced, NEW m, NEW text, Applies(m, text), m \notin {7, 11, 14} \cup Shipping
  PROVE  Priced'
<1>1. IsTables(db) /\ m \in 1..24 /\ db' = Boot!Migrated(m, text, db)
  BY DEF Applies, Recorded
<1>2. PICK r : r = db'
  OBVIOUS
<1>3. r.prices = db.prices
  <2>1. Changed(db, m, text, r)
    BY <1>1, <1>2, MigratedIs
  <2> QED BY <2>1 DEF Changed
<1>4. db'.prices = db.prices
  BY <1>2, <1>3
<1>5. \A t : DOMAIN Boot!Shipped(m, t) = {}
  BY <1>1, ShippedIs DEF Shipping
<1>6. asked' = asked
  <2>1. \A w \in asked : [model |-> w.model, at |-> w.at] \notin Boot!TakenOver(m, text)
    BY <1>1, <1>5, TakenOverIs
  <2> QED BY <2>1 DEF Applies
<1>7. DOMAIN applied' = DOMAIN applied \cup {m}
  BY DEF Applies
<1>8. \A k \in DOMAIN db.prices : AskedFor(k) => AskedFor(k)'
  BY <1>4, <1>6 DEF AskedFor
<1>9. ASSUME NEW k \in DOMAIN db.prices, LastShipped(k) PROVE LastShipped(k)'
  <2>1. CASE 11 \in DOMAIN applied
    <3>1. Boot!Pricing(k.model) # {} /\ db.prices[k] = Boot!FloorRate(k.model)
      BY <1>9, <2>1 DEF LastShipped
    <3>2. PICK model : model = k.model
      OBVIOUS
    <3>3. Boot!Pricing(model)' # {} /\ Boot!FloorRate(model)' = Boot!FloorRate(model)
      BY <1>5, <3>1, <3>2, RateAfter
    <3> QED BY <1>4, <1>7, <2>1, <3>1, <3>2, <3>3 DEF LastShipped
  <2>2. CASE 11 \notin DOMAIN applied
    BY <1>4, <1>7, <1>9, <2>2 DEF LastShipped
  <2> QED BY <2>1, <2>2
<1>10. /\ \A k \in DOMAIN db'.prices : IsKey(k)
       /\ \A w \in asked' : Boot!Stands(w, db'.prices)
       /\ 7 \notin DOMAIN applied' => asked' = {}
  BY <1>4, <1>6, <1>7 DEF Priced
<1>11. \A k \in DOMAIN db'.prices : AtFloor(k) => AskedFor(k)' \/ LastShipped(k)'
  BY <1>4, <1>8, <1>9 DEF Priced
<1>12. 11 \in DOMAIN applied' =>
         \A n \in DOMAIN applied' : \A model \in DOMAIN Boot!Shipped(n, None) :
           \E k \in DOMAIN db'.prices : AtFloor(k) /\ k.model = model
  BY <1>4, <1>5, <1>7 DEF Priced
<1>13. 14 \in DOMAIN applied' => \A k \in DOMAIN db'.prices : k.form = "canonical"
  BY <1>4, <1>7 DEF Priced
<1> QED BY <1>10, <1>11, <1>12, <1>13 DEF Priced

\* Migration 7 writes the table it makes.
LEMMA SeededPriced ==
  ASSUME Recorded, Priced, NEW text, Applies(7, text)
  PROVE  Priced'
<1>1. IsTables(db) /\ 7 \in 1..24 /\ db' = Boot!Migrated(7, text, db)
  BY DEF Applies, Recorded
<1>2. PICK r : r = db'
  OBVIOUS
<1>3. r.prices = Boot!Row(Boot!Seed, Boot!Floor, "bare")
  <2>1. Changed(db, 7, text, r)
    BY <1>1, <1>2, MigratedIs
  <2> QED BY <2>1 DEF Changed
<1>4. \A k \in DOMAIN r.prices : /\ IsKey(k) /\ k.at = Boot!Floor /\ k.form = "bare"
                                 /\ k.model \in DOMAIN Boot!Seed /\ r.prices[k] = Boot!Seed[k.model]
  BY <1>3, RowIs
<1>5. asked' = {}
  <2>1. asked = {}
    BY DEF Applies, Priced
  <2> QED BY <2>1 DEF Applies
<1>6. 7 \in DOMAIN applied' /\ 11 \notin DOMAIN applied' /\ 14 \notin DOMAIN applied'
  BY DEF Applies
<1>7. \A k \in DOMAIN r.prices : LastShipped(k)'
  BY <1>2, <1>4, <1>6 DEF LastShipped
<1> QED BY <1>2, <1>4, <1>5, <1>6, <1>7 DEF Priced

\* What is left to show of a migration that comes with or after migration 11.
LEMMA ShippedPriced ==
  ASSUME Recorded, Priced, NEW m, NEW text, Applies(m, text), m # 7, 11 \in DOMAIN applied',
         NEW r, r = db'.prices,
         \A k \in DOMAIN r : IsKey(k),
         \A w \in asked : Boot!Stands(w, r) \/ [model |-> w.model, at |-> w.at] \in Boot!TakenOver(m, text),
         \A k \in DOMAIN r : AtFloor(k) =>
           \/ \E w \in asked : w.model = k.model /\ w.at = k.at /\ w.rate = r[k]
           \/ k.model \in DOMAIN Boot!Shipped(m, text) /\ r[k] = Boot!Shipped(m, text)[k.model]
           \/ /\ k.model \notin DOMAIN Boot!Shipped(m, text) /\ Boot!Pricing(k.model) # {}
              /\ r[k] = Boot!FloorRate(k.model),
         \A n \in DOMAIN applied' : \A model \in DOMAIN Boot!Shipped(n, None) :
           \E k \in DOMAIN r : AtFloor(k) /\ k.model = model,
         14 \in DOMAIN applied' => \A k \in DOMAIN r : k.form = "canonical"
  PROVE  Priced'
<1>1. \A w \in asked' : w \in asked /\ Boot!Stands(w, r)
  BY DEF Applies
<1>2. ASSUME NEW k \in DOMAIN r, AtFloor(k) PROVE AskedFor(k)' \/ LastShipped(k)'
  <2>1. ASSUME NEW w \in asked, w.model = k.model, w.at = k.at, w.rate = r[k] PROVE AskedFor(k)'
    <3>1. Boot!Stands(w, r)
      BY <1>2, <2>1 DEF Boot!Stands, AtFloor
    <3>2. w \in asked'
      BY <3>1 DEF Applies
    <3> QED BY <2>1, <3>2 DEF AskedFor
  <2>2. PICK model : model = k.model
    OBVIOUS
  <2>3. ASSUME model \in DOMAIN Boot!Shipped(m, text), r[k] = Boot!Shipped(m, text)[model]
        PROVE  LastShipped(k)'
    <3>1. Boot!Pricing(model)' # {} /\ Boot!FloorRate(model)' = Boot!Shipped(m, text)[model]
      BY <2>3, RateAfter
    <3> QED BY <2>2, <2>3, <3>1 DEF LastShipped
  <2>4. ASSUME model \notin DOMAIN Boot!Shipped(m, text), Boot!Pricing(model) # {}, r[k] = Boot!FloorRate(model)
        PROVE  LastShipped(k)'
    <3>1. Boot!Pricing(model)' # {} /\ Boot!FloorRate(model)' = Boot!FloorRate(model)
      BY <2>4, RateAfter
    <3> QED BY <2>2, <2>4, <3>1 DEF LastShipped
  <2> QED BY <1>2, <2>1, <2>2, <2>3, <2>4
<1>3. 7 \notin DOMAIN applied' => asked' = {}
  <2>1. 7 \notin DOMAIN applied' => 7 \notin DOMAIN applied
    BY DEF Applies
  <2> QED BY <1>1, <2>1 DEF Priced
<1> QED BY <1>1, <1>2, <1>3 DEF Priced

\* Migration 11 writes the seed over what it finds at the floor and takes the
\* original one away.
LEMMA ConvergedPriced ==
  ASSUME Recorded, Priced, NEW text, Applies(11, text)
  PROVE  Priced'
<1>1. IsTables(db) /\ 11 \in 1..24 /\ db' = Boot!Migrated(11, text, db)
  BY DEF Applies, Recorded
<1>2. PICK t : t = db'
  OBVIOUS
<1>3. PICK r : r = t.prices
  OBVIOUS
<1>4. r = Boot!Converged(db).prices
  <2>1. Changed(db, 11, text, t)
    BY <1>1, <1>2, MigratedIs
  <2> QED BY <1>3, <2>1 DEF Changed
<1>5. \A k \in DOMAIN db.prices : IsKey(k)
  BY DEF Priced
<1>6. /\ \A k \in DOMAIN r :
           \/ /\ IsKey(k) /\ k.at = Boot!Floor /\ k.form = "bare" /\ k.model \in DOMAIN Boot!Seed
              /\ r[k] = Boot!Seed[k.model]
           \/ /\ k \in DOMAIN db.prices /\ r[k] = db.prices[k]
              /\ ~ (k.at = Boot!Floor /\ k.form = "bare" /\ k.model \in DOMAIN Boot!Seed)
      /\ \A k : IsKey(k) /\ k.at = Boot!Floor /\ k.form = "bare" /\ k.model \in DOMAIN Boot!Seed
                  => k \in DOMAIN r
      /\ \A k \in DOMAIN db.prices :
           \/ k.at = Boot!Authored /\ k.model \in DOMAIN Boot!OriginalSeed
           \/ k.at = Boot!Floor /\ k.model \in DOMAIN Boot!Seed
           \/ k \in DOMAIN r /\ r[k] = db.prices[k]
  BY <1>1, <1>4, <1>5, ConvergedIs
<1>7. Boot!Shipped(11, text) = Boot!Seed
  BY ShippedIs
<1>8. 11 \notin DOMAIN applied /\ 11 \in DOMAIN applied' /\ 14 \notin DOMAIN applied'
      /\ \A n \in DOMAIN applied' : n \in 1..24 /\ n <= 11
  BY DEF Applies
<1>9. \A k \in DOMAIN r : IsKey(k)
  BY <1>5, <1>6
<1>10. ASSUME NEW w \in asked
       PROVE  Boot!Stands(w, r) \/ [model |-> w.model, at |-> w.at] \in Boot!TakenOver(11, text)
  <2>1. PICK k \in DOMAIN db.prices : Boot!Readable(k) /\ k.model = w.model /\ k.at = w.at /\ db.prices[k] = w.rate
    BY DEF Priced, Boot!Stands
  <2>2. CASE k \in DOMAIN r /\ r[k] = db.prices[k]
    BY <2>1, <2>2 DEF Boot!Stands
  <2>3. CASE (k.at = Boot!Authored /\ k.model \in DOMAIN Boot!OriginalSeed)
             \/ (k.at = Boot!Floor /\ k.model \in DOMAIN Boot!Seed)
    BY <1>1, <1>7, <2>1, <2>3, TakenOverIs
  <2> QED BY <1>6, <2>2, <2>3
<1>11. ASSUME NEW k \in DOMAIN r, AtFloor(k)
       PROVE  \/ \E w \in asked : w.model = k.model /\ w.at = k.at /\ w.rate = r[k]
              \/ k.model \in DOMAIN Boot!Shipped(11, text) /\ r[k] = Boot!Shipped(11, text)[k.model]
  <2>1. CASE k.model \in DOMAIN Boot!Seed /\ r[k] = Boot!Seed[k.model]
    BY <1>7, <2>1
  <2>2. CASE /\ k \in DOMAIN db.prices /\ r[k] = db.prices[k]
             /\ ~ (k.at = Boot!Floor /\ k.form = "bare" /\ k.model \in DOMAIN Boot!Seed)
    <3>1. AskedFor(k) \/ LastShipped(k)
      BY <1>11, <2>2 DEF Priced
    <3>2. ~ LastShipped(k)
      BY <1>8, <1>11, <2>2 DEF LastShipped, AtFloor
    <3> QED BY <2>2, <3>1, <3>2 DEF AskedFor
  <2> QED BY <1>6, <2>1, <2>2
<1>12. ASSUME NEW n \in DOMAIN applied', NEW model \in DOMAIN Boot!Shipped(n, None)
       PROVE  \E k \in DOMAIN r : AtFloor(k) /\ k.model = model
  <2>1. n \in {7, 11}
    BY <1>8, <1>12, ShippedIs
  <2>2. model \in DOMAIN Boot!Seed
    BY <1>12, <2>1, ShippedIs
  <2>3. PICK k : k = Boot!Key(model, Boot!Floor, "bare")
    OBVIOUS
  <2>4. IsKey(k) /\ k.at = Boot!Floor /\ k.form = "bare" /\ k.model = model
    BY <2>3, KeyIs
  <2>5. k \in DOMAIN r
    BY <1>6, <2>2, <2>4
  <2> QED BY <2>4, <2>5 DEF AtFloor, Boot!Readable
<1>13. r = db'.prices
  BY <1>2, <1>3
<1> QED BY <1>8, <1>9, <1>10, <1>11, <1>12, <1>13, ShippedPriced

\* Migration 14 spells every instant canonically.
LEMMA CanonicalPriced ==
  ASSUME Recorded, Priced, NEW text, Applies(14, text)
  PROVE  Priced'
<1>1. IsTables(db) /\ 14 \in 1..24 /\ db' = Boot!Migrated(14, text, db) /\ Boot!PricesDatable(db)
  BY DEF Applies, Recorded, Boot!Runs
<1>2. PICK t : t = db'
  OBVIOUS
<1>3. PICK r : r = t.prices
  OBVIOUS
<1>4. r = Boot!PricesCanonical(db).prices
  <2>1. Changed(db, 14, text, t)
    BY <1>1, <1>2, MigratedIs
  <2> QED BY <1>3, <2>1 DEF Changed
<1>5. \A k \in DOMAIN db.prices : IsKey(k)
  BY DEF Priced
<1>6. /\ \A k \in DOMAIN r :
           /\ IsKey(k) /\ k.form = "canonical"
           /\ \E l \in DOMAIN db.prices : l.model = k.model /\ l.at = k.at /\ r[k] = db.prices[l]
      /\ \A l \in DOMAIN db.prices :
           /\ Boot!Readable(l)
           /\ \E k \in DOMAIN r : l.model = k.model /\ l.at = k.at /\ r[k] = db.prices[l]
  BY <1>1, <1>4, <1>5, CanonicalizedIs
<1>7. \A u : DOMAIN Boot!Shipped(14, u) = {}
  BY ShippedIs
<1>8. 11 \in DOMAIN applied /\ DOMAIN applied' = DOMAIN applied \cup {14}
  <2>1. 11 \in Boot!Listed
    BY DEF Boot!Listed
  <2>2. {n \in Boot!Listed : n < 14} \subseteq DOMAIN applied \cup {14}
    BY DEF Applies, Boot!Beginning
  <2>3. 11 \in DOMAIN applied
    BY <2>1, <2>2
  <2> QED BY <2>3 DEF Applies
<1>9. ASSUME NEW w \in asked PROVE Boot!Stands(w, r)
  <2>1. PICK l \in DOMAIN db.prices : Boot!Readable(l) /\ l.model = w.model /\ l.at = w.at /\ db.prices[l] = w.rate
    BY DEF Priced, Boot!Stands
  <2>2. PICK k \in DOMAIN r : l.model = k.model /\ l.at = k.at /\ r[k] = db.prices[l]
    BY <1>6
  <2>3. Boot!Readable(k)
    BY <1>6 DEF Boot!Readable
  <2> QED BY <2>1, <2>2, <2>3 DEF Boot!Stands
<1>10. ASSUME NEW k \in DOMAIN r, AtFloor(k)
       PROVE  \/ \E w \in asked : w.model = k.model /\ w.at = k.at /\ w.rate = r[k]
              \/ Boot!Pricing(k.model) # {} /\ r[k] = Boot!FloorRate(k.model)
  <2>1. PICK l \in DOMAIN db.prices : l.model = k.model /\ l.at = k.at /\ r[k] = db.prices[l]
    BY <1>6
  <2>2. AtFloor(l)
    BY <1>6, <1>10, <2>1 DEF AtFloor
  <2>3. AskedFor(l) \/ LastShipped(l)
    BY <2>2 DEF Priced
  <2>4. CASE AskedFor(l)
    BY <2>1, <2>4 DEF AskedFor
  <2>5. CASE LastShipped(l)
    BY <1>8, <2>1, <2>5 DEF LastShipped
  <2> QED BY <2>3, <2>4, <2>5
<1>11. ASSUME NEW n \in DOMAIN applied', NEW model \in DOMAIN Boot!Shipped(n, None)
       PROVE  \E k \in DOMAIN r : AtFloor(k) /\ k.model = model
  <2>1. n \in DOMAIN applied
    BY <1>7, <1>8
  <2>2. PICK l \in DOMAIN db.prices : AtFloor(l) /\ l.model = model
    BY <1>8, <2>1 DEF Priced
  <2>3. PICK k \in DOMAIN r : l.model = k.model /\ l.at = k.at
    BY <1>6
  <2> QED BY <1>6, <2>2, <2>3 DEF AtFloor, Boot!Readable
<1>12. r = db'.prices
  BY <1>2, <1>3
<1>13. ASSUME NEW k \in DOMAIN r, AtFloor(k)
       PROVE  \/ \E w \in asked : w.model = k.model /\ w.at = k.at /\ w.rate = r[k]
              \/ k.model \in DOMAIN Boot!Shipped(14, text) /\ r[k] = Boot!Shipped(14, text)[k.model]
              \/ /\ k.model \notin DOMAIN Boot!Shipped(14, text) /\ Boot!Pricing(k.model) # {}
                 /\ r[k] = Boot!FloorRate(k.model)
  BY <1>7, <1>10, <1>13
<1>14. 11 \in DOMAIN applied' /\ \A k \in DOMAIN r : IsKey(k) /\ k.form = "canonical"
  BY <1>6, <1>8
<1> QED BY <1>9, <1>11, <1>12, <1>13, <1>14, ShippedPriced

\* A migration that ships rates writes them over those of its models.
LEMMA ShippingPriced ==
  ASSUME Recorded, Priced, NEW m \in Shipping, NEW text, Applies(m, text)
  PROVE  Priced'
<1>1. IsTables(db) /\ m \in 1..24 /\ db' = Boot!Migrated(m, text, db)
  BY DEF Applies, Recorded
<1>2. PICK t : t = db'
  OBVIOUS
<1>3. PICK r : r = t.prices
  OBVIOUS
<1>4. PICK new : new = Boot!Row(Boot!Shipped(m, text), Boot!Floor, "canonical")
  OBVIOUS
<1>5. r = Boot!Upserted(db.prices, new)
  <2>1. Changed(db, m, text, t)
    BY <1>1, <1>2, MigratedIs
  <2> QED BY <1>3, <1>4, <2>1 DEF Changed
<1>6. /\ DOMAIN r = DOMAIN db.prices \cup DOMAIN new
      /\ \A k \in DOMAIN new : r[k] = new[k]
      /\ \A k \in DOMAIN db.prices : k \notin DOMAIN new => r[k] = db.prices[k]
  BY <1>5 DEF Boot!Upserted
<1>7. /\ \A k \in DOMAIN new : /\ IsKey(k) /\ k.at = Boot!Floor /\ k.form = "canonical"
                               /\ k.model \in DOMAIN Boot!Shipped(m, text) /\ new[k] = Boot!Shipped(m, text)[k.model]
      /\ \A k : IsKey(k) /\ k.at = Boot!Floor /\ k.form = "canonical"
                /\ k.model \in DOMAIN Boot!Shipped(m, text) => k \in DOMAIN new
      /\ \A model \in DOMAIN Boot!Shipped(m, text) : Boot!Key(model, Boot!Floor, "canonical") \in DOMAIN new
  BY <1>4, RowIs
<1>8. {11, 14} \subseteq DOMAIN applied /\ DOMAIN applied' = DOMAIN applied \cup {m} /\ m # 7
  <2>1. DOMAIN applied' = DOMAIN applied \cup {m} /\ m \in {18, 19, 20, 24}
    BY DEF Applies, Shipping
  <2>2. 11 \in DOMAIN applied \cup {m} /\ 14 \in DOMAIN applied \cup {m}
    <3>1. 11 \in Boot!Listed /\ 14 \in Boot!Listed
      BY DEF Boot!Listed
    <3>2. {n \in Boot!Listed : n < m} \subseteq DOMAIN applied \cup {m}
      BY DEF Applies, Boot!Beginning
    <3> QED BY <2>1, <3>1, <3>2
  <2> QED BY <2>1, <2>2
<1>9. \A k \in DOMAIN db.prices : IsKey(k) /\ k.form = "canonical"
  BY <1>8 DEF Priced
<1>10. \A k \in DOMAIN r : IsKey(k) /\ k.form = "canonical"
  BY <1>6, <1>7, <1>9
<1>11. ASSUME NEW w \in asked
       PROVE  Boot!Stands(w, r) \/ [model |-> w.model, at |-> w.at] \in Boot!TakenOver(m, text)
  <2>1. PICK k \in DOMAIN db.prices : Boot!Readable(k) /\ k.model = w.model /\ k.at = w.at /\ db.prices[k] = w.rate
    BY DEF Priced, Boot!Stands
  <2>2. CASE k \notin DOMAIN new
    BY <1>6, <2>1, <2>2 DEF Boot!Stands
  <2>3. CASE k \in DOMAIN new
    <3>1. w.at = Boot!Floor /\ w.model \in DOMAIN Boot!Shipped(m, text)
      BY <1>7, <2>1, <2>3
    <3> QED BY <1>1, <3>1, TakenOverIs
  <2> QED BY <2>2, <2>3
<1>12. ASSUME NEW k \in DOMAIN r, AtFloor(k)
       PROVE  \/ \E w \in asked : w.model = k.model /\ w.at = k.at /\ w.rate = r[k]
              \/ k.model \in DOMAIN Boot!Shipped(m, text) /\ r[k] = Boot!Shipped(m, text)[k.model]
              \/ /\ k.model \notin DOMAIN Boot!Shipped(m, text) /\ Boot!Pricing(k.model) # {}
                 /\ r[k] = Boot!FloorRate(k.model)
  <2>1. CASE k \in DOMAIN new
    BY <1>6, <1>7, <2>1
  <2>2. CASE k \notin DOMAIN new
    <3>1. k \in DOMAIN db.prices /\ r[k] = db.prices[k]
      BY <1>6, <2>2
    <3>2. k.model \notin DOMAIN Boot!Shipped(m, text)
      BY <1>7, <1>10, <1>12, <2>2 DEF AtFloor
    <3>3. AskedFor(k) \/ LastShipped(k)
      BY <1>12, <3>1 DEF Priced
    <3> QED BY <1>8, <3>1, <3>2, <3>3 DEF AskedFor, LastShipped
  <2> QED BY <2>1, <2>2
<1>13. ASSUME NEW n \in DOMAIN applied', NEW model \in DOMAIN Boot!Shipped(n, None)
       PROVE  \E k \in DOMAIN r : AtFloor(k) /\ k.model = model
  <2>1. CASE n \in DOMAIN applied
    <3>1. PICK k \in DOMAIN db.prices : AtFloor(k) /\ k.model = model
      BY <1>8, <2>1 DEF Priced
    <3> QED BY <1>6, <3>1
  <2>2. CASE n = m
    <3>1. model \in DOMAIN Boot!Shipped(m, text)
      BY <1>1, <2>2, ShippedIs
    <3>2. PICK k : k = Boot!Key(model, Boot!Floor, "canonical")
      OBVIOUS
    <3>3. k \in DOMAIN r /\ k.model = model /\ k.at = Boot!Floor /\ k.form = "canonical"
      BY <1>6, <1>7, <3>1, <3>2, KeyIs
    <3> QED BY <3>3 DEF AtFloor, Boot!Readable
  <2> QED BY <1>8, <2>1, <2>2
<1>14. r = db'.prices
  BY <1>2, <1>3
<1> QED BY <1>8, <1>10, <1>11, <1>12, <1>13, <1>14, ShippedPriced

LEMMA AppliesPriced ==
  ASSUME Recorded, Priced, NEW m, NEW text, Applies(m, text)
  PROVE  Priced'
<1>1. CASE m \notin {7, 11, 14} \cup Shipping
  BY <1>1, PlainPriced
<1>2. CASE m = 7
  BY <1>2, SeededPriced
<1>3. CASE m = 11
  BY <1>3, ConvergedPriced
<1>4. CASE m = 14
  BY <1>4, CanonicalPriced
<1>5. CASE m \in Shipping
  BY <1>5, ShippingPriced
<1> QED BY <1>1, <1>2, <1>3, <1>4, <1>5

-----------------------------------------------------------------------------
(* Usage and stamps *)

LEMMA UsedIs ==
  ASSUME NEW u, u = [agent |-> u.agent, main |-> u.main, form |-> u.form], NEW v
  PROVE  /\ v = [u EXCEPT !.agent = "main"] =>
              /\ v = [agent |-> v.agent, main |-> v.main, form |-> v.form]
              /\ v.agent = "main" /\ v.form = u.form
         /\ v = [u EXCEPT !.form = "canonical"] =>
              /\ v = [agent |-> v.agent, main |-> v.main, form |-> v.form]
              /\ v.agent = u.agent /\ v.main = u.main /\ v.form = "canonical"
<1>1. ASSUME v = [u EXCEPT !.agent = "main"]
      PROVE  /\ v = [agent |-> v.agent, main |-> v.main, form |-> v.form]
             /\ v.agent = "main" /\ v.form = u.form
  <2>1. v = [agent |-> "main", main |-> u.main, form |-> u.form]
    BY <1>1
  <2> QED BY <2>1
<1>2. ASSUME v = [u EXCEPT !.form = "canonical"]
      PROVE  /\ v = [agent |-> v.agent, main |-> v.main, form |-> v.form]
             /\ v.agent = u.agent /\ v.main = u.main /\ v.form = "canonical"
  <2>1. v = [agent |-> u.agent, main |-> u.main, form |-> "canonical"]
    BY <1>2
  <2> QED BY <2>1
<1> QED BY <1>1, <1>2

LEMMA AppliesUsages ==
  ASSUME Recorded, Usages, NEW m, NEW text, Applies(m, text)
  PROVE  Usages'
<1>1. IsTables(db) /\ m \in 1..24 /\ db' = Boot!Migrated(m, text, db)
  BY DEF Applies, Recorded
<1>2. PICK t : t = db'
  OBVIOUS
<1>3. Changed(db, m, text, t)
  BY <1>1, <1>2, MigratedIs
<1>4. PICK usage : usage = t.usage
  OBVIOUS
<1>5. DOMAIN applied' = DOMAIN applied \cup {m}
  BY DEF Applies
<1>6. /\ \A u \in db.usage : u = [agent |-> u.agent, main |-> u.main, form |-> u.form]
      /\ 8 \in DOMAIN applied => \A u \in db.usage : u.main => u.agent # None
      /\ 15 \in DOMAIN applied => \A u \in db.usage : u.form \in {"none", "canonical"}
  BY DEF Usages, Boot!UsageMended
<1>7. /\ \A u \in usage : u = [agent |-> u.agent, main |-> u.main, form |-> u.form]
      /\ 8 \in DOMAIN applied' => \A u \in usage : u.main => u.agent # None
      /\ 15 \in DOMAIN applied' => \A u \in usage : u.form \in {"none", "canonical"}
  <2>1. CASE m = 8
    <3>1. usage = {IF u.agent = None /\ u.main THEN [u EXCEPT !.agent = "main"] ELSE u : u \in db.usage}
      BY <1>1, <1>3, <1>4, <2>1 DEF Changed, Boot!Attributed, IsTables
    <3> SUFFICES ASSUME NEW v \in usage
                 PROVE  /\ v = [agent |-> v.agent, main |-> v.main, form |-> v.form]
                        /\ v.main => v.agent # None
                        /\ 15 \in DOMAIN applied' => v.form \in {"none", "canonical"}
      OBVIOUS
    <3>2. PICK u \in db.usage : v = IF u.agent = None /\ u.main THEN [u EXCEPT !.agent = "main"] ELSE u
      BY <3>1
    <3>3. 15 \in DOMAIN applied' => 15 \in DOMAIN applied
      BY <1>5, <2>1
    <3>4. CASE u.agent = None /\ u.main
      <4>1. /\ v = [agent |-> v.agent, main |-> v.main, form |-> v.form]
            /\ v.agent = "main" /\ v.form = u.form
        BY <1>6, <3>2, <3>4, UsedIs
      <4> QED BY <1>6, <3>3, <4>1, BuildsAre
    <3>5. CASE ~ (u.agent = None /\ u.main)
      BY <1>6, <3>2, <3>3, <3>5
    <3> QED BY <3>4, <3>5
  <2>2. CASE m = 15
    <3>1. usage = {IF u.form = "none" THEN u ELSE [u EXCEPT !.form = "canonical"] : u \in db.usage}
      BY <1>1, <1>3, <1>4, <2>2 DEF Changed, Boot!UsageCanonical, IsTables
    <3> SUFFICES ASSUME NEW v \in usage
                 PROVE  /\ v = [agent |-> v.agent, main |-> v.main, form |-> v.form]
                        /\ 8 \in DOMAIN applied' => (v.main => v.agent # None)
                        /\ v.form \in {"none", "canonical"}
      OBVIOUS
    <3>2. PICK u \in db.usage : v = IF u.form = "none" THEN u ELSE [u EXCEPT !.form = "canonical"]
      BY <3>1
    <3>3. 8 \in DOMAIN applied' => 8 \in DOMAIN applied
      BY <1>5, <2>2
    <3>4. CASE u.form = "none"
      BY <1>6, <3>2, <3>3, <3>4
    <3>5. CASE u.form # "none"
      <4>1. /\ v = [agent |-> v.agent, main |-> v.main, form |-> v.form]
            /\ v.agent = u.agent /\ v.main = u.main /\ v.form = "canonical"
        BY <1>6, <3>2, <3>5, UsedIs
      <4> QED BY <1>6, <3>3, <4>1
    <3> QED BY <3>4, <3>5
  <2>3. CASE m \notin {8, 15}
    <3>1. usage = db.usage
      BY <1>3, <1>4, <2>3 DEF Changed
    <3> QED BY <1>5, <1>6, <2>3, <3>1
  <2> QED BY <2>1, <2>2, <2>3
<1>8. usage = db'.usage
  BY <1>2, <1>4
<1> QED BY <1>7, <1>8 DEF Usages, Boot!UsageMended

LEMMA AppliesStamps ==
  ASSUME Recorded, Stamps, NEW m, NEW text, Applies(m, text)
  PROVE  Stamps'
<1>1. IsTables(db) /\ m \in 1..24 /\ db' = Boot!Migrated(m, text, db)
  BY DEF Applies, Recorded
<1>2. PICK t : t = db'
  OBVIOUS
<1>3. Changed(db, m, text, t)
  BY <1>1, <1>2, MigratedIs
<1>4. DOMAIN applied' = DOMAIN applied \cup {m}
  BY DEF Applies
<1>5. CASE m = 22
  <2>1. PICK n \in Nat : n = Len(db.stamp)
    BY DEF Stamps
  <2>2. DOMAIN db.stamp = 1..n
    BY <2>1 DEF Stamps
  <2>3. Boot!Max({0} \cup DOMAIN db.stamp) = n
    <3>1. {0} \cup DOMAIN db.stamp \in SUBSET Int /\ n \in {0} \cup DOMAIN db.stamp
          /\ \A s \in {0} \cup DOMAIN db.stamp : s <= n
      BY <2>2
    <3> QED BY <3>1, MaxIs
  <2>4. t.stamp = [s \in 1..n |-> s] /\ t.clock = n
    BY <1>3, <1>5, <2>2, <2>3 DEF Changed
  <2>5. t.stamp \in Seq(Nat)
    BY <2>4
  <2>6. \A s \in DOMAIN t.stamp : t.stamp[s] \in 1..t.clock /\ t.stamp[s] = s
    BY <2>4
  <2> QED BY <1>2, <2>4, <2>5, <2>6 DEF Stamps, Boot!NewestLast, Boot!IsInjective
<1>6. CASE m # 22
  <2>1. t.stamp = db.stamp /\ t.clock = db.clock
    BY <1>3, <1>6 DEF Changed
  <2> QED BY <1>2, <1>4, <1>6, <2>1 DEF Stamps, Boot!NewestLast, Boot!IsInjective
<1> QED BY <1>5, <1>6

-----------------------------------------------------------------------------
(* The operator, the sessions, and the world *)

LEMMA AdoptedPriced ==
  ASSUME Recorded, Priced, DOMAIN applied' = DOMAIN applied, UNCHANGED <<db, asked>>,
         \A n \in DOMAIN applied : applied'[n] = applied[n] \/ (n <= 10 /\ applied'[n] # None)
  PROVE  Priced'
<1>1. ASSUME NEW k \in DOMAIN db.prices, LastShipped(k) PROVE LastShipped(k)'
  <2>1. CASE 11 \in DOMAIN applied
    <3>1. Boot!Pricing(k.model) # {} /\ db.prices[k] = Boot!FloorRate(k.model)
      BY <1>1, <2>1 DEF LastShipped
    <3>2. PICK model : model = k.model
      OBVIOUS
    <3>3. Boot!Pricing(model)' # {} /\ Boot!FloorRate(model)' = Boot!FloorRate(model)
      BY <3>1, <3>2, RateAdopted
    <3> QED BY <2>1, <3>1, <3>2, <3>3 DEF LastShipped
  <2>2. CASE 11 \notin DOMAIN applied
    BY <1>1, <2>2 DEF LastShipped
  <2> QED BY <2>1, <2>2
<1>2. \A k \in DOMAIN db.prices : AskedFor(k) => AskedFor(k)'
  BY DEF AskedFor
<1> QED BY <1>1, <1>2 DEF Priced

LEMMA SamePriced ==
  ASSUME Priced, applied' = applied, asked' = asked, db'.prices = db.prices
  PROVE  Priced'
<1>1. \A k \in DOMAIN db.prices : (AskedFor(k) => AskedFor(k)') /\ (LastShipped(k) => LastShipped(k)')
  BY DEF AskedFor, LastShipped, Boot!Pricing, Boot!FloorRate
<1> QED BY <1>1 DEF Priced

\* The operator wrote the rate w into row c, or took a row away that another
\* row of its instant, or no instant, makes superfluous.
LEMMA EditedPriced ==
  ASSUME Recorded, Priced, applied' = applied,
         NEW r, r = db'.prices, \A k \in DOMAIN r : IsKey(k),
         7 \in DOMAIN applied,
         NEW added, asked' = {w \in asked \cup added : Boot!Stands(w, r)},
         \A k \in DOMAIN r : AtFloor(k) =>
           \/ \E w \in added : w.model = k.model /\ w.at = k.at /\ w.rate = r[k]
           \/ k \in DOMAIN db.prices /\ r[k] = db.prices[k],
         \A k \in DOMAIN db.prices : AtFloor(k) => \E l \in DOMAIN r : AtFloor(l) /\ l.model = k.model,
         14 \in DOMAIN applied => \A k \in DOMAIN r : k.form = "canonical"
  PROVE  Priced'
<1>1. ASSUME NEW k \in DOMAIN r, AtFloor(k) PROVE AskedFor(k)' \/ LastShipped(k)'
  <2>1. ASSUME NEW w \in asked \cup added, w.model = k.model, w.at = k.at, w.rate = r[k] PROVE AskedFor(k)'
    <3>1. Boot!Stands(w, r)
      BY <1>1, <2>1 DEF Boot!Stands, AtFloor
    <3>2. w \in asked'
      BY <3>1
    <3> QED BY <2>1, <3>2 DEF AskedFor
  <2>2. CASE k \in DOMAIN db.prices /\ r[k] = db.prices[k]
    <3>1. AskedFor(k) \/ LastShipped(k)
      BY <1>1, <2>2 DEF Priced
    <3>2. CASE AskedFor(k)
      BY <2>1, <2>2, <3>2 DEF AskedFor
    <3>3. CASE LastShipped(k)
      BY <2>2, <3>3 DEF LastShipped, Boot!Pricing, Boot!FloorRate
    <3> QED BY <3>1, <3>2, <3>3
  <2> QED BY <1>1, <2>1, <2>2
<1>2. 11 \in DOMAIN applied' =>
        \A n \in DOMAIN applied' : \A model \in DOMAIN Boot!Shipped(n, None) :
          \E k \in DOMAIN r : AtFloor(k) /\ k.model = model
  <2> SUFFICES ASSUME 11 \in DOMAIN applied, NEW n \in DOMAIN applied, NEW model \in DOMAIN Boot!Shipped(n, None)
               PROVE  \E k \in DOMAIN r : AtFloor(k) /\ k.model = model
    OBVIOUS
  <2>1. PICK l \in DOMAIN db.prices : AtFloor(l) /\ l.model = model
    BY DEF Priced
  <2> QED BY <2>1
<1> QED BY <1>1, <1>2 DEF Priced

\* The tables after an edit of one of them.
LEMMA TablesAre ==
  ASSUME NEW t, IsTables(t), NEW new, NEW r
  PROVE  /\ r = [t EXCEPT !.prices = new] =>
              /\ IsTables(r) /\ r.prices = new /\ r.usage = t.usage /\ r.stamp = t.stamp
              /\ r.clock = t.clock /\ r.objects = t.objects
         /\ r = [t EXCEPT !.usage = new] =>
              /\ IsTables(r) /\ r.usage = new /\ r.prices = t.prices /\ r.stamp = t.stamp
              /\ r.clock = t.clock /\ r.objects = t.objects
<1>1. ASSUME r = [t EXCEPT !.prices = new]
      PROVE  /\ IsTables(r) /\ r.prices = new /\ r.usage = t.usage /\ r.stamp = t.stamp
             /\ r.clock = t.clock /\ r.objects = t.objects
  BY <1>1 DEF IsTables
<1>2. ASSUME r = [t EXCEPT !.usage = new]
      PROVE  /\ IsTables(r) /\ r.usage = new /\ r.prices = t.prices /\ r.stamp = t.stamp
             /\ r.clock = t.clock /\ r.objects = t.objects
  BY <1>2 DEF IsTables
<1> QED BY <1>1, <1>2

LEMMA SameBoots ==
  ASSUME Boots, UNCHANGED <<applied, installed, proc>>
  PROVE  Boots'
  BY DEF Boots, IsBoot, Booting, Serving, Says

\* What an edit leaves, once its tables are told.
LEMMA RestKept ==
  ASSUME MigrationInv, NEW r, r = db', UNCHANGED <<applied, installed, proc>>,
         IsTables(r), r.objects = db.objects
  PROVE  Recorded' /\ Boots'
<1>1. Boots'
  BY SameBoots DEF MigrationInv
<1>2. IsTables(db)'
  BY DEF IsTables
<1> QED BY <1>1, <1>2 DEF MigrationInv, Recorded

LEMMA WriteKeeps ==
  ASSUME MigrationInv, NEW a \in Asks, Boot!Write(a)
  PROVE  MigrationInv'
<1>1. PICK k : k = Boot!Key(a.model, a.at, a.form)
  OBVIOUS
<1>2. PICK row : row = IF k \in DOMAIN db.prices THEN k ELSE Boot!Stored(k)
  OBVIOUS
<1>3. PICK new : new = Boot!Upserted(db.prices, [l \in {row} |-> a.rate])
  OBVIOUS
<1>4. PICK r : r = [db EXCEPT !.prices = new]
  OBVIOUS
<1>5. /\ 7 \in db.objects
      /\ k \in DOMAIN db.prices \/ ((14 \in db.objects => Boot!Readable(k)) /\ Boot!Stored(k) \notin DOMAIN db.prices)
      /\ db' = r /\ UNCHANGED <<applied, installed, proc>>
      /\ asked' = {w \in asked \cup {[model |-> a.model, at |-> a.at, rate |-> a.rate]} :
                     Boot!Stands(w, db'.prices)}
  BY <1>1, <1>2, <1>3, <1>4 DEF Boot!Write
<1>6. /\ IsTables(r) /\ r.prices = new /\ r.usage = db.usage /\ r.stamp = db.stamp
      /\ r.clock = db.clock /\ r.objects = db.objects
  <2>1. IsTables(db)
    BY DEF MigrationInv, Recorded
  <2> QED BY <1>4, <2>1, TablesAre
<1>7. Recorded' /\ Boots'
  BY <1>5, <1>6, RestKept
<1>8. Usages' /\ Stamps'
  BY <1>5, <1>6 DEF MigrationInv, Usages, Stamps, Boot!UsageMended, Boot!NewestLast, Boot!IsInjective
<1>9. /\ DOMAIN new = DOMAIN db.prices \cup {row} /\ new[row] = a.rate
      /\ \A l \in DOMAIN db.prices : l # row => new[l] = db.prices[l]
  BY <1>3 DEF Boot!Upserted
<1>10. IsKey(k) /\ k.model = a.model /\ k.at = a.at /\ k.form = a.form
  BY <1>1, KeyIs
<1>11. /\ IsKey(row) /\ row.model = a.model /\ row.at = a.at
       /\ 14 \in DOMAIN applied => row.form = "canonical"
  <2>1. 14 \in db.objects <=> 14 \in DOMAIN applied
    BY DEF MigrationInv, Recorded, Boot!Structural, Boot!PriceTriggers
  <2>2. CASE k \in DOMAIN db.prices
    BY <1>2, <1>10, <2>2 DEF MigrationInv, Priced
  <2>3. CASE k \notin DOMAIN db.prices
    <3>1. row = IF 14 \in DOMAIN applied THEN Boot!Canonical(k) ELSE k
      BY <1>2, <2>1, <2>3 DEF Boot!Stored
    <3>2. PICK c : c = Boot!Canonical(k)
      OBVIOUS
    <3>3. c = Boot!Key(a.model, a.at, "canonical")
      BY <1>10, <3>2, CanonicalIs
    <3>4. IsKey(c) /\ c.model = a.model /\ c.at = a.at /\ c.form = "canonical"
      BY <3>3, KeyIs
    <3> QED BY <1>10, <3>1, <3>2, <3>4
  <2> QED BY <2>2, <2>3
<1>12. Priced'
  <2>1. Recorded /\ Priced
    BY DEF MigrationInv
  <2>2. 7 \in DOMAIN applied
    BY <1>5, <2>1 DEF Recorded
  <2>3. PICK added : added = {[model |-> a.model, at |-> a.at, rate |-> a.rate]}
    OBVIOUS
  <2>4. new = db'.prices /\ asked' = {w \in asked \cup added : Boot!Stands(w, new)}
    BY <1>5, <1>6, <2>3
  <2>5. \A l \in DOMAIN new : IsKey(l)
    BY <1>9, <1>11, <2>1 DEF Priced
  <2>6. \A l \in DOMAIN new : AtFloor(l) =>
          \/ \E w \in added : w.model = l.model /\ w.at = l.at /\ w.rate = new[l]
          \/ l \in DOMAIN db.prices /\ new[l] = db.prices[l]
    <3> SUFFICES ASSUME NEW l \in DOMAIN new
                 PROVE  \/ \E w \in added : w.model = l.model /\ w.at = l.at /\ w.rate = new[l]
                        \/ l \in DOMAIN db.prices /\ new[l] = db.prices[l]
      OBVIOUS
    <3>1. CASE l = row
      <4>1. PICK w : w = [model |-> a.model, at |-> a.at, rate |-> a.rate]
        OBVIOUS
      <4>2. w \in added /\ w.model = a.model /\ w.at = a.at /\ w.rate = a.rate
        BY <2>3, <4>1
      <4> QED BY <1>9, <1>11, <3>1, <4>2
    <3>2. CASE l # row
      BY <1>9, <3>2
    <3> QED BY <3>1, <3>2
  <2>7. \A l \in DOMAIN db.prices : AtFloor(l) => \E o \in DOMAIN new : AtFloor(o) /\ o.model = l.model
    BY <1>9
  <2>8. 14 \in DOMAIN applied => \A l \in DOMAIN new : l.form = "canonical"
    BY <1>9, <1>11, <2>1 DEF Priced
  <2>9. applied' = applied
    BY <1>5
  <2> QED BY <2>1, <2>2, <2>4, <2>5, <2>6, <2>7, <2>8, <2>9, EditedPriced
<1> QED BY <1>7, <1>8, <1>12 DEF MigrationInv

LEMMA MendKeeps ==
  ASSUME MigrationInv, NEW k \in DOMAIN db.prices, Boot!Mend(k)
  PROVE  MigrationInv'
<1>1. PICK new : new = Boot!Restrict(db.prices, DOMAIN db.prices \ {k})
  OBVIOUS
<1>2. PICK r : r = [db EXCEPT !.prices = new]
  OBVIOUS
<1>3. /\ ~Boot!Readable(k) \/ \E l \in DOMAIN db.prices : Boot!SameInstant(k, l) /\ db.prices[k] # db.prices[l]
      /\ db' = r /\ UNCHANGED <<applied, installed, proc>>
      /\ asked' = {w \in asked : Boot!Stands(w, db'.prices)}
  BY <1>1, <1>2 DEF Boot!Mend
<1>4. /\ IsTables(r) /\ r.prices = new /\ r.usage = db.usage /\ r.stamp = db.stamp
      /\ r.clock = db.clock /\ r.objects = db.objects
  <2>1. IsTables(db)
    BY DEF MigrationInv, Recorded
  <2> QED BY <1>2, <2>1, TablesAre
<1>5. Recorded' /\ Boots'
  BY <1>3, <1>4, RestKept
<1>6. Usages' /\ Stamps'
  BY <1>3, <1>4 DEF MigrationInv, Usages, Stamps, Boot!UsageMended, Boot!NewestLast, Boot!IsInjective
<1>7. DOMAIN new = DOMAIN db.prices \ {k} /\ \A l \in DOMAIN new : new[l] = db.prices[l]
  BY <1>1 DEF Boot!Restrict
<1>8. Priced'
  <2>1. Recorded /\ Priced
    BY DEF MigrationInv
  <2>2. CASE 7 \in DOMAIN applied
    <3>1. new = db'.prices /\ asked' = {w \in asked \cup {} : Boot!Stands(w, new)}
      BY <1>3, <1>4
    <3>2. \A l \in DOMAIN db.prices : AtFloor(l) => \E o \in DOMAIN new : AtFloor(o) /\ o.model = l.model
      <4> SUFFICES ASSUME NEW l \in DOMAIN db.prices, AtFloor(l)
                   PROVE  \E o \in DOMAIN new : AtFloor(o) /\ o.model = l.model
        OBVIOUS
      <4>1. CASE l # k
        BY <1>7, <4>1
      <4>2. CASE l = k
        <5>1. PICK o \in DOMAIN db.prices : Boot!SameInstant(k, o) /\ db.prices[k] # db.prices[o]
          BY <1>3, <4>2 DEF AtFloor
        <5>2. o # k /\ AtFloor(o) /\ o.model = l.model
          BY <4>2, <5>1 DEF Boot!SameInstant, AtFloor
        <5> QED BY <1>7, <5>1, <5>2
      <4> QED BY <4>1, <4>2
    <3>3. \A l \in DOMAIN new : IsKey(l) /\ l \in DOMAIN db.prices /\ new[l] = db.prices[l]
      BY <1>7, <2>1 DEF Priced
    <3>4. 14 \in DOMAIN applied => \A l \in DOMAIN new : l.form = "canonical"
      BY <3>3, <2>1 DEF Priced
    <3>5. applied' = applied
      BY <1>3
    <3> QED BY <2>1, <2>2, <3>1, <3>2, <3>3, <3>4, <3>5, EditedPriced
  <2>3. CASE 7 \notin DOMAIN applied
    <3>1. 11 \notin DOMAIN applied /\ 14 \notin DOMAIN applied
      <4>1. 7 \in Boot!Listed
        BY DEF Boot!Listed
      <4>2. \A m \in DOMAIN applied : {n \in Boot!Listed : n < m} \subseteq DOMAIN applied
        BY <2>1 DEF Recorded, Boot!Beginning
      <4> QED BY <2>3, <4>1, <4>2
    <3>2. asked' = {} /\ asked = {}
      BY <1>3, <2>1, <2>3 DEF Priced
    <3>3. \A l \in DOMAIN new : IsKey(l) /\ (AtFloor(l) => LastShipped(l)')
      BY <1>3, <1>4, <1>7, <2>1, <3>1, <3>2 DEF Priced, AskedFor, LastShipped
    <3> QED BY <1>3, <1>4, <3>1, <3>2, <3>3 DEF Priced
  <2> QED BY <2>2, <2>3
<1> QED BY <1>5, <1>6, <1>8 DEF MigrationInv

LEMMA MendUsageKeeps ==
  ASSUME MigrationInv, NEW u \in db.usage, Boot!MendUsage(u)
  PROVE  MigrationInv'
<1>1. PICK v : v = [u EXCEPT !.form = "canonical"]
  OBVIOUS
<1>2. PICK new : new = (db.usage \ {u}) \cup {v}
  OBVIOUS
<1>3. PICK r : r = [db EXCEPT !.usage = new]
  OBVIOUS
<1>4. db' = r /\ UNCHANGED <<applied, installed, proc, asked>>
  BY <1>1, <1>2, <1>3 DEF Boot!MendUsage
<1>5. /\ IsTables(r) /\ r.usage = new /\ r.prices = db.prices /\ r.stamp = db.stamp
      /\ r.clock = db.clock /\ r.objects = db.objects
  <2>1. IsTables(db)
    BY DEF MigrationInv, Recorded
  <2> QED BY <1>3, <2>1, TablesAre
<1>6. Recorded' /\ Boots'
  BY <1>4, <1>5, RestKept
<1>7. Priced'
  BY <1>4, <1>5, SamePriced DEF MigrationInv
<1>8. Stamps'
  BY <1>4, <1>5 DEF MigrationInv, Stamps, Boot!NewestLast, Boot!IsInjective
<1>9. /\ v = [agent |-> v.agent, main |-> v.main, form |-> v.form]
      /\ v.agent = u.agent /\ v.main = u.main /\ v.form = "canonical"
  <2>1. u = [agent |-> u.agent, main |-> u.main, form |-> u.form]
    BY DEF MigrationInv, Usages
  <2> QED BY <1>1, <2>1, UsedIs
<1>10. Usages'
  BY <1>2, <1>4, <1>5, <1>9 DEF MigrationInv, Usages, Boot!UsageMended
<1> QED BY <1>6, <1>7, <1>8, <1>10 DEF MigrationInv

\* A session's new stamp is past the clock, so it is past every other.
LEMMA IngestKeeps ==
  ASSUME MigrationInv, NEW q \in Processes, NEW s \in 1..(Len(db.stamp) + 1), Boot!Ingest(q, s)
  PROVE  MigrationInv'
<1>0. PICK tick : tick = IF 22 \in db.objects THEN db.clock + 1 ELSE db.clock
  OBVIOUS
<1>1. PICK stamp : stamp = IF 22 \in db.objects THEN tick ELSE 0
  OBVIOUS
<1>2. PICK new : new = IF s \in DOMAIN db.stamp THEN [db.stamp EXCEPT ![s] = stamp] ELSE Append(db.stamp, stamp)
  OBVIOUS
<1>3. PICK r : r = [db EXCEPT !.clock = tick, !.stamp = new]
  OBVIOUS
<1>4. db' = r /\ UNCHANGED <<applied, installed, proc, asked>>
  BY <1>0, <1>1, <1>2, <1>3 DEF Boot!Ingest
<1>5. /\ IsTables(r) /\ r.usage = db.usage /\ r.prices = db.prices /\ r.stamp = new
      /\ r.clock = tick /\ r.objects = db.objects
  <2>1. IsTables(db)
    BY DEF MigrationInv, Recorded
  <2>2. r = [prices |-> db.prices, usage |-> db.usage, stamp |-> new, clock |-> tick, objects |-> db.objects]
    BY <1>3, <2>1 DEF IsTables
  <2> QED BY <2>2 DEF IsTables
<1>6. Recorded' /\ Boots'
  BY <1>4, <1>5, RestKept
<1>7. Priced'
  BY <1>4, <1>5, SamePriced DEF MigrationInv
<1>8. Usages'
  BY <1>4, <1>5 DEF MigrationInv, Usages, Boot!UsageMended
<1>9. 22 \in db.objects <=> 22 \in DOMAIN applied
  BY DEF MigrationInv, Recorded, Boot!Structural, Boot!SessionColumns
<1>10. db.stamp \in Seq(Nat) /\ db.clock \in Nat
       /\ (22 \in DOMAIN applied => /\ \A n \in DOMAIN db.stamp : db.stamp[n] \in 1..db.clock
                                    /\ \A n, o \in DOMAIN db.stamp : db.stamp[n] = db.stamp[o] => n = o)
  BY DEF MigrationInv, Stamps, Boot!NewestLast, Boot!IsInjective
<1>11. tick \in Nat /\ stamp \in Nat /\ new \in Seq(Nat)
  <2>1. tick \in Nat /\ stamp \in Nat
    BY <1>0, <1>1, <1>10
  <2> QED BY <1>2, <1>10, <2>1
<1>12. /\ new[s] = stamp /\ s \in DOMAIN new /\ DOMAIN new = DOMAIN db.stamp \cup {s}
       /\ \A n \in DOMAIN db.stamp : n # s => new[n] = db.stamp[n]
  <2>1. DOMAIN db.stamp = 1..Len(db.stamp) /\ Len(db.stamp) \in Nat
    BY <1>10
  <2>2. CASE s \in DOMAIN db.stamp
    BY <1>2, <1>10, <2>2
  <2>3. CASE s \notin DOMAIN db.stamp
    <3>1. s = Len(db.stamp) + 1
      BY <2>1, <2>3
    <3> QED BY <1>2, <1>10, <1>11, <2>1, <2>3, <3>1
  <2> QED BY <2>2, <2>3
<1>13. 22 \in DOMAIN applied => /\ \A n \in DOMAIN new : new[n] \in 1..tick
                                /\ \A n, o \in DOMAIN new : new[n] = new[o] => n = o
  <2> SUFFICES ASSUME 22 \in DOMAIN applied
               PROVE  /\ \A n \in DOMAIN new : new[n] \in 1..tick
                      /\ \A n, o \in DOMAIN new : new[n] = new[o] => n = o
    OBVIOUS
  <2>1. tick = db.clock + 1 /\ stamp = tick
    BY <1>0, <1>1, <1>9
  <2>2. \A n \in DOMAIN new : n # s => n \in DOMAIN db.stamp /\ new[n] \in 1..db.clock
    BY <1>10, <1>12
  <2>3. \A n \in DOMAIN new : n # s => new[n] # tick /\ new[n] \in 1..tick
    BY <1>10, <2>1, <2>2
  <2>4. tick \in 1..tick
    BY <1>10, <2>1
  <2> QED BY <1>10, <1>12, <2>1, <2>2, <2>3, <2>4
<1>14. Stamps'
  BY <1>4, <1>5, <1>11, <1>13 DEF Stamps, Boot!NewestLast, Boot!IsInjective
<1> QED BY <1>6, <1>7, <1>8, <1>14 DEF MigrationInv

-----------------------------------------------------------------------------
(* Every step, and what the invariant comes to *)

LEMMA MigrationInit == Boot!Init => MigrationInv
<1> SUFFICES ASSUME Boot!Init PROVE MigrationInv
  OBVIOUS
<1>1. PICK l \in Legacies :
        /\ applied = [m \in l.ids |-> None]
        /\ db = [prices |-> l.prices, usage |-> l.usage, stamp |-> l.stamp, clock |-> 0,
                 objects |-> l.ids \cap Boot!Structural]
  BY DEF Boot!Init
<1>2. /\ Boot!Beginning(l.ids) /\ l.ids \subseteq 1..10
      /\ l.prices \in IF 7 \in l.ids
                      THEN {Boot!Row(Boot!Seed, Boot!Floor, "bare"), Boot!Row(Boot!OriginalSeed, Boot!Authored, "bare")}
                      ELSE {<< >>}
      /\ \A u \in l.usage : /\ u = [agent |-> u.agent, main |-> u.main, form |-> u.form]
                            /\ 8 \in l.ids /\ u.main => u.agent # None
      /\ l.stamp \in Seq({0})
  BY BootAssumption DEF Boot!Configured
<1>3. /\ DOMAIN applied = l.ids /\ \A m \in l.ids : applied[m] = None
      /\ db.prices = l.prices /\ db.usage = l.usage /\ db.stamp = l.stamp /\ db.clock = 0
      /\ db.objects = l.ids \cap Boot!Structural
  BY <1>1
<1>4. Recorded
  <2>1. IsTables(db)
    BY <1>1 DEF IsTables
  <2> QED BY <1>2, <1>3, <2>1 DEF Recorded
<1>5. Boots
  <2>1. installed \in Builds /\ proc = [q \in Processes |-> Boot!Off]
    BY DEF Boot!Init
  <2>2. \A q \in Processes : proc[q] = Boot!Off
    BY <2>1
  <2>3. IsBoot(Boot!Off) /\ Booting(Boot!Off) /\ Serving(Boot!Off)
    BY DEF Boot!Off, IsBoot, Booting, Serving
  <2> QED BY <2>1, <2>2, <2>3 DEF Boots
<1>6. 11 \notin DOMAIN applied /\ 14 \notin DOMAIN applied /\ 15 \notin DOMAIN applied /\ 22 \notin DOMAIN applied
  <2>1. DOMAIN applied \subseteq 1..10
    BY <1>2, <1>3
  <2>2. 11 \notin 1..10 /\ 14 \notin 1..10 /\ 15 \notin 1..10 /\ 22 \notin 1..10
    OBVIOUS
  <2> QED BY <2>1, <2>2
<1>7. Priced
  <2>1. asked = {}
    BY DEF Boot!Init
  <2>2. \A k \in DOMAIN l.prices : IsKey(k) /\ (AtFloor(k) => LastShipped(k))
    <3>1. CASE l.prices = Boot!Row(Boot!Seed, Boot!Floor, "bare")
      BY <1>3, <1>6, <3>1, RowIs DEF LastShipped
    <3>2. CASE l.prices = Boot!Row(Boot!OriginalSeed, Boot!Authored, "bare")
      <4>1. \A k \in DOMAIN l.prices : IsKey(k) /\ k.at = Boot!Authored
        BY <3>2, RowIs
      <4> QED BY <4>1 DEF AtFloor, Boot!Authored, Boot!Floor
    <3>3. CASE l.prices = << >>
      BY <3>3
    <3> QED BY <1>2, <3>1, <3>2, <3>3
  <2> QED BY <1>3, <1>6, <2>1, <2>2 DEF Priced
<1>8. Usages
  BY <1>2, <1>3, <1>6 DEF Usages, Boot!UsageMended
<1>9. Stamps
  <2>1. l.stamp \in Seq(Nat)
    BY <1>2
  <2> QED BY <1>3, <1>6, <2>1 DEF Stamps, Boot!NewestLast
<1> QED BY <1>4, <1>5, <1>7, <1>8, <1>9 DEF MigrationInv

LEMMA ProcessKeeps ==
  ASSUME MigrationInv, UNCHANGED <<applied, db, asked>>, Boots'
  PROVE  MigrationInv'
<1>1. Recorded' /\ Usages' /\ Stamps'
  BY DEF MigrationInv, Recorded, IsTables, Usages, Stamps, Boot!UsageMended, Boot!NewestLast, Boot!IsInjective
<1>2. Priced'
  BY SamePriced DEF MigrationInv
<1> QED BY <1>1, <1>2 DEF MigrationInv

LEMMA MigrationNext ==
  ASSUME MigrationInv, Boot!Next
  PROVE  MigrationInv'
<1>0. Recorded /\ Boots /\ Priced /\ Usages /\ Stamps
  BY DEF MigrationInv
<1>1. ASSUME NEW q \in Processes, Boot!Boot(q) PROVE MigrationInv'
  BY <1>0, <1>1, BootIsBooting, ProcessKeeps DEF Boot!Boot
<1>2. ASSUME NEW q \in Processes, Boot!Verify(q) PROVE MigrationInv'
  <2>1. /\ Boots' /\ DOMAIN applied' = DOMAIN applied
        /\ \A m \in DOMAIN applied : applied'[m] = applied[m] \/ (m <= 10 /\ applied'[m] # None)
    BY <1>0, <1>2, VerifyIsBooting
  <2>2. UNCHANGED <<db, asked>>
    BY <1>2 DEF Boot!Verify
  <2>3. Priced'
    BY <1>0, <2>1, <2>2, AdoptedPriced
  <2>4. Recorded' /\ Usages' /\ Stamps'
    BY <1>0, <2>1, <2>2
       DEF Recorded, IsTables, Usages, Stamps, Boot!UsageMended, Boot!NewestLast, Boot!IsInjective
  <2> QED BY <2>1, <2>3, <2>4 DEF MigrationInv
<1>3. ASSUME NEW q \in Processes, Boot!Plan(q) PROVE MigrationInv'
  BY <1>0, <1>3, PlanIsBooting, ProcessKeeps DEF Boot!Plan
<1>4. ASSUME NEW q \in Processes, Boot!Apply(q) PROVE MigrationInv'
  <2>1. Boots'
    BY <1>0, <1>4, ApplyIsBooting
  <2>2. PICK m, text : Applies(m, text)
    BY <1>0, <1>4, ApplyIs
  <2>3. Recorded' /\ Priced' /\ Usages' /\ Stamps'
    BY <1>0, <2>2, AppliesRecorded, AppliesPriced, AppliesUsages, AppliesStamps
  <2> QED BY <2>1, <2>3 DEF MigrationInv
<1>5. ASSUME NEW q \in Processes, Boot!Serve(q) PROVE MigrationInv'
  BY <1>0, <1>5, ServeIsBooting, ProcessKeeps DEF Boot!Serve
<1>6. ASSUME NEW q \in Processes, Boot!Throw(q) \/ Boot!Die(q) PROVE MigrationInv'
  BY <1>0, <1>6, GoneIsBooting, ProcessKeeps DEF Boot!Throw, Boot!Die, Boot!Gone
<1>7. ASSUME NEW b \in Builds, Boot!Install(b) PROVE MigrationInv'
  BY <1>0, <1>7, InstallIsBooting, ProcessKeeps DEF Boot!Install
<1>8. ASSUME NEW a \in Asks, Boot!Write(a) PROVE MigrationInv'
  BY <1>8, WriteKeeps
<1>9. ASSUME NEW k \in DOMAIN db.prices, Boot!Mend(k) PROVE MigrationInv'
  BY <1>9, MendKeeps
<1>10. ASSUME NEW u \in db.usage, Boot!MendUsage(u) PROVE MigrationInv'
  BY <1>10, MendUsageKeeps
<1>11. ASSUME NEW q \in Processes, NEW s \in 1..(Len(db.stamp) + 1), Boot!Ingest(q, s) PROVE MigrationInv'
  BY <1>11, IngestKeeps
<1> QED BY <1>1, <1>2, <1>3, <1>4, <1>5, <1>6, <1>7, <1>8, <1>9, <1>10, <1>11 DEF Boot!Next

LEMMA MigrationIsFresh == MigrationInv => Boot!UpgradedAsFresh
<1> SUFFICES ASSUME MigrationInv PROVE Boot!UpgradedAsFresh
  OBVIOUS
<1>0. Recorded /\ Boots /\ Priced /\ Usages /\ Stamps
  BY DEF MigrationInv
<1>1. Boot!PricesKept
  <2>1. \A w \in asked : Boot!Stands(w, db.prices)
    BY <1>0 DEF Priced
  <2>2. ASSUME 11 \in DOMAIN applied,
               NEW model \in UNION {DOMAIN Boot!Shipped(m, None) : m \in DOMAIN applied}
        PROVE  /\ {k \in DOMAIN db.prices : Boot!Readable(k) /\ k.model = model /\ k.at = Boot!Floor} # {}
               /\ \A k \in {k \in DOMAIN db.prices : Boot!Readable(k) /\ k.model = model /\ k.at = Boot!Floor} :
                    db.prices[k] \in {w.rate : w \in {v \in asked : v.model = model /\ v.at = Boot!Floor}}
                                       \cup {Boot!FloorRate(model)}
    <3>1. PICK m \in DOMAIN applied : model \in DOMAIN Boot!Shipped(m, None)
      BY <2>2
    <3>2. PICK l \in DOMAIN db.prices : AtFloor(l) /\ l.model = model
      BY <1>0, <2>2, <3>1 DEF Priced
    <3>3. ASSUME NEW k \in DOMAIN db.prices, Boot!Readable(k), k.model = model, k.at = Boot!Floor
          PROVE  db.prices[k] \in {w.rate : w \in {v \in asked : v.model = model /\ v.at = Boot!Floor}}
                                     \cup {Boot!FloorRate(model)}
      <4>1. AskedFor(k) \/ LastShipped(k)
        BY <1>0, <3>3 DEF Priced, AtFloor
      <4>2. CASE AskedFor(k)
        BY <3>3, <4>2 DEF AskedFor
      <4>3. CASE LastShipped(k)
        BY <2>2, <3>3, <4>3 DEF LastShipped
      <4> QED BY <4>1, <4>2, <4>3
    <3> QED BY <3>2, <3>3 DEF AtFloor
  <2>3. 14 \in DOMAIN applied => \A k \in DOMAIN db.prices : k.form = "canonical"
    BY <1>0 DEF Priced
  <2> QED BY <2>1, <2>2, <2>3 DEF Boot!PricesKept
<1>2. \A q \in Processes : proc[q].pc = "up" =>
        \A m \in proc[q].build.ids :
          m \in DOMAIN applied /\ applied[m] = Boot!MigrationChecksum(proc[q].build, m)
  BY <1>0 DEF Boots, Serving, Says, Boot!MigrationChecksum
<1> QED BY <1>0, <1>1, <1>2 DEF Boot!UpgradedAsFresh, Recorded, Usages, Stamps

\* Wherever a database came from, through whichever builds that list the
\* migrations in one order, deaths, processes that boot side by side and rates
\* the operator writes, it is what a fresh install of its version would be, and
\* a process is up only on migrations that read as they did when they were
\* applied (runMigrations, migrations.ts).
THEOREM UpgradedIsFresh == StoredSpec => []UpgradedAsFresh
<1> DEFINE I == subject = "boot" => MigrationInv
<1>1. StoredInit => I
  BY MigrationInit DEF StoredInit
<1>2. I /\ [StoredNext]_all => I'
  <2> SUFFICES ASSUME I, [StoredNext]_all, subject' = "boot" PROVE MigrationInv'
    OBVIOUS
  <2>1. CASE subject = "boot" /\ Boot!Next
    BY <2>1, MigrationNext
  <2>2. CASE UNCHANGED all
    <3>1. MigrationInv /\ UNCHANGED <<applied, db, asked, installed, proc>>
      BY <2>2 DEF all, tables
    <3>2. Boots'
      BY <3>1, SameBoots DEF MigrationInv
    <3> QED BY <3>1, <3>2, ProcessKeeps
  <2>3. CASE subject = "statuses"
    BY <2>3 DEF StoredNext, all
  <2> QED BY <2>1, <2>2, <2>3 DEF StoredNext, all
<1>3. I => UpgradedAsFresh
  BY MigrationIsFresh DEF UpgradedAsFresh
<1> HIDE DEF I
<1> QED BY <1>1, <1>2, <1>3, PTL DEF StoredSpec
=============================================================================
