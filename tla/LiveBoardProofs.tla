-------------------------- MODULE LiveBoardProofs --------------------------
(* Type correctness of the live board, which includes that no bucket is ever  *)
(* negative, that its notices are truthful and that it is current: for any    *)
(* agents, statuses, frames and faults. Then the installer: what it replaces  *)
(* is in a backup and what it leaves is what was asked; and the cache of      *)
(* transcript lines: a cached read is a full read.                            *)
EXTENDS MCLiveBoard, Selection, FiniteSetTheorems, SequenceTheorems,
        WellFoundedInduction, TLAPS

(* Nothing covers what has not been observed yet, and an answer on its way    *)
(* covers only what it contains.                                              *)
CoversBacked ==
    /\ board.kind = "ready" => board.covers <= observation
    /\ fetch # NoFetch => fetch.covers <= observation
    /\ fetch.kind = "ready" /\ fetch.covers >= gap.observation => fetch.upTo >= gap.upTo

Inv == TypeOK /\ NoticeTruthful /\ CoversBacked

----------------------------------------------------------------------------
(* What the server counts is a number for every status.                       *)
LEMMA CountsType ==
    ASSUME BoardAssumption
    PROVE  Counts \in [Statuses -> Nat]
<1>1. ASSUME NEW status \in Statuses
      PROVE  Cardinality({a \in Agents : db[a] = status}) \in Nat
    <2>1. IsFiniteSet({a \in Agents : db[a] = status})
        BY FS_Subset DEF BoardAssumption
    <2> QED BY <2>1, FS_CardinalityType
<1> QED BY <1>1 DEF Counts

(* A board that absorbs a frame is still one, with no bucket below zero.      *)
LEMMA PatchedType ==
    ASSUME TypeOK, NEW number \in Nat, NEW frame \in Frame, Absorbs(frame)
    PROVE  /\ Patched(frame, number) \in Snapshots
           /\ Patched(frame, number).kind = "ready"
           /\ Patched(frame, number).covers = board.covers
           /\ Patched(frame, number).upTo = board.upTo
<1>1. frame \in [agent : Agents, from : Statuses, to : Statuses]
    BY DEF Absorbs, Frame
<1>2. board \in Snapshots
    BY DEF TypeOK, Absorbs, Loading, Failed
<1>3. /\ board.counts \in [Statuses -> Nat]
      /\ board.applied \in [Agents -> Statuses \cup {Absent}]
      /\ board.covers \in Nat /\ board.upTo \in Nat /\ board.restated \in BOOLEAN
    BY <1>2 DEF Snapshots
<1>4. board.counts[frame.from] > 0
    BY DEF Absorbs, Supports
<1>5. [board.counts EXCEPT ![frame.from] = @ - 1] \in [Statuses -> Nat]
    BY <1>1, <1>3, <1>4
<1>6. [board.counts EXCEPT ![frame.from] = @ - 1, ![frame.to] = @ + 1]
          \in [Statuses -> Nat]
    BY <1>1, <1>3, <1>5
<1>7. [board.applied EXCEPT ![frame.agent] = frame.to]
          \in [Agents -> Statuses \cup {Absent}]
    BY <1>1, <1>3
<1>8. (board.restated \/ number <= board.upTo) \in BOOLEAN
    OBVIOUS
<1> QED BY <1>3, <1>6, <1>7, <1>8 DEF Patched, Snapshots

----------------------------------------------------------------------------
LEMMA InitInv ==
    ASSUME BoardAssumption, Init
    PROVE  Inv
<1>1. log \in Seq(Frame) /\ NewestFrame = 0
    BY DEF Init, NewestFrame
<1>2. gap \in [observation : 0..observation, upTo : 0..NewestFrame]
    BY <1>1 DEF Init
<1>3. board = Loading /\ fetch = NoFetch
    BY DEF Init
<1>a. /\ next \in 0..(NewestFrame + 1) /\ unheard \in 0..NewestFrame
      /\ faults \in 0..MaxFaults
    BY <1>1 DEF Init, BoardAssumption
<1>b. /\ db \in [Agents -> Statuses \cup {Absent}]
      /\ stream = "connecting" /\ seen = 0 /\ interrupted = FALSE
      /\ missed = FALSE /\ reload = TRUE /\ observation = 0
    BY DEF Init
<1>4. TypeOK
    BY <1>1, <1>2, <1>3, <1>a, <1>b DEF TypeOK
<1>5. NoticeTruthful /\ CoversBacked
    BY <1>3 DEF NoticeTruthful, CoversBacked, Loading, NoFetch
<1> QED BY <1>4, <1>5 DEF Inv

LEMMA TypeStep ==
    ASSUME BoardAssumption, TypeOK, [Next]_vars
    PROVE  TypeOK'
<1> USE DEF TypeOK, NewestFrame
<1>1. CASE \E agent \in Agents, status \in Statuses : Moves(agent, status)
    <2>1. PICK agent \in Agents, status \in Statuses : Moves(agent, status)
        BY <1>1
    <2>2. db[agent] \in Statuses
        BY <2>1 DEF Moves
    <2>3. [agent |-> agent, from |-> db[agent], to |-> status] \in Frame
        BY <2>2 DEF Frame
    <2>4. log' \in Seq(Frame) /\ Len(log') = Len(log) + 1
        BY <2>1, <2>3 DEF Moves
    <2> QED BY <2>1, <2>4 DEF Moves, streamVars, boardVars, noticeVars
<1>2. CASE Projected
    <2>1. log' \in Seq(Frame) /\ Len(log') = Len(log) + 1
        BY <1>2 DEF Projected, Frame
    <2>2. db' \in [Agents -> Statuses \cup {Absent}]
        BY <1>2 DEF Projected
    <2> QED BY <1>2, <2>1, <2>2 DEF Projected, streamVars, boardVars, noticeVars
<1>3. CASE Answers
    <2>1. fetch.covers \in Nat
        BY <1>3 DEF Answers, NoFetch, Snapshots
    <2>2. fetch' \in Snapshots
        BY <1>3, <2>1, CountsType DEF Answers, Snapshot, Snapshots, NoMoves
    <2> QED BY <1>3, <2>2 DEF Answers, streamVars, noticeVars
<1>4. CASE Fetches
    BY <1>4 DEF Fetches, streamVars, noticeVars
<1>5. CASE Lands
    <2>1. fetch \in Snapshots
        BY <1>5 DEF Lands, NoFetch
    <2> QED BY <1>5, <2>1 DEF Lands, Answer, streamVars, noticeVars
<1>6. CASE FetchFails
    BY <1>6 DEF FetchFails, streamVars, noticeVars, BoardAssumption
<1>7. CASE Retry
    BY <1>7 DEF Retry, streamVars, noticeVars
<1>8. CASE Connects
    BY <1>8 DEF Connects, boardVars
<1>9. CASE Opens
    <2>1. observation' \in Nat /\ gap' \in [observation : 0..observation', upTo : 0..Len(log)]
        <3>1. CASE interrupted
            <4>1. next - 1 \in 0..Len(log)
                BY <1>9 DEF Opens
            <4> QED BY <1>9, <3>1, <4>1 DEF Opens
        <3>2. CASE ~interrupted
            BY <1>9, <3>2 DEF Opens
        <3> QED BY <3>1, <3>2
    <2>2. reload' \in BOOLEAN
        BY <1>9 DEF Opens
    <2> QED BY <1>9, <2>1, <2>2 DEF Opens
<1>10. CASE Breaks
    BY <1>10 DEF Breaks, boardVars, noticeVars, BoardAssumption
<1>11. CASE Takes
    <2> DEFINE frame == log[next]
               gapped == seen > 0 /\ next > seen + 1
    <2>1. next \in 1..Len(log) /\ frame \in Frame
        BY <1>11 DEF Takes
    <2>2. board' \in {Loading, Failed} \cup Snapshots
        <3>1. CASE Absorbs(frame)
            BY <1>11, <2>1, <3>1, PatchedType DEF Takes
        <3>2. CASE ~Absorbs(frame)
            BY <1>11, <3>2 DEF Takes
        <3> QED BY <3>1, <3>2
    <2>3. /\ missed' \in BOOLEAN
          /\ reload' \in BOOLEAN
        BY <1>11 DEF Takes
    <2>4. observation' \in Nat /\ gap' \in [observation : 0..observation', upTo : 0..Len(log)]
        <3>1. CASE gapped
            BY <1>11, <2>1, <3>1 DEF Takes
        <3>2. CASE ~gapped
            BY <1>11, <3>2 DEF Takes
        <3> QED BY <3>1, <3>2
    <2>5. next' \in 0..(Len(log) + 1) /\ seen' \in Nat
        BY <1>11, <2>1 DEF Takes
    <2> QED BY <1>11, <2>2, <2>3, <2>4, <2>5 DEF Takes
<1>12. CASE UNCHANGED vars
    BY <1>12 DEF vars, streamVars, boardVars, noticeVars
<1> QED
    BY <1>1, <1>2, <1>3, <1>4, <1>5, <1>6, <1>7, <1>8, <1>9, <1>10, <1>11, <1>12
    DEF Next

(* The notices: those that announce something name a new observation, which   *)
(* nothing on screen or in flight covers; an answer holds every frame there   *)
(* is when it is given.                                                       *)
LEMMA NoticeStep ==
    ASSUME BoardAssumption, Inv, [Next]_vars
    PROVE  (NoticeTruthful /\ CoversBacked)'
<1>a. TypeOK /\ TypeOK'
    BY TypeStep DEF Inv
<1>b. NoticeTruthful /\ CoversBacked
    BY DEF Inv
<1>c. /\ observation \in Nat /\ gap.observation \in 0..observation
      /\ gap.upTo \in 0..NewestFrame
      /\ NewestFrame \in Nat
    BY <1>a DEF TypeOK, NewestFrame
<1>d. /\ board.kind = "ready" => board \in Snapshots /\ board.covers \in Nat /\ board.upTo \in Nat
      /\ fetch.kind = "ready" => fetch \in Snapshots /\ fetch.covers \in Nat /\ fetch.upTo \in Nat
    <2>1. board.kind = "ready" => board \in Snapshots
        BY <1>a DEF TypeOK, Loading, Failed
    <2>2. fetch.kind = "ready" => fetch \in Snapshots
        BY <1>a DEF TypeOK, NoFetch
    <2> QED BY <2>1, <2>2 DEF Snapshots
<1> USE DEF NoticeTruthful, CoversBacked
<1>1. ASSUME NEW agent \in Agents, NEW status \in Statuses, Moves(agent, status)
      PROVE  (NoticeTruthful /\ CoversBacked)'
    BY <1>b, <1>1 DEF Moves, boardVars, noticeVars
<1>2. CASE Projected
    BY <1>b, <1>2 DEF Projected, boardVars, noticeVars
<1>3. CASE Answers
    <2>1. /\ fetch'.kind = "ready"
          /\ fetch'.covers = fetch.covers
          /\ fetch'.upTo = NewestFrame
        BY <1>3 DEF Answers, Snapshot
    <2>2. fetch # NoFetch
        BY <1>3 DEF Answers, NoFetch
    <2> QED BY <1>b, <1>c, <1>3, <2>1, <2>2 DEF Answers, noticeVars
<1>4. CASE Fetches
    <2>1. fetch'.kind = "asked" /\ fetch'.covers = observation
        BY <1>4 DEF Fetches
    <2> QED BY <1>b, <1>c, <1>4, <2>1 DEF Fetches, noticeVars
<1>5. CASE Lands
    <2>1. board' = fetch /\ fetch.kind = "ready" /\ fetch # NoFetch /\ fetch' = NoFetch
        BY <1>5 DEF Lands, Answer, NoFetch
    <2> QED BY <1>b, <1>5, <2>1 DEF Lands, noticeVars, NoFetch
<1>6. CASE FetchFails
    BY <1>b, <1>6 DEF FetchFails, noticeVars, Failed, NoFetch
<1>7. CASE Retry
    BY <1>b, <1>7 DEF Retry, noticeVars
<1>8. CASE Connects
    BY <1>b, <1>8 DEF Connects, boardVars
<1>9. CASE Opens
    <2>1. CASE interrupted
        <3>1. /\ observation' = observation + 1 /\ gap'.observation = observation + 1
              /\ board' = board /\ fetch' = fetch
            BY <1>9, <2>1 DEF Opens
        <3>2. fetch # NoFetch => fetch.covers \in Nat
            BY <1>a DEF TypeOK, Snapshots
        <3>3. fetch.kind = "ready" => fetch # NoFetch
            BY DEF NoFetch
        <3> QED BY <1>b, <1>c, <1>d, <3>1, <3>2, <3>3
    <2>2. CASE ~interrupted
        BY <1>b, <1>9, <2>2 DEF Opens
    <2> QED BY <2>1, <2>2
<1>10. CASE Breaks
    BY <1>b, <1>10 DEF Breaks, boardVars, noticeVars
<1>11. CASE Takes
    <2> DEFINE frame == log[next]
               gapped == seen > 0 /\ next > seen + 1
    <2>1. fetch' = fetch
        BY <1>11 DEF Takes
    <2>2. /\ board'.kind = board.kind
          /\ board'.kind = "ready" => board'.covers = board.covers /\ board'.upTo = board.upTo
        <3>1. CASE Absorbs(frame)
            <4>1. next \in Nat /\ frame \in Frame
                BY <1>a, <1>11 DEF Takes, TypeOK, NewestFrame
            <4>2. board.kind = "ready"
                BY <3>1 DEF Absorbs
            <4> QED BY <1>a, <1>11, <3>1, <4>1, <4>2, PatchedType DEF Takes
        <3>2. CASE ~Absorbs(frame)
            BY <1>11, <3>2 DEF Takes
        <3> QED BY <3>1, <3>2
    <2>3. CASE gapped
        <3>1. observation' = observation + 1 /\ gap'.observation = observation + 1
            BY <1>11, <2>3 DEF Takes
        <3>2. fetch # NoFetch => fetch.covers \in Nat
            BY <1>a DEF TypeOK, Snapshots
        <3>3. fetch.kind = "ready" => fetch # NoFetch
            BY DEF NoFetch
        <3> QED BY <1>b, <1>c, <1>d, <2>1, <2>2, <3>1, <3>2, <3>3
    <2>4. CASE ~gapped
        <3>1. observation' = observation /\ gap' = gap
            BY <1>11, <2>4 DEF Takes
        <3> QED BY <1>b, <2>1, <2>2, <3>1
    <2> QED BY <2>3, <2>4
<1>12. CASE UNCHANGED vars
    BY <1>b, <1>12 DEF vars, boardVars, noticeVars
<1> QED
    BY <1>1, <1>2, <1>3, <1>4, <1>5, <1>6, <1>7, <1>8, <1>9, <1>10, <1>11, <1>12
    DEF Next

----------------------------------------------------------------------------
(* Types, notices and what backs them are inductive together.                 *)
THEOREM BoardInductive == Spec => []Inv
<1>1. Init => Inv
    BY InitInv, BoardAssumption
<1>2. Inv /\ [Next]_vars => Inv'
    BY TypeStep, NoticeStep, BoardAssumption DEF Inv
<1> QED BY <1>1, <1>2, PTL DEF Spec

(* applyAgentStatusChange: whatever overlaps, no bucket of the board is ever  *)
(* negative; and every other variable keeps its type.                         *)
THEOREM BoardTypeCorrect == Spec => []TypeOK
<1>1. Inv => TypeOK
    BY DEF Inv
<1> QED BY <1>1, BoardInductive, PTL

(* refetchClause: a read said to cover a gap or a recovery contains every     *)
(* frame that was lost in it.                                                 *)
THEOREM NoticesAreTruthful == Spec => []NoticeTruthful
<1>1. Inv => NoticeTruthful
    BY DEF Inv
<1> QED BY <1>1, BoardInductive, PTL

----------------------------------------------------------------------------
(* BoardCurrent.  A board that has taken the frames up to k shows the status  *)
(* every agent had at k, which the rest of the log still tells: it is where   *)
(* the next frame about the agent says it comes from, or else its row.  Once  *)
(* every frame is taken, that is the row of every agent.  It is so until a    *)
(* session is projected again, whose own frame is then among the rest.        *)
Later(a, k) == {j \in (k + 1)..NewestFrame : log[j] # Ingested /\ log[j].agent = a}
First(a, k) == CHOOSE j \in Later(a, k) : \A i \in Later(a, k) : j <= i
At(a, k) == IF Later(a, k) = {} THEN db[a] ELSE log[First(a, k)].from
CountsAt(k) == [s \in Statuses |-> Cardinality({a \in Agents : At(a, k) = s})]
NoneIngested(k) == \A j \in (k + 1)..NewestFrame : log[j] # Ingested

Accurate(b, k) ==
    NoneIngested(k) =>
        /\ b.counts = CountsAt(k)
        /\ \A a \in Agents : b.applied[a] # Absent => b.applied[a] = At(a, k)

(* What the log tells is consistent: a frame leaves its agent where the next  *)
(* one finds it.                                                              *)
Chained ==
    \A i \in 1..NewestFrame : log[i] # Ingested =>
        /\ log[i].from # log[i].to
        /\ NoneIngested(i) => \A a \in Agents : a = log[i].agent => At(a, i) = log[i].to

(* An answer that has been given, and what is said of frames that passed it.  *)
AnswerAccurate ==
    fetch.kind = "ready" =>
        /\ fetch.upTo <= NewestFrame /\ fetch.applied = NoMoves /\ ~fetch.restated
        /\ Accurate(fetch, fetch.upTo)
        /\ \/ next - 1 <= fetch.upTo \/ missed \/ reload \/ interrupted
           \/ fetch.upTo < unheard

Reached == IF next - 1 > board.upTo THEN next - 1 ELSE board.upTo
Quiet == fetch = NoFetch /\ ~reload /\ ~interrupted
BoardAccurate ==
    board.kind = "ready" =>
        /\ board.upTo <= NewestFrame
        /\ Quiet /\ ~board.restated /\ board.upTo >= unheard => Accurate(board, Reached)

BInv ==
    /\ Inv /\ Chained
    /\ interrupted => stream # "open"
    /\ AnswerAccurate /\ BoardAccurate

(* Numbers have a least one among them.                                       *)
LEMMA LeastNumber ==
    ASSUME NEW T \in SUBSET Nat, T # {}
    PROVE  \E n \in T : \A m \in T : n <= m
<1> DEFINE U == {0..n : n \in T}
<1>1. U \subseteq FiniteSubsetsOf(Nat) /\ U # {}
    <2>1. \A n \in Nat : IsFiniteSet(0..n) /\ 0..n \in SUBSET Nat
        BY FS_Interval
    <2> QED BY <2>1 DEF FiniteSubsetsOf
<1>2. PICK least \in U : \A u \in U : <<u, least>> \notin StrictSubsetOrdering(Nat)
    <2>1. IsWellFoundedOn(StrictSubsetOrdering(Nat), FiniteSubsetsOf(Nat))
        BY FS_StrictSubsetOrderingWellFounded
    <2> HIDE DEF U
    <2> QED BY <1>1, <2>1, WFMin
<1>3. PICK n \in T : least = 0..n
    OBVIOUS
<1>4. ASSUME NEW m \in T, ~(n <= m) PROVE FALSE
    <2>1. 0..m \subseteq 0..n /\ n \in 0..n /\ n \notin 0..m
        BY <1>4
    <2>2. <<0..m, 0..n>> \in StrictSubsetOrdering(Nat)
        BY <2>1 DEF StrictSubsetOrdering
    <2> QED BY <1>2, <1>3, <2>2
<1> QED BY <1>4

LEMMA FirstIsLeast ==
    ASSUME NEW a, NEW k \in Nat, Later(a, k) # {}
    PROVE  First(a, k) \in Later(a, k) /\ \A i \in Later(a, k) : First(a, k) <= i
<1>1. Later(a, k) \in SUBSET Nat
    BY DEF Later
<1>2. \E j \in Later(a, k) : \A i \in Later(a, k) : j <= i
    BY <1>1, LeastNumber
<1> QED BY <1>2 DEF First

LEMMA NewestType ==
    ASSUME TypeOK
    PROVE  /\ NewestFrame \in Nat
           /\ \A j \in 1..NewestFrame : log[j] \in Frame
           /\ board.kind = "ready" => board \in Snapshots
           /\ fetch.kind = "ready" => fetch \in Snapshots
BY DEF TypeOK, NewestFrame, Loading, Failed, NoFetch

LEMMA AtNewest ==
    ASSUME TypeOK
    PROVE  CountsAt(NewestFrame) = Counts /\ \A a \in Agents : At(a, NewestFrame) = db[a]
<1>1. \A a \in Agents : At(a, NewestFrame) = db[a]
    BY NewestType DEF At, Later
<1> QED BY <1>1 DEF CountsAt, Counts

(* A frame is what tells the two statuses of its agent apart, and says        *)
(* nothing of the others.                                                     *)
LEMMA AtNext ==
    ASSUME TypeOK, NEW k \in Nat, k < NewestFrame, log[k + 1] # Ingested
    PROVE  /\ log[k + 1].agent \in Agents /\ log[k + 1].from \in Statuses
           /\ log[k + 1].to \in Statuses
           /\ At(log[k + 1].agent, k) = log[k + 1].from
           /\ \A a \in Agents : a # log[k + 1].agent => At(a, k) = At(a, k + 1)
<1> DEFINE f == log[k + 1]
<1>1. NewestFrame \in Nat /\ k + 1 \in (k + 1)..NewestFrame /\ f \in Frame
    BY NewestType
<1>2. f.agent \in Agents /\ f.from \in Statuses /\ f.to \in Statuses
    BY <1>1 DEF Frame
<1>3. At(f.agent, k) = f.from
    <2>1. k + 1 \in Later(f.agent, k) /\ \A j \in Later(f.agent, k) : j \in Nat /\ k + 1 <= j
        BY <1>1 DEF Later
    <2>2. First(f.agent, k) = k + 1
        BY <2>1, FirstIsLeast
    <2> QED BY <2>1, <2>2 DEF At
<1>4. ASSUME NEW a \in Agents, a # f.agent PROVE At(a, k) = At(a, k + 1)
    <2>1. Later(a, k) = Later(a, k + 1)
        BY <1>1, <1>4 DEF Later
    <2> QED BY <2>1 DEF At, First
<1> QED BY <1>2, <1>3, <1>4

(* A move is told by its own frame, so it changes nothing before it.          *)
LEMMA MoveKeepsAt ==
    ASSUME TypeOK, NEW agent \in Agents, NEW status \in Statuses, Moves(agent, status),
           NEW k \in 0..NewestFrame
    PROVE  /\ NoneIngested(k) => NoneIngested(k)'
           /\ NoneIngested(k)' => NoneIngested(k)
           /\ \A a \in Agents : At(a, k)' = At(a, k)
           /\ CountsAt(k)' = CountsAt(k)
<1> DEFINE f == [agent |-> agent, from |-> db[agent], to |-> status]
<1>1. /\ NewestFrame \in Nat /\ NewestFrame' = NewestFrame + 1
      /\ \A j \in 1..NewestFrame : log'[j] = log[j]
      /\ log'[NewestFrame + 1] = f
      /\ db' = [db EXCEPT ![agent] = status]
    BY DEF Moves, TypeOK, NewestFrame
<1>2. f # Ingested
    <2>1. db[agent] \in Statuses
        BY DEF Moves, TypeOK
    <2>2. f \in [agent : Agents, from : Statuses, to : Statuses]
        BY <2>1
    <2> QED BY <2>2, BoardAssumption DEF BoardAssumption
<1>3. NoneIngested(k)' <=> NoneIngested(k)
    BY <1>1, <1>2 DEF NoneIngested
<1>4. ASSUME NEW a \in Agents PROVE At(a, k)' = At(a, k)
    <2>1. Later(a, k)' = Later(a, k) \cup (IF a = agent THEN {NewestFrame + 1} ELSE {})
        BY <1>1, <1>2 DEF Later
    <2>2. CASE a # agent
        <3>1. Later(a, k)' = Later(a, k)
            BY <2>1, <2>2
        <3>2. CASE Later(a, k) = {}
            BY <1>1, <2>2, <3>1, <3>2 DEF At, TypeOK
        <3>3. CASE Later(a, k) # {}
            <4>1. First(a, k)' = First(a, k)
                BY <3>1 DEF First
            <4>2. First(a, k) \in 1..NewestFrame
                BY <3>3, FirstIsLeast DEF Later
            <4> QED BY <1>1, <3>1, <3>3, <4>1, <4>2 DEF At
        <3> QED BY <3>2, <3>3
    <2>3. CASE a = agent /\ Later(a, k) = {}
        <3>1. Later(a, k)' = {NewestFrame + 1}
            BY <2>1, <2>3
        <3>2. First(a, k)' = NewestFrame + 1
            BY <1>1, <3>1 DEF First
        <3> QED BY <1>1, <2>3, <3>1, <3>2 DEF At
    <2>4. CASE a = agent /\ Later(a, k) # {}
        <3>1. PICK first \in Later(a, k) :
                first = First(a, k) /\ \A i \in Later(a, k) : first <= i
            BY <2>4, FirstIsLeast
        <3>2. first \in 1..NewestFrame /\ \A i \in Later(a, k) : i \in Nat
            BY <3>1 DEF Later
        <3>a. Later(a, k)' = Later(a, k) \cup {NewestFrame + 1}
            BY <2>1, <2>4
        <3>b. first \in Later(a, k)'
            BY <3>1, <3>a
        <3>3. ASSUME NEW i \in Later(a, k)' PROVE first <= i /\ i \in Nat
            <4>1. CASE i \in Later(a, k)
                BY <3>1, <3>2, <4>1
            <4>2. CASE i = NewestFrame + 1
                <5>1. NewestFrame \in Nat
                    BY <1>1
                <5> QED BY <3>2, <4>2, <5>1
            <4> QED BY <3>a, <4>1, <4>2
        <3>4. First(a, k)' = first
            <4>1. \A j \in Later(a, k)' : (\A i \in Later(a, k)' : j <= i) <=> j = first
                BY <3>2, <3>b, <3>3
            <4> QED BY <3>b, <4>1 DEF First
        <3>5. log'[first] = log[first] /\ Later(a, k)' # {}
            BY <1>1, <3>2, <3>b
        <3>6. At(a, k) = log[first].from
            BY <2>4, <3>1 DEF At
        <3> QED BY <3>4, <3>5, <3>6 DEF At
    <2> QED BY <2>2, <2>3, <2>4
<1>5. CountsAt(k)' = CountsAt(k)
    BY <1>4 DEF CountsAt
<1> QED BY <1>3, <1>4, <1>5

(* A move takes its agent out of one bucket and puts it into another.         *)
LEMMA CountsMove ==
    ASSUME TypeOK, NEW k \in Nat, k < NewestFrame, log[k + 1] # Ingested,
           log[k + 1].from # log[k + 1].to, At(log[k + 1].agent, k + 1) = log[k + 1].to
    PROVE  CountsAt(k + 1) = [CountsAt(k) EXCEPT ![log[k + 1].from] = @ - 1,
                                                 ![log[k + 1].to] = @ + 1]
<1> DEFINE f == log[k + 1]
           In(s, n) == {a \in Agents : At(a, n) = s}
<1>1. /\ f.agent \in Agents /\ f.from \in Statuses /\ f.to \in Statuses
      /\ At(f.agent, k) = f.from /\ At(f.agent, k + 1) = f.to /\ f.from # f.to
      /\ \A a \in Agents : a # f.agent => At(a, k) = At(a, k + 1)
    BY AtNext
<1>2. \A s, n : IsFiniteSet(In(s, n)) /\ Cardinality(In(s, n)) \in Nat
    <2>1. \A s, n : IsFiniteSet(In(s, n))
        BY FS_Subset, BoardAssumption DEF BoardAssumption
    <2> QED BY <2>1, FS_CardinalityType
<1>3. /\ In(f.from, k) = In(f.from, k + 1) \cup {f.agent} /\ f.agent \notin In(f.from, k + 1)
      /\ In(f.to, k + 1) = In(f.to, k) \cup {f.agent} /\ f.agent \notin In(f.to, k)
      /\ \A s \in Statuses : s # f.from /\ s # f.to => In(s, k + 1) = In(s, k)
    BY <1>1
<1>4. \A n : CountsAt(n) = [s \in Statuses |-> Cardinality(In(s, n))]
    BY DEF CountsAt
<1> HIDE DEF In, f
<1>5. /\ Cardinality(In(f.from, k)) = Cardinality(In(f.from, k + 1)) + 1
      /\ Cardinality(In(f.to, k + 1)) = Cardinality(In(f.to, k)) + 1
    BY <1>2, <1>3, FS_AddElement
<1>6. Cardinality(In(f.from, k + 1)) = Cardinality(In(f.from, k)) - 1
    BY <1>2, <1>5
<1>7. [CountsAt(k) EXCEPT ![f.from] = @ - 1, ![f.to] = @ + 1]
        = [s \in Statuses |-> IF s = f.to THEN Cardinality(In(f.to, k)) + 1
                              ELSE IF s = f.from THEN Cardinality(In(f.from, k)) - 1
                              ELSE Cardinality(In(s, k))]
    BY <1>1, <1>4
<1>8. \A s \in Statuses :
        Cardinality(In(s, k + 1)) =
          (IF s = f.to THEN Cardinality(In(f.to, k)) + 1
           ELSE IF s = f.from THEN Cardinality(In(f.from, k)) - 1
           ELSE Cardinality(In(s, k)))
    BY <1>3, <1>5, <1>6
<1> QED BY <1>4, <1>7, <1>8 DEF f

----------------------------------------------------------------------------
LEMMA InitBoard ==
    ASSUME Init
    PROVE  BInv
<1>1. Inv
    BY InitInv, BoardAssumption
<1>2. NewestFrame = 0 /\ board = Loading /\ fetch = NoFetch /\ interrupted = FALSE
    BY DEF Init, NewestFrame
<1>3. Chained
    BY <1>2 DEF Chained
<1>4. AnswerAccurate /\ BoardAccurate
    BY <1>2 DEF AnswerAccurate, BoardAccurate, Loading, NoFetch
<1> QED BY <1>1, <1>2, <1>3, <1>4 DEF BInv

(* Steps that leave the rows and the log alone leave what they tell alone.    *)
LEMMA SameLog ==
    ASSUME UNCHANGED <<db, log>>
    PROVE  /\ NewestFrame' = NewestFrame
           /\ Chained => Chained'
           /\ \A k : /\ CountsAt(k)' = CountsAt(k)
                     /\ NoneIngested(k)' = NoneIngested(k)
                     /\ \A a : At(a, k)' = At(a, k)
<1>1. NewestFrame' = NewestFrame
    BY DEF NewestFrame
<1>2. \A a, k : Later(a, k)' = Later(a, k)
    BY <1>1 DEF Later
<1>3. \A a, k : First(a, k)' = First(a, k)
    BY <1>2 DEF First
<1>4. \A a, k : At(a, k)' = At(a, k)
    BY <1>2, <1>3 DEF At
<1>5. \A k : NoneIngested(k)' = NoneIngested(k) /\ CountsAt(k)' = CountsAt(k)
    BY <1>1, <1>4 DEF NoneIngested, CountsAt
<1>6. Chained => Chained'
    BY <1>1, <1>4, <1>5 DEF Chained
<1> QED BY <1>1, <1>4, <1>5, <1>6

LEMMA BoardRange ==
    ASSUME BInv, board.kind = "ready"
    PROVE  /\ board \in Snapshots /\ board.upTo \in 0..NewestFrame
           /\ Reached \in 0..NewestFrame
           /\ next \in 0..(NewestFrame + 1) /\ NewestFrame \in Nat
<1>1. TypeOK /\ board.upTo <= NewestFrame
    BY DEF BInv, Inv, BoardAccurate
<1>2. board \in Snapshots /\ NewestFrame \in Nat
    BY <1>1, NewestType
<1>3. next \in 0..(NewestFrame + 1) /\ board.upTo \in Nat
    BY <1>1, <1>2 DEF TypeOK, Snapshots
<1> QED BY <1>1, <1>2, <1>3 DEF Reached

LEMMA AnswerRange ==
    ASSUME BInv, fetch.kind = "ready"
    PROVE  /\ fetch \in Snapshots /\ fetch.upTo \in 0..NewestFrame
           /\ next \in 0..(NewestFrame + 1) /\ NewestFrame \in Nat
<1>1. TypeOK /\ fetch.upTo <= NewestFrame
    BY DEF BInv, Inv, AnswerAccurate
<1>2. fetch \in Snapshots /\ NewestFrame \in Nat
    BY <1>1, NewestType
<1> QED BY <1>1, <1>2 DEF TypeOK, Snapshots

LEMMA MovesBoard ==
    ASSUME BInv, NEW agent \in Agents, NEW status \in Statuses, Moves(agent, status)
    PROVE  Chained' /\ AnswerAccurate' /\ BoardAccurate'
<1>1. /\ TypeOK /\ NewestFrame \in Nat /\ NewestFrame' = NewestFrame + 1
      /\ UNCHANGED <<next, missed, reload, interrupted, fetch, board, unheard>>
    BY DEF BInv, Inv, Moves, TypeOK, NewestFrame, streamVars, boardVars, noticeVars
<1>2. Chained'
    <2> SUFFICES ASSUME NEW i \in 1..(NewestFrame + 1), log'[i] # Ingested
                 PROVE  /\ log'[i].from # log'[i].to
                        /\ NoneIngested(i)' =>
                             \A a \in Agents : a = log'[i].agent => At(a, i)' = log'[i].to
        BY <1>1 DEF Chained
    <2>1. CASE i <= NewestFrame
        <3>1. i \in 1..NewestFrame /\ log'[i] = log[i]
            BY <1>1, <2>1 DEF Moves, TypeOK, NewestFrame
        <3>2. log[i] \in Frame /\ log[i].agent \in Agents
            BY <1>1, <3>1, NewestType DEF Frame
        <3>3. /\ NoneIngested(i)' => NoneIngested(i)
              /\ \A a \in Agents : At(a, i)' = At(a, i)
            BY <1>1, <3>1, MoveKeepsAt
        <3> QED BY <3>1, <3>3 DEF BInv, Chained
    <2>2. CASE i = NewestFrame + 1
        <3>1. /\ log'[i] = [agent |-> agent, from |-> db[agent], to |-> status]
              /\ db[agent] # status /\ db'[agent] = status
            BY <1>1, <2>2 DEF Moves, TypeOK, NewestFrame
        <3>2. Later(agent, i)' = {}
            BY <1>1, <2>2 DEF Later
        <3>3. At(agent, i)' = status
            BY <3>1, <3>2 DEF At
        <3> QED BY <3>1, <3>3
    <2> QED BY <1>1, <2>1, <2>2
<1>3. AnswerAccurate'
    <2> SUFFICES ASSUME fetch.kind = "ready" PROVE AnswerAccurate'
        BY <1>1 DEF AnswerAccurate
    <2>1. PICK k \in 0..NewestFrame : k = fetch.upTo
        BY AnswerRange
    <2>2. /\ NoneIngested(k)' => NoneIngested(k)
          /\ \A a \in Agents : At(a, k)' = At(a, k)
          /\ CountsAt(k)' = CountsAt(k)
        BY <1>1, MoveKeepsAt
    <2>3. Accurate(fetch, k)'
        BY <1>1, <2>1, <2>2 DEF BInv, AnswerAccurate, Accurate
    <2> QED BY <1>1, <2>1, <2>3 DEF BInv, AnswerAccurate
<1>4. BoardAccurate'
    <2> SUFFICES ASSUME board.kind = "ready" PROVE BoardAccurate'
        BY <1>1 DEF BoardAccurate
    <2>1. PICK k \in 0..NewestFrame : k = Reached
        BY BoardRange
    <2>2. /\ NoneIngested(k)' => NoneIngested(k)
          /\ \A a \in Agents : At(a, k)' = At(a, k)
          /\ CountsAt(k)' = CountsAt(k)
        BY <1>1, MoveKeepsAt
    <2>3. Accurate(board, k) => Accurate(board, k)'
        BY <1>1, <2>2 DEF Accurate
    <2>4. Reached' = k /\ (Quiet' => Quiet)
        BY <1>1, <2>1 DEF Reached, Quiet
    <2>5. board.upTo <= NewestFrame'
        BY <1>1, BoardRange
    <2> QED BY <1>1, <2>1, <2>3, <2>4, <2>5 DEF BInv, BoardAccurate
<1> QED BY <1>2, <1>3, <1>4

LEMMA ProjectedBoard ==
    ASSUME BInv, Projected
    PROVE  Chained' /\ AnswerAccurate' /\ BoardAccurate'
<1>1. /\ TypeOK /\ NewestFrame \in Nat /\ NewestFrame' = NewestFrame + 1
      /\ \A j \in 1..NewestFrame : log'[j] = log[j]
      /\ log'[NewestFrame + 1] = Ingested
      /\ UNCHANGED <<next, missed, reload, interrupted, fetch, board, unheard>>
    BY DEF BInv, Inv, Projected, TypeOK, NewestFrame, streamVars, boardVars, noticeVars
<1>2. \A k \in 0..NewestFrame : ~NoneIngested(k)'
    BY <1>1 DEF NoneIngested
<1>3. Chained'
    <2> SUFFICES ASSUME NEW i \in 1..(NewestFrame + 1), log'[i] # Ingested
                 PROVE  log'[i].from # log'[i].to /\ ~NoneIngested(i)'
        BY <1>1 DEF Chained
    <2>1. i \in 1..NewestFrame
        BY <1>1
    <2> QED BY <1>1, <1>2, <2>1 DEF BInv, Chained
<1>4. AnswerAccurate'
    <2> SUFFICES ASSUME fetch.kind = "ready" PROVE AnswerAccurate'
        BY <1>1 DEF AnswerAccurate
    <2>1. Accurate(fetch, fetch.upTo)'
        BY <1>1, <1>2, AnswerRange DEF Accurate
    <2> QED BY <1>1, <2>1, AnswerRange DEF BInv, AnswerAccurate
<1>5. BoardAccurate'
    <2> SUFFICES ASSUME board.kind = "ready" PROVE BoardAccurate'
        BY <1>1 DEF BoardAccurate
    <2>1. Reached' = Reached
        BY <1>1 DEF Reached
    <2>2. Accurate(board, Reached)'
        BY <1>2, <2>1, BoardRange DEF Accurate
    <2> QED BY <1>1, <2>2, BoardRange DEF BoardAccurate
<1> QED BY <1>3, <1>4, <1>5

LEMMA AnswersBoard ==
    ASSUME BInv, Answers
    PROVE  AnswerAccurate' /\ BoardAccurate'
<1>1. /\ fetch' = Snapshot(fetch.covers) /\ fetch'.kind = "ready"
      /\ UNCHANGED <<db, log, next, missed, reload, interrupted, board, unheard>>
    BY DEF Answers, Snapshot, streamVars, noticeVars
<1>2. /\ fetch'.upTo = NewestFrame /\ fetch'.applied = NoMoves /\ ~fetch'.restated
      /\ fetch'.counts = CountsAt(NewestFrame) /\ NewestFrame' = NewestFrame
    BY <1>1, AtNewest DEF Snapshot, BInv, Inv, NewestFrame
<1>3. Accurate(fetch, fetch.upTo)'
    BY <1>1, <1>2, SameLog DEF Accurate, NoMoves
<1>4. next - 1 <= NewestFrame /\ NewestFrame \in Nat
    BY DEF BInv, Inv, TypeOK, NewestFrame
<1>5. AnswerAccurate'
    BY <1>1, <1>2, <1>3, <1>4 DEF AnswerAccurate, NoMoves
<1>6. ~Quiet'
    BY <1>1 DEF Quiet, NoFetch
<1>7. BoardAccurate'
    BY <1>1, <1>2, <1>6 DEF BInv, BoardAccurate
<1> QED BY <1>5, <1>7

LEMMA LandsBoard ==
    ASSUME BInv, Lands
    PROVE  AnswerAccurate' /\ BoardAccurate'
<1>1. /\ board' = fetch /\ fetch.kind = "ready" /\ fetch' = NoFetch
      /\ reload' = (reload \/ missed)
      /\ UNCHANGED <<db, log, next, interrupted, unheard>>
    BY DEF Lands, Answer, streamVars, noticeVars
<1>2. AnswerAccurate'
    BY <1>1 DEF AnswerAccurate, NoFetch
<1>3. NewestFrame' = NewestFrame
    BY <1>1 DEF NewestFrame
<1>4. ASSUME Quiet', fetch.upTo >= unheard
      PROVE  Accurate(board, Reached)'
    <2>1. next - 1 <= fetch.upTo
        <3>1. fetch.upTo \in Nat /\ unheard \in Nat
            BY <1>1, AnswerRange DEF BInv, Inv, TypeOK
        <3>2. ~reload /\ ~missed /\ ~interrupted
            BY <1>1, <1>4 DEF Quiet
        <3>3. ~(fetch.upTo < unheard)
            BY <1>4, <3>1
        <3> QED BY <1>1, <3>2, <3>3 DEF BInv, AnswerAccurate
    <2>2. Reached' = fetch.upTo
        BY <1>1, <2>1, AnswerRange DEF Reached
    <2>3. Accurate(fetch, fetch.upTo)
        BY <1>1 DEF BInv, AnswerAccurate
    <2> QED BY <1>1, <2>2, <2>3, SameLog DEF Accurate
<1>5. BoardAccurate'
    BY <1>1, <1>3, <1>4 DEF BInv, AnswerAccurate, BoardAccurate
<1> QED BY <1>2, <1>5

(* Nothing that was on screen or on its way is taken for new.                 *)
LEMMA OthersBoard ==
    ASSUME BInv, Fetches \/ FetchFails \/ Retry \/ Breaks
    PROVE  AnswerAccurate' /\ BoardAccurate'
<1>1. UNCHANGED <<db, log, unheard>> /\ NewestFrame' = NewestFrame
    BY DEF Fetches, FetchFails, Retry, Breaks, noticeVars, NewestFrame
<1>2. CASE Fetches
    BY <1>1, <1>2 DEF Fetches, BInv, AnswerAccurate, BoardAccurate, Quiet, NoFetch
<1>3. CASE FetchFails
    BY <1>1, <1>3 DEF FetchFails, AnswerAccurate, BoardAccurate, Failed, NoFetch
<1>4. CASE Retry
    BY <1>1, <1>4, SameLog
       DEF Retry, streamVars, BInv, AnswerAccurate, Accurate, BoardAccurate, Quiet
<1>5. CASE Breaks
    BY <1>1, <1>5, SameLog
       DEF Breaks, boardVars, BInv, AnswerAccurate, Accurate, BoardAccurate, Quiet
<1> QED BY <1>2, <1>3, <1>4, <1>5

(* A first connection brings the frames after the newest; any other is an     *)
(* interruption until it opens, and then asks for a read.                     *)
LEMMA ConnectsBoard ==
    ASSUME BInv, Connects
    PROVE  AnswerAccurate' /\ BoardAccurate'
<1>1. /\ UNCHANGED <<db, log, interrupted, board, fetch, missed, reload>>
      /\ next = 0 /\ next' \in 1..(NewestFrame + 1) /\ NewestFrame \in Nat
      /\ unheard' = IF interrupted THEN unheard ELSE NewestFrame
    BY DEF Connects, boardVars, BInv, Inv, TypeOK, NewestFrame
<1>2. NewestFrame' = NewestFrame
    BY <1>1 DEF NewestFrame
<1>3. AnswerAccurate'
    <2> SUFFICES ASSUME fetch.kind = "ready" PROVE AnswerAccurate'
        BY <1>1 DEF AnswerAccurate
    <2>1. Accurate(fetch, fetch.upTo)'
        BY <1>1, SameLog DEF BInv, AnswerAccurate, Accurate
    <2>2. interrupted \/ next' - 1 <= fetch.upTo \/ fetch.upTo < unheard'
        BY <1>1, AnswerRange
    <2> QED BY <1>1, <1>2, <2>1, <2>2 DEF BInv, AnswerAccurate
<1>4. BoardAccurate'
    <2> SUFFICES ASSUME board.kind = "ready", Quiet, ~board.restated, board.upTo >= unheard'
                 PROVE  Accurate(board, Reached)'
        BY <1>1, <1>2 DEF BInv, BoardAccurate, Quiet
    <2>0. ~interrupted
        BY DEF Quiet
    <2>1. board.upTo = NewestFrame /\ unheard' = NewestFrame
        <3>1. unheard' = NewestFrame
            BY <1>1, <2>0
        <3>2. board.upTo \in 0..NewestFrame /\ NewestFrame \in Nat
            BY BoardRange
        <3> QED BY <3>1, <3>2
    <2>2. Reached = board.upTo /\ Reached' = board.upTo
        <3>a. next = 0 /\ next' \in 1..(NewestFrame + 1) /\ NewestFrame \in Nat
            BY <1>1
        <3>b. ~(next - 1 > NewestFrame)
            BY <3>a
        <3>c. ~(next' - 1 > NewestFrame)
            <4>1. ASSUME NEW n \in Nat, NEW m \in 1..(n + 1) PROVE ~(m - 1 > n)
                OBVIOUS
            <4> QED BY <3>a, <4>1
        <3>1. board' = board /\ ~(next - 1 > board.upTo) /\ ~(next' - 1 > board.upTo)
            BY <1>1, <2>1, <3>b, <3>c
        <3> QED BY <3>1 DEF Reached
    <2>3. unheard <= NewestFrame
        BY <1>1 DEF BInv, Inv, TypeOK
    <2>4. Accurate(board, board.upTo)
        BY <1>1, <2>0, <2>1, <2>2, <2>3 DEF BInv, BoardAccurate
    <2> QED BY <1>1, <2>2, <2>4, SameLog DEF Accurate
<1> QED BY <1>3, <1>4

LEMMA OpensBoard ==
    ASSUME BInv, Opens
    PROVE  AnswerAccurate' /\ BoardAccurate'
<1>1. /\ UNCHANGED <<db, log, next, board, fetch, missed, unheard>>
      /\ NewestFrame' = NewestFrame /\ interrupted' = FALSE
      /\ interrupted => reload' = TRUE
      /\ ~interrupted => reload' = reload
    BY DEF Opens, NewestFrame
<1>2. Reached' = Reached /\ (Quiet' => Quiet)
    BY <1>1 DEF Reached, Quiet, BInv, Inv, TypeOK
<1>3. AnswerAccurate'
    BY <1>1, SameLog DEF BInv, AnswerAccurate, Accurate
<1>4. BoardAccurate'
    BY <1>1, <1>2, SameLog DEF BInv, BoardAccurate, Accurate
<1> QED BY <1>3, <1>4

LEMMA TakesBoard ==
    ASSUME BInv, Takes
    PROVE  AnswerAccurate' /\ BoardAccurate'
<1> DEFINE frame == log[next]
<1>1. /\ UNCHANGED <<db, log, interrupted, fetch, unheard>> /\ NewestFrame' = NewestFrame
      /\ next \in 1..NewestFrame /\ next' = next + 1 /\ NewestFrame \in Nat
      /\ (fetch # NoFetch /\ frame # Ingested => missed')
      /\ (reload \/ Refuses(frame) => reload')
      /\ board' = IF Absorbs(frame) THEN Patched(frame, next) ELSE board
    <2>1. TypeOK /\ NewestFrame \in Nat
        BY NewestType DEF BInv, Inv
    <2>2. fetch # NoFetch /\ frame # Ingested => missed'
        BY DEF Takes, InTheAir
    <2>3. reload \/ Refuses(frame) => reload'
        BY DEF Takes
    <2> QED BY <2>1, <2>2, <2>3 DEF Takes, NewestFrame
<1>2. AnswerAccurate'
    <2>1. fetch.kind = "ready" => missed' \/ reload'
        BY <1>1 DEF Refuses, NoFetch
    <2> QED BY <1>1, <2>1, SameLog DEF BInv, AnswerAccurate, Accurate
<1>3. board'.kind = "ready" => board.kind = "ready" /\ board'.upTo = board.upTo
    BY <1>1 DEF Absorbs, Patched
<1>4. BoardAccurate'
    <2> SUFFICES ASSUME board'.kind = "ready", Quiet', ~board'.restated,
                        board'.upTo >= unheard, NoneIngested(Reached)'
                 PROVE  /\ board'.counts = CountsAt(Reached)'
                        /\ \A a \in Agents :
                             board'.applied[a] # Absent => board'.applied[a] = At(a, Reached)'
        BY <1>1, <1>3 DEF BInv, BoardAccurate, Accurate
    <2>1. board.kind = "ready" /\ board.upTo >= unheard /\ Quiet /\ ~Refuses(frame)
        BY <1>1, <1>3 DEF Quiet, BInv, Inv, TypeOK
    <2>2. board \in Snapshots /\ board.upTo \in 0..NewestFrame /\ TypeOK
        BY <2>1, BoardRange DEF BInv, Inv
    <2>3. PICK k \in Nat : k = next - 1
        BY <1>1
    <2>4. /\ k < NewestFrame /\ next = k + 1 /\ frame # Ingested /\ log[k + 1] = frame
        BY <1>1, <2>1, <2>3 DEF Refuses
    <2>5. /\ frame.agent \in Agents /\ frame.from \in Statuses /\ frame.to \in Statuses
          /\ frame.from # frame.to
          /\ At(frame.agent, k) = frame.from
          /\ \A a \in Agents : a # frame.agent => At(a, k) = At(a, k + 1)
          /\ NoneIngested(k + 1) => At(frame.agent, k + 1) = frame.to
        BY <1>1, <2>2, <2>4, AtNext DEF BInv, Chained
    <2>6. NoneIngested(k + 1) => NoneIngested(k)
        BY <1>1, <2>4 DEF NoneIngested
    <2>7. CASE Absorbs(frame)
        <3>1. board' = Patched(frame, next)
            BY <1>1, <2>7
        <3>2. ~board.restated /\ board.upTo < next
            <4>1. board'.restated = (board.restated \/ next <= board.upTo)
                BY <3>1 DEF Patched
            <4>2. ~board.restated /\ ~(next <= board.upTo)
                BY <4>1
            <4> QED BY <1>1, <2>2, <4>2
        <3>3. Reached = k /\ Reached' = k + 1
            BY <1>1, <1>3, <2>1, <2>2, <2>3, <3>2 DEF Reached
        <3>4. Accurate(board, k) /\ NoneIngested(k + 1) /\ NoneIngested(k)
            BY <1>1, <2>1, <2>6, <3>2, <3>3, SameLog DEF BInv, BoardAccurate
        <3>5. CountsAt(k + 1) = [CountsAt(k) EXCEPT ![frame.from] = @ - 1, ![frame.to] = @ + 1]
            BY <2>2, <2>4, <2>5, <3>4, CountsMove
        <3>6. board'.counts = CountsAt(k + 1)
            BY <3>1, <3>4, <3>5 DEF Patched, Accurate
        <3>7. \A a \in Agents :
                board'.applied[a] # Absent => board'.applied[a] = At(a, k + 1)
            BY <2>2, <2>5, <3>1, <3>4 DEF Patched, Accurate, Snapshots
        <3> QED BY <1>1, <3>3, <3>6, <3>7, SameLog
    <2>8. CASE ~Absorbs(frame)
        <3>1. board' = board /\ board.applied[frame.agent] = frame.to
            BY <1>1, <2>1, <2>4, <2>8 DEF Absorbs, Refuses, Repeats
        <3>2. CASE next <= board.upTo
            <4>1. Reached = board.upTo /\ Reached' = board.upTo
                BY <1>1, <2>2, <3>1, <3>2 DEF Reached
            <4> QED BY <1>1, <2>1, <3>1, <4>1, SameLog DEF BInv, BoardAccurate, Accurate
        <3>3. CASE next > board.upTo
            <4>1. Reached = k /\ Reached' = k + 1
                BY <1>1, <2>2, <2>3, <3>1, <3>3 DEF Reached
            <4>2. Accurate(board, k) /\ NoneIngested(k)
                BY <1>1, <2>1, <2>6, <3>1, <4>1, SameLog DEF BInv, BoardAccurate
            <4>3. frame.to = At(frame.agent, k)
                BY <2>5, <3>1, <4>2, BoardAssumption DEF Accurate, BoardAssumption
            <4> QED BY <2>5, <4>3
        <3> QED BY <1>1, <2>2, <3>2, <3>3
    <2> QED BY <2>7, <2>8
<1> QED BY <1>2, <1>4

LEMMA NextBoard == BInv /\ [Next]_vars => BInv'
<1> SUFFICES ASSUME BInv, [Next]_vars PROVE BInv'
    OBVIOUS
<1>1. Inv'
    BY TypeStep, NoticeStep, BoardAssumption DEF BInv, Inv
<1>2. (interrupted => stream # "open")'
    BY DEF BInv, Next, Moves, Projected, Answers, Fetches, Lands, FetchFails, Retry, Connects,
       Opens, Breaks, Takes, vars, streamVars
<1>3. CASE UNCHANGED vars
    BY <1>1, <1>2, <1>3, SameLog
       DEF vars, streamVars, boardVars, noticeVars, BInv, AnswerAccurate, BoardAccurate, Accurate,
           Reached, Quiet, NewestFrame
<1>4. CASE Next
    <2>1. Chained' \/ UNCHANGED <<db, log>>
        BY <1>4, MovesBoard, ProjectedBoard
           DEF Next, Answers, Fetches, Lands, FetchFails, Retry, Connects, Opens, Breaks, Takes
    <2>2. Chained'
        BY <2>1, SameLog DEF BInv
    <2>3. AnswerAccurate' /\ BoardAccurate'
        BY <1>4, MovesBoard, ProjectedBoard, AnswersBoard, LandsBoard, OthersBoard, ConnectsBoard,
           OpensBoard, TakesBoard DEF Next
    <2> QED BY <1>1, <1>2, <2>2, <2>3 DEF BInv
<1> QED BY <1>3, <1>4

(* A settled board shows what the database holds, for any number of agents,   *)
(* frames, reads and reconnections in any order, the two cases apart that     *)
(* BoardCurrent names (LiveView.tsx: reload, missedWhileLoadingRef;           *)
(* live-model.ts: applyAgentStatusChange).                                    *)
THEOREM BoardIsCurrent == ReadersSpec => []BoardCurrent
<1>1. ReadersInit => BInv
    BY InitBoard DEF ReadersInit, BoardParked
<1>2. BInv /\ [ReadersNext]_<<subject, vars, rereading, installed>> => BInv'
    BY NextBoard DEF ReadersNext
<1>3. BInv => BoardCurrent
    <2> SUFFICES ASSUME BInv, Settled, ~board.restated, board.upTo >= unheard
                 PROVE  board.counts = Counts
        BY DEF BoardCurrent
    <2>1. Quiet /\ board.kind = "ready"
        BY DEF Settled, Quiet, BInv, Inv, TypeOK
    <2>2. Reached = NewestFrame
        BY <2>1, BoardRange DEF Settled, Reached
    <2>3. NoneIngested(NewestFrame) /\ CountsAt(NewestFrame) = Counts
        BY <2>1, BoardRange, AtNewest DEF NoneIngested, BInv, Inv
    <2> QED BY <2>1, <2>2, <2>3 DEF BInv, BoardAccurate, Accurate
<1> QED BY <1>1, <1>2, <1>3, PTL DEF ReadersSpec
----------------------------------------------------------------------------
(* The installer.  A backup gets the first free name.                         *)
LEMMA BackupNameIsFree ==
    ASSUME NEW t, Hooks!FreeNames(t) # {}
    PROVE  Hooks!BackupName(t) \notin DOMAIN backups
<1>1. PICK n \in Hooks!FreeNames(t) : \A m \in Hooks!FreeNames(t) : n <= m
    <2>1. Hooks!FreeNames(t) \in SUBSET Nat
        BY DEF Hooks!FreeNames
    <2> QED BY <2>1, LeastNumber
<1>2. PICK k \in Hooks!FreeNames(t) : Hooks!BackupName(t) = <<t, k>>
    BY <1>1 DEF Hooks!BackupName
<1> QED BY <1>2 DEF Hooks!FreeNames

(* A run that is about to replace what it found, and is still alone with it,  *)
(* has copied it: so the rename loses nothing, however long ago the copy was. *)
RunFields == {"pc", "remove", "option", "read", "existed", "result", "alone"}
RunsShaped == DOMAIN run = Runs /\ \A p \in Runs : DOMAIN run[p] = RunFields
BackedUp(c) == \E n \in DOMAIN backups : backups[n] = c
CopiedFirst ==
    \A p \in Runs :
        run[p].pc \in {"write", "fill", "rename"} /\ run[p].existed /\ run[p].alone =>
            BackedUp(file)

CopyInv == RunsShaped /\ CopiedFirst /\ Recoverable

LEMMA InitCopy == Hooks!Init => CopyInv
<1> SUFFICES ASSUME Hooks!Init PROVE CopyInv
    OBVIOUS
<1>1. run = [p \in Runs |-> Hooks!Idle] /\ replaced = {}
    BY DEF Hooks!Init
<1>2. DOMAIN Hooks!Idle = RunFields /\ Hooks!Idle.pc = "idle"
    BY DEF Hooks!Idle, RunFields
<1> QED BY <1>1, <1>2 DEF CopyInv, RunsShaped, CopiedFirst, Recoverable, Hooks!Recoverable

(* Steps of a run that neither write the file nor end in a rename.            *)
LEMMA QuietRun ==
    ASSUME CopyInv, NEW p \in Runs, UNCHANGED <<file, backups, replaced>>,
           NEW r, run' = [run EXCEPT ![p] = r], DOMAIN r = RunFields,
           \/ r.pc \notin {"write", "fill", "rename"}
           \/ ~r.existed
           \/ /\ run[p].pc \in {"write", "fill", "rename"}
              /\ r.existed = run[p].existed /\ r.alone = run[p].alone
    PROVE  CopyInv'
<1>1. RunsShaped'
    BY DEF CopyInv, RunsShaped
<1>2. \A q \in Runs : run'[q] = IF q = p THEN r ELSE run[q]
    BY DEF CopyInv, RunsShaped
<1>3. CopiedFirst'
    BY <1>2 DEF CopyInv, CopiedFirst, BackedUp
<1>4. Recoverable'
    BY DEF CopyInv, Recoverable, Hooks!Recoverable
<1> QED BY <1>1, <1>3, <1>4 DEF CopyInv

LEMMA QuietSteps ==
    ASSUME CopyInv, NEW p \in Runs,
           \/ \E option \in Options : Hooks!Start(p, FALSE, option)
           \/ Hooks!Start(p, TRUE, Hooks!Idle.option)
           \/ Hooks!Compare(p) \/ Hooks!DryRun(p) \/ Hooks!Open(p) \/ Hooks!Fill(p)
           \/ Hooks!WriteFails(p) \/ Hooks!Crash(p)
    PROVE  CopyInv'
<1>1. DOMAIN Hooks!Idle = RunFields /\ Hooks!Idle.pc = "idle"
    BY DEF Hooks!Idle, RunFields
<1>2. DOMAIN run = Runs /\ DOMAIN run[p] = RunFields
    BY DEF CopyInv, RunsShaped
<1>3. ASSUME NEW remove, NEW option, Hooks!Start(p, remove, option) PROVE CopyInv'
    <2>1. UNCHANGED <<file, backups, replaced>>
        BY <1>3 DEF Hooks!Start
    <2>2. CASE run' = run
        BY <2>1, <2>2 DEF CopyInv, RunsShaped, CopiedFirst, BackedUp, Recoverable, Hooks!Recoverable
    <2>3. CASE run' # run
        <3> DEFINE r == [Hooks!Idle EXCEPT !.pc = "read", !.remove = remove, !.option = option,
                           !.read = IF file = Hooks!NoFile THEN Hooks!Empty ELSE file]
        <3>1. run' = [run EXCEPT ![p] = r]
            BY <1>3, <2>3 DEF Hooks!Start
        <3>2. DOMAIN r = RunFields /\ r.pc = "read"
            BY <1>1 DEF RunFields
        <3> HIDE DEF r
        <3> QED BY <2>1, <3>1, <3>2, QuietRun
    <2> QED BY <2>2, <2>3
<1>4. CASE Hooks!Compare(p)
    <2>1. UNCHANGED <<file, backups, replaced>>
        BY <1>4 DEF Hooks!Compare
    <2>2. CASE Hooks!NothingToDo(run[p])
        BY <1>1, <1>4, <2>1, <2>2, QuietRun DEF Hooks!Compare
    <2>3. CASE ~Hooks!NothingToDo(run[p])
        <3> DEFINE r == [run[p] EXCEPT !.pc = IF file = Hooks!NoFile THEN "write" ELSE "backup",
                           !.existed = file # Hooks!NoFile,
                           !.result = Hooks!Transform(run[p]), !.alone = TRUE]
        <3>1. run' = [run EXCEPT ![p] = r]
            BY <1>2, <1>4, <2>3 DEF Hooks!Compare
        <3>2. DOMAIN r = RunFields /\ (r.pc = "backup" \/ ~r.existed)
            BY <1>2 DEF RunFields
        <3> HIDE DEF r
        <3> QED BY <2>1, <3>1, <3>2, QuietRun
    <2> QED BY <2>2, <2>3
<1>5. CASE Hooks!DryRun(p) \/ Hooks!WriteFails(p) \/ Hooks!Crash(p)
    BY <1>1, <1>5, QuietRun DEF Hooks!DryRun, Hooks!WriteFails, Hooks!Crash, Hooks!End
<1>6. ASSUME NEW pc, Hooks!Step(p, pc), run[p].pc \in {"write", "fill", "rename"},
             UNCHANGED <<file, backups, replaced>>
      PROVE  CopyInv'
    <2> DEFINE r == [run[p] EXCEPT !.pc = pc]
    <2>1. run' = [run EXCEPT ![p] = r]
        BY <1>2, <1>6 DEF Hooks!Step
    <2>2. DOMAIN r = RunFields /\ r.existed = run[p].existed /\ r.alone = run[p].alone
        BY <1>2 DEF RunFields
    <2> HIDE DEF r
    <2> QED BY <1>6, <2>1, <2>2, QuietRun
<1>7. CASE Hooks!Open(p) \/ Hooks!Fill(p)
    BY <1>6, <1>7 DEF Hooks!Open, Hooks!Fill, Hooks!At
<1> QED BY <1>3, <1>4, <1>5, <1>7

LEMMA BackupCopy ==
    ASSUME CopyInv, NEW p \in Runs, NEW t, Hooks!Backup(p, t)
    PROVE  CopyInv'
<1>1. CASE file = Hooks!NoFile \/ Hooks!FreeNames(t) = {}
    <2>1. DOMAIN Hooks!Idle = RunFields /\ Hooks!Idle.pc = "idle"
        BY DEF Hooks!Idle, RunFields
    <2> QED BY <1>1, <2>1, QuietRun DEF Hooks!Backup, Hooks!End
<1>2. CASE ~(file = Hooks!NoFile \/ Hooks!FreeNames(t) = {})
    <2>1. /\ backups' = [n \in DOMAIN backups \cup {Hooks!BackupName(t)} |->
                           IF n = Hooks!BackupName(t) THEN file ELSE backups[n]]
          /\ run' = [run EXCEPT ![p].pc = "write", ![p].alone = TRUE]
          /\ UNCHANGED <<file, replaced>>
        BY <1>2 DEF Hooks!Backup
    <2>2. Hooks!BackupName(t) \notin DOMAIN backups
        BY <1>2, BackupNameIsFree
    <2>3. BackedUp(file)' /\ \A c : BackedUp(c) => BackedUp(c)'
        BY <2>1, <2>2 DEF BackedUp
    <2>4. RunsShaped'
        BY <2>1 DEF CopyInv, RunsShaped, RunFields
    <2>5. CopiedFirst'
        BY <2>3 DEF CopiedFirst
    <2>6. Recoverable'
        BY <2>1, <2>3 DEF CopyInv, Recoverable, Hooks!Recoverable, BackedUp
    <2> QED BY <2>4, <2>5, <2>6 DEF CopyInv
<1> QED BY <1>1, <1>2

(* After a write of anybody, no other run is alone with what it copied.       *)
LEMMA RenameCopy ==
    ASSUME CopyInv, NEW p \in Runs, Hooks!Rename(p)
    PROVE  CopyInv'
<1>1. /\ run' = [Hooks!NoLongerAlone(run) EXCEPT ![p] = Hooks!Idle]
      /\ backups' = backups /\ run[p].pc = "rename"
      /\ replaced' = IF run[p].existed /\ run[p].alone THEN replaced \cup {file} ELSE replaced
    BY DEF Hooks!Rename, Hooks!At
<1>2. \A q \in Runs :
        /\ DOMAIN run'[q] = RunFields
        /\ run'[q].pc = "idle" \/ run'[q].alone = FALSE
    BY <1>1 DEF Hooks!NoLongerAlone, Hooks!Idle, CopyInv, RunsShaped, RunFields
<1>3. RunsShaped' /\ CopiedFirst'
    BY <1>1, <1>2 DEF RunsShaped, CopiedFirst, Hooks!NoLongerAlone
<1>4. Recoverable'
    BY <1>1 DEF CopyInv, CopiedFirst, BackedUp, Recoverable, Hooks!Recoverable
<1> QED BY <1>3, <1>4 DEF CopyInv

LEMMA EditCopy ==
    ASSUME CopyInv, NEW c, Hooks!Edit(c)
    PROVE  CopyInv'
<1>1. run' = Hooks!NoLongerAlone(run) /\ UNCHANGED <<backups, replaced>>
    BY DEF Hooks!Edit
<1>2. \A q \in Runs : DOMAIN run'[q] = RunFields /\ run'[q].alone = FALSE
    BY <1>1 DEF Hooks!NoLongerAlone, CopyInv, RunsShaped, RunFields
<1>3. RunsShaped' /\ CopiedFirst'
    BY <1>1, <1>2 DEF RunsShaped, CopiedFirst, Hooks!NoLongerAlone
<1>4. Recoverable'
    BY <1>1 DEF CopyInv, Recoverable, Hooks!Recoverable
<1> QED BY <1>3, <1>4 DEF CopyInv

LEMMA NextCopy == CopyInv /\ [Hooks!Next]_installed => CopyInv'
<1> SUFFICES ASSUME CopyInv, [Hooks!Next]_installed PROVE CopyInv'
    OBVIOUS
<1>1. CASE UNCHANGED installed
    BY <1>1 DEF installed, CopyInv, RunsShaped, CopiedFirst, BackedUp, Recoverable,
       Hooks!Recoverable
<1>2. CASE Hooks!Next
    BY <1>2, QuietSteps, BackupCopy, RenameCopy, EditCopy DEF Hooks!Next
<1> QED BY <1>1, <1>2

(* What a run of the installer replaced, and nobody had written since it was  *)
(* copied, is in a backup: whatever other runs, the owner of the file and     *)
(* crashes do between the copy and the rename, and however many runs back up  *)
(* in one millisecond (install.mjs: copyToFreeBackupName, writeSettingsAtomically).*)
THEOREM ReplacedIsRecoverable == ReadersSpec => []Recoverable
<1> DEFINE RInv == IF subject = "installer" THEN CopyInv ELSE replaced = {}
<1>1. RInv => Recoverable
    BY DEF CopyInv, Recoverable, Hooks!Recoverable
<1>2. ReadersInit => RInv
    BY InitCopy DEF ReadersInit, InstallerParked
<1>3. RInv /\ [ReadersNext]_<<subject, vars, rereading, installed>> => RInv'
    BY NextCopy DEF ReadersNext, installed
<1> HIDE DEF RInv
<1> QED BY <1>1, <1>2, <1>3, PTL DEF ReadersSpec

----------------------------------------------------------------------------
(* What a filter leaves.  The places below a place of a finite set count up,  *)
(* so that each rank belongs to one place.                                    *)
Below(places, i) == {j \in places : j < i}
Rank(places, i) == Cardinality(Below(places, i))

LEMMA RankIncreases ==
    ASSUME NEW places \in SUBSET Nat, IsFiniteSet(places),
           NEW i \in places, NEW j \in places, i < j
    PROVE  Rank(places, i) < Rank(places, j)
<1>1. Below(places, i) \in SUBSET Below(places, j)
    <2>1. \A k \in Nat : k < i => k < j
        OBVIOUS
    <2> QED BY <2>1 DEF Below
<1>2. IsFiniteSet(Below(places, j))
    BY FS_Subset DEF Below
<1>3. i \in Below(places, j) /\ i \notin Below(places, i)
    BY DEF Below
<1>4. /\ Cardinality(Below(places, i)) \in Nat /\ Cardinality(Below(places, j)) \in Nat
      /\ Cardinality(Below(places, i)) <= Cardinality(Below(places, j))
      /\ Cardinality(Below(places, j)) = Cardinality(Below(places, i)) =>
           Below(places, j) = Below(places, i)
    BY <1>1, <1>2, FS_Subset, FS_CardinalityType
<1> QED BY <1>3, <1>4 DEF Rank

LEMMA RankInjective ==
    ASSUME NEW places \in SUBSET Nat, IsFiniteSet(places),
           NEW i \in places, NEW j \in places, Rank(places, i) = Rank(places, j)
    PROVE  i = j
<1>1. i < j \/ j < i \/ i = j
    OBVIOUS
<1>2. Rank(places, i) \in Nat
    BY FS_Subset, FS_CardinalityType DEF Rank, Below
<1>3. i < j => FALSE
    BY <1>2, RankIncreases
<1>4. j < i => FALSE
    BY <1>2, RankIncreases
<1> QED BY <1>1, <1>3, <1>4

LEMMA RankRange ==
    ASSUME NEW places \in SUBSET Nat, IsFiniteSet(places), NEW i \in places
    PROVE  Rank(places, i) \in 0..(Cardinality(places) - 1)
<1>1. Below(places, i) \in SUBSET places /\ i \notin Below(places, i)
    BY DEF Below
<1>2. /\ Cardinality(Below(places, i)) \in Nat /\ Cardinality(places) \in Nat
      /\ Cardinality(Below(places, i)) <= Cardinality(places)
      /\ Cardinality(places) = Cardinality(Below(places, i)) => places = Below(places, i)
    BY <1>1, FS_Subset, FS_CardinalityType
<1> QED BY <1>1, <1>2 DEF Rank

LEMMA NthPlace ==
    ASSUME NEW places \in SUBSET Nat, IsFiniteSet(places), NEW k \in 1..Cardinality(places)
    PROVE  Nth(places, k) \in places /\ Rank(places, Nth(places, k)) = k - 1
<1> DEFINE ranks == 1..Cardinality(places)
           rank == [i \in places |-> Rank(places, i) + 1]
<1>1. Cardinality(places) \in Nat
    BY FS_CardinalityType
<1>2. rank \in Injection(places, ranks)
    <2>1. \A i \in places : Rank(places, i) + 1 \in ranks
        BY <1>1, RankRange
    <2>2. \A i, j \in places : Rank(places, i) + 1 = Rank(places, j) + 1 => i = j
        <3>1. \A i \in places : Rank(places, i) \in Int
            BY RankRange
        <3> QED BY <3>1, RankInjective
    <2>3. rank \in [places -> ranks]
        BY <2>1
    <2>4. \A i, j \in places : rank[i] = rank[j] => i = j
        BY <2>2
    <2> HIDE DEF rank, ranks
    <2> QED BY <2>3, <2>4 DEF Injection, IsInjective
<1>3. IsFiniteSet(ranks) /\ Cardinality(ranks) = Cardinality(places)
    BY <1>1, FS_Interval
<1>4. rank \in Surjection(places, ranks)
    <2> HIDE DEF rank, ranks
    <2> QED BY <1>2, <1>3, FS_Injection
<1>5. \E i \in places : rank[i] = k
    <2> HIDE DEF rank
    <2> QED BY <1>4 DEF Surjection
<1>6. \A i \in places : Rank(places, i) \in Int
    BY RankRange
<1>7. PICK i \in places : Rank(places, i) = k - 1
    BY <1>5, <1>6
<1> QED BY <1>7 DEF Nth, Rank, Below

LEMMA PlaceOfRank ==
    ASSUME NEW places \in SUBSET Nat, IsFiniteSet(places), NEW i \in places
    PROVE  Nth(places, Rank(places, i) + 1) = i
<1> DEFINE k == Rank(places, i) + 1
<1>1. Cardinality(places) \in Nat
    BY FS_CardinalityType
<1>2. k \in 1..Cardinality(places) /\ k - 1 = Rank(places, i)
    BY <1>1, RankRange
<1> HIDE DEF k
<1>3. Nth(places, k) \in places /\ Rank(places, Nth(places, k)) = Rank(places, i)
    BY <1>2, NthPlace
<1>4. PICK j \in places : j = Nth(places, k)
    BY <1>3
<1>5. Rank(places, j) = Rank(places, i)
    BY <1>3, <1>4
<1>6. j = i
    BY <1>5, RankInjective
<1> QED BY <1>4, <1>6 DEF k

LEMMA KeptElements ==
    ASSUME NEW S, NEW list \in Seq(S), NEW places \in SUBSET DOMAIN list
    PROVE  /\ IsFiniteSet(places) /\ Cardinality(places) \in Nat
           /\ Kept(list, places) \in Seq(S)
           /\ Len(Kept(list, places)) = Cardinality(places)
           /\ \A k \in 1..Cardinality(places) :
                Nth(places, k) \in places /\ Kept(list, places)[k] = list[Nth(places, k)]
<1>1. DOMAIN list = 1..Len(list) /\ Len(list) \in Nat
    OBVIOUS
<1>2. IsFiniteSet(places) /\ Cardinality(places) \in Nat /\ places \in SUBSET Nat
    <2>1. IsFiniteSet(1..Len(list)) /\ places \in SUBSET (1..Len(list))
        BY <1>1, FS_Interval
    <2>2. IsFiniteSet(places)
        BY <2>1, FS_Subset
    <2> QED BY <2>1, <2>2, FS_CardinalityType
<1>3. \A k \in 1..Cardinality(places) : Nth(places, k) \in places
    BY <1>2, NthPlace
<1>4. \A k \in 1..Cardinality(places) : list[Nth(places, k)] \in S
    BY <1>1, <1>3
<1> QED BY <1>2, <1>3, <1>4 DEF Kept

(* Nothing moves that stands before all that goes.                            *)
LEMMA NthOfInterval ==
    ASSUME NEW n \in Nat, NEW k \in 1..n
    PROVE  Nth(1..n, k) = k
<1>1. Below(1..n, k) = 1..(k - 1)
    BY DEF Below
<1>2. Rank(1..n, k) = k - 1
    BY <1>1, FS_Interval DEF Rank
<1>3. IsFiniteSet(1..n) /\ 1..n \in SUBSET Nat
    BY FS_Interval
<1>4. Nth(1..n, Rank(1..n, k) + 1) = k
    BY <1>3, PlaceOfRank
<1>5. Rank(1..n, k) + 1 = k
    BY <1>2
<1> QED BY <1>4, <1>5

LEMMA KeptWhole ==
    ASSUME NEW S, NEW list \in Seq(S)
    PROVE  Kept(list, DOMAIN list) = list
<1>1. DOMAIN list = 1..Len(list) /\ Len(list) \in Nat
    OBVIOUS
<1>2. PICK n \in Nat : n = Len(list)
    BY <1>1
<1>3. Cardinality(1..n) = n
    BY FS_Interval
<1>4. Kept(list, 1..n) = [k \in 1..n |-> list[k]]
    BY <1>3, NthOfInterval DEF Kept
<1> QED BY <1>1, <1>2, <1>4

LEMMA KeptFront ==
    ASSUME NEW list, NEW n \in Nat
    PROVE  Kept(list, 1..n) = [k \in 1..n |-> list[k]]
<1>1. Cardinality(1..n) = n
    BY FS_Interval
<1> QED BY <1>1, NthOfInterval DEF Kept

----------------------------------------------------------------------------
(* The lists of hooks.  What has none of our commands is left alone, and one  *)
(* of ours appended to it is all that goes.                                   *)
LEMMA SameSize == \A P : Hooks!Cardinality(P) = Cardinality(P)
    BY DEF Hooks!Cardinality, Cardinality

LEMMA SameKept == \A list, places : Hooks!Kept(list, places) = Kept(list, places)
<1> TAKE list, places
<1>1. \A k : Hooks!Nth(places, k) = Nth(places, k)
    BY SameSize DEF Hooks!Nth, Nth
<1> QED BY <1>1, SameSize DEF Hooks!Kept, Kept

Clean(entries) ==
    \A k \in DOMAIN entries : \A j \in DOMAIN entries[k] : entries[k][j] \notin Options

LEMMA ForeignOnly ==
    ASSUME NEW S, NEW entry \in Seq(S)
    PROVE  /\ Kept(entry, Hooks!ForeignHooks(entry)) \in Seq(S)
           /\ \A j \in DOMAIN Kept(entry, Hooks!ForeignHooks(entry)) :
                Kept(entry, Hooks!ForeignHooks(entry))[j] \notin Options
<1> DEFINE foreign == Hooks!ForeignHooks(entry)
<1>1. foreign \in SUBSET DOMAIN entry /\ \A j \in foreign : entry[j] \notin Options
    BY DEF Hooks!ForeignHooks, Hooks!IsOurs
<1> HIDE DEF foreign
<1>2. /\ Kept(entry, foreign) \in Seq(S)
      /\ Len(Kept(entry, foreign)) = Cardinality(foreign)
      /\ \A k \in 1..Cardinality(foreign) :
           Nth(foreign, k) \in foreign /\ Kept(entry, foreign)[k] = entry[Nth(foreign, k)]
    BY <1>1, KeptElements
<1>3. DOMAIN Kept(entry, foreign) = 1..Cardinality(foreign)
    BY <1>2
<1>4. \A j \in DOMAIN Kept(entry, foreign) : Kept(entry, foreign)[j] \notin Options
    BY <1>1, <1>2, <1>3
<1> QED BY <1>2, <1>4 DEF foreign

LEMMA PrunedClean ==
    ASSUME NEW S, NEW entries \in Seq(Seq(S))
    PROVE  Hooks!PruneEventEntries(entries) \in Seq(Seq(S))
           /\ Clean(Hooks!PruneEventEntries(entries))
<1> DEFINE surviving == Hooks!Surviving(entries)
           kept == Kept(entries, surviving)
           pruned == [k \in DOMAIN kept |-> Kept(kept[k], Hooks!ForeignHooks(kept[k]))]
<1>1. Hooks!PruneEventEntries(entries) = pruned
    BY SameKept DEF Hooks!PruneEventEntries
<1>2. surviving \in SUBSET DOMAIN entries
    BY DEF Hooks!Surviving
<1>3. kept \in Seq(Seq(S))
    <2> HIDE DEF surviving
    <2> QED BY <1>2, KeptElements
<1> HIDE DEF kept
<1>4. DOMAIN kept = 1..Len(kept) /\ Len(kept) \in Nat /\ \A k \in DOMAIN kept : kept[k] \in Seq(S)
    BY <1>3
<1>5. \A k \in DOMAIN kept :
        /\ pruned[k] \in Seq(S)
        /\ \A j \in DOMAIN pruned[k] : pruned[k][j] \notin Options
    BY <1>4, ForeignOnly
<1>6. pruned \in Seq(Seq(S)) /\ DOMAIN pruned = DOMAIN kept
    BY <1>4, <1>5
<1> QED BY <1>1, <1>5, <1>6 DEF Clean

(* The entries before ours, where nothing is of ours.                         *)
OursAfter(entries, n) ==
    /\ \A k \in 1..n : \A j \in DOMAIN entries[k] : entries[k][j] \notin Options
    /\ \A k \in (n + 1)..Len(entries) :
         entries[k] # << >> /\ \A j \in DOMAIN entries[k] : entries[k][j] \in Options

LEMMA PrunedFront ==
    ASSUME NEW S, NEW entries \in Seq(Seq(S)), NEW n \in 0..Len(entries),
           OursAfter(entries, n)
    PROVE  Hooks!PruneEventEntries(entries) = [k \in 1..n |-> entries[k]]
<1> DEFINE kept == [k \in 1..n |-> entries[k]]
<1>1. DOMAIN entries = 1..Len(entries) /\ Len(entries) \in Nat
      /\ \A k \in DOMAIN entries : entries[k] \in Seq(S)
    OBVIOUS
<1>2. \A k \in 1..n : Hooks!ForeignHooks(entries[k]) = DOMAIN entries[k]
    BY DEF OursAfter, Hooks!ForeignHooks, Hooks!IsOurs
<1>3. \A k \in (n + 1)..Len(entries) : Hooks!ForeignHooks(entries[k]) = {}
    BY DEF OursAfter, Hooks!ForeignHooks, Hooks!IsOurs
<1>4. Hooks!Surviving(entries) = 1..n
    <2>1. \A k \in 1..n : entries[k] = << >> \/ Hooks!ForeignHooks(entries[k]) # {}
        <3> SUFFICES ASSUME NEW k \in 1..n, entries[k] # << >> PROVE Hooks!ForeignHooks(entries[k]) # {}
            OBVIOUS
        <3>1. entries[k] \in Seq(S) /\ Len(entries[k]) # 0
            BY <1>1
        <3>2. 1 \in DOMAIN entries[k]
            BY <3>1
        <3> QED BY <1>2, <3>2
    <2>2. \A k \in (n + 1)..Len(entries) : ~(entries[k] = << >> \/ Hooks!ForeignHooks(entries[k]) # {})
        BY <1>3 DEF OursAfter
    <2>3. \A k \in 1..Len(entries) : k \in 1..n \/ k \in (n + 1)..Len(entries)
        BY <1>1
    <2>4. 1..n \subseteq 1..Len(entries)
        BY <1>1
    <2> QED BY <1>1, <2>1, <2>2, <2>3, <2>4 DEF Hooks!Surviving
<1>5. Kept(entries, 1..n) = kept
    BY KeptFront
<1>6. \A k \in 1..n : Kept(kept[k], Hooks!ForeignHooks(kept[k])) = kept[k]
    <2> SUFFICES ASSUME NEW k \in 1..n
                 PROVE  Kept(entries[k], Hooks!ForeignHooks(entries[k])) = entries[k]
        OBVIOUS
    <2>1. entries[k] \in Seq(S)
        BY <1>1
    <2> QED BY <1>2, <2>1, KeptWhole
<1>7. Hooks!PruneEventEntries(entries) = [k \in DOMAIN kept |-> Kept(kept[k], Hooks!ForeignHooks(kept[k]))]
    BY <1>4, <1>5, SameKept DEF Hooks!PruneEventEntries
<1> QED BY <1>6, <1>7

LEMMA PrunedAgain ==
    ASSUME NEW S, NEW entries \in Seq(Seq(S)), Clean(entries)
    PROVE  Hooks!PruneEventEntries(entries) = entries
<1>1. DOMAIN entries = 1..Len(entries) /\ Len(entries) \in Nat /\ Len(entries) \in 0..Len(entries)
    OBVIOUS
<1>2. \A k \in 1..Len(entries) : \A j \in DOMAIN entries[k] : entries[k][j] \notin Options
    BY <1>1 DEF Clean
<1>3. (Len(entries) + 1)..Len(entries) = {}
    BY <1>1
<1>4. Hooks!PruneEventEntries(entries) = [k \in 1..Len(entries) |-> entries[k]]
    BY <1>1, <1>2, <1>3, PrunedFront DEF OursAfter
<1> QED BY <1>1, <1>4

LEMMA PrunedWithOurs ==
    ASSUME NEW S, NEW entries \in Seq(Seq(S)), Clean(entries), NEW option \in Options \cap S
    PROVE  Hooks!PruneEventEntries(Append(entries, <<option>>)) = entries
<1> DEFINE more == Append(entries, <<option>>)
           n == Len(entries)
<1>1. DOMAIN entries = 1..n /\ n \in Nat
    OBVIOUS
<1>2. more \in Seq(Seq(S)) /\ Len(more) = n + 1 /\ more[n + 1] = <<option>>
      /\ \A k \in 1..n : more[k] = entries[k]
    OBVIOUS
<1> HIDE DEF more
<1>3. n \in 0..Len(more)
    BY <1>1, <1>2
<1>4. \A k \in 1..n : \A j \in DOMAIN more[k] : more[k][j] \notin Options
    BY <1>1, <1>2 DEF Clean
<1>5. \A k \in (n + 1)..Len(more) :
        more[k] # << >> /\ \A j \in DOMAIN more[k] : more[k][j] \in Options
    <2>1. \A k \in (n + 1)..Len(more) : k = n + 1
        BY <1>1, <1>2
    <2>2. <<option>> # << >> /\ \A j \in DOMAIN <<option>> : <<option>>[j] \in Options
        OBVIOUS
    <2> QED BY <1>2, <2>1, <2>2
<1> HIDE DEF n
<1>6. Hooks!PruneEventEntries(more) = [k \in 1..n |-> more[k]]
    <2>1. OursAfter(more, n)
        BY <1>4, <1>5 DEF OursAfter
    <2> QED BY <1>2, <1>3, <2>1, PrunedFront
<1>7. [k \in 1..n |-> more[k]] = entries
    BY <1>1, <1>2
<1> QED BY <1>6, <1>7 DEF more

(* What the file may hold, the installer's own results included; and what a   *)
(* run that is past its second look carries: the transform of what it read.   *)
Commands == Options \cup {"f", "p1", "x", "no list"}
Lists == Seq(Seq(Commands))
SettingsFields == {"kind", "shape", "hooks", "rest", "own"}
SettingsTyped(c) ==
    /\ DOMAIN c = SettingsFields
    /\ \A e \in DOMAIN c.hooks : c.hooks[e] \in Lists
    /\ c.shape = "other" => DOMAIN c.hooks = {}

LEMMA EntriesTyped ==
    ASSUME NEW c, SettingsTyped(c), NEW e
    PROVE  Hooks!EntriesOf(c, e) \in Lists
    BY DEF SettingsTyped, Hooks!EntriesOf, Lists

LEMMA PruneLaws ==
    ASSUME NEW entries \in Lists
    PROVE  LET pruned == Hooks!PruneEventEntries(entries)
           IN  /\ pruned \in Lists /\ Clean(pruned)
               /\ Hooks!PruneEventEntries(pruned) = pruned
               /\ \A option \in Options :
                    Hooks!PruneEventEntries(Append(pruned, <<option>>)) = pruned
<1> DEFINE pruned == Hooks!PruneEventEntries(entries)
<1>1. pruned \in Lists /\ Clean(pruned)
    BY PrunedClean DEF Lists
<1> HIDE DEF pruned
<1>2. Hooks!PruneEventEntries(pruned) = pruned
    BY <1>1, PrunedAgain DEF Lists
<1>3. \A option \in Options : Hooks!PruneEventEntries(Append(pruned, <<option>>)) = pruned
    <2> TAKE option \in Options
    <2>1. option \in Options \cap Commands
        BY DEF Commands
    <2> QED BY <1>1, <2>1, PrunedWithOurs DEF Lists
<1> QED BY <1>1, <1>2, <1>3 DEF pruned

LEMMA NoneOfOurs ==
    ASSUME NEW c, NEW e, Clean(Hooks!EntriesOf(c, e))
    PROVE  Hooks!OurCommands(c, e) = {}
    BY DEF Hooks!OurCommands, Clean, Hooks!IsOurs

LEMMA OneOfOurs ==
    ASSUME NEW c, NEW e, NEW entries \in Lists, Clean(entries), NEW option \in Options,
           Hooks!EntriesOf(c, e) = Append(entries, <<option>>)
    PROVE  Cardinality(Hooks!OurCommands(c, e)) = 1
<1> DEFINE more == Append(entries, <<option>>)
           n == Len(entries)
<1>1. /\ DOMAIN entries = 1..n /\ n \in Nat
      /\ DOMAIN more = 1..(n + 1) /\ more[n + 1] = <<option>>
      /\ \A k \in 1..n : more[k] = entries[k]
    BY DEF Lists
<1> HIDE DEF more
<1>2. \A k \in DOMAIN more, j \in 1..2 :
        j \in DOMAIN more[k] /\ more[k][j] \in Options <=> k = n + 1 /\ j = 1
    <2> TAKE k \in DOMAIN more, j \in 1..2
    <2>1. CASE k \in 1..n
        <3>1. ~(j \in DOMAIN more[k] /\ more[k][j] \in Options)
            BY <1>1, <2>1 DEF Clean
        <3> QED BY <1>1, <2>1, <3>1
    <2>2. CASE k = n + 1
        BY <1>1, <2>2
    <2> QED BY <1>1, <2>1, <2>2
<1>3. Hooks!OurCommands(c, e) =
        {at \in (DOMAIN more) \X (1..2) :
            at[2] \in DOMAIN more[at[1]] /\ more[at[1]][at[2]] \in Options}
    BY DEF Hooks!OurCommands, Hooks!IsOurs, more
<1>4. n + 1 \in DOMAIN more
    BY <1>1
<1> HIDE DEF n
<1>5. Hooks!OurCommands(c, e) = {<<n + 1, 1>>}
    BY <1>2, <1>3, <1>4
<1> QED BY <1>5, FS_Singleton

(* An install.                                                                *)
LEMMA InstallLeaves ==
    ASSUME NEW c, SettingsTyped(c), NEW option \in Options, ~Hooks!MergeRefused(c)
    PROVE  LET after == Hooks!MergeHooksIntoSettings(c, option)
           IN  /\ SettingsTyped(after)
               /\ \A e \in Wired : Cardinality(Hooks!OurCommands(after, e)) = 1
               /\ Hooks!ForeignPart(after) = Hooks!ForeignPart(c)
<1> DEFINE after == Hooks!MergeHooksIntoSettings(c, option)
           pruned(e) == Hooks!PruneEventEntries(Hooks!EntriesOf(c, e))
           merged == [e \in Wired \cup DOMAIN c.hooks |->
                        IF e \in Wired THEN Append(pruned(e), <<option>>) ELSE c.hooks[e]]
<1>1. /\ DOMAIN after = SettingsFields /\ after.rest = c.rest
      /\ after.shape = "object" /\ after.hooks = merged
    BY DEF Hooks!MergeHooksIntoSettings, SettingsTyped, SettingsFields
<1>2. \A e : /\ pruned(e) \in Lists /\ Clean(pruned(e))
             /\ Hooks!PruneEventEntries(pruned(e)) = pruned(e)
             /\ Hooks!PruneEventEntries(Append(pruned(e), <<option>>)) = pruned(e)
    BY EntriesTyped, PruneLaws
<1>3. \A e \in Wired : Append(pruned(e), <<option>>) \in Lists
    <2> TAKE e \in Wired
    <2>1. pruned(e) \in Lists
        BY <1>2
    <2>2. <<option>> \in Seq(Commands)
        <3>1. option \in Commands
            BY DEF Commands
        <3> HIDE DEF Commands
        <3> QED BY <3>1
    <2> HIDE DEF pruned, Commands
    <2> QED BY <2>1, <2>2 DEF Lists
<1> HIDE DEF after, pruned
<1>4. SettingsTyped(after)
    BY <1>1, <1>3 DEF SettingsTyped
<1>5. \A e \in Wired : Hooks!EntriesOf(after, e) = Append(pruned(e), <<option>>)
    BY <1>1 DEF Hooks!EntriesOf
<1>6. \A e \in Wired : Cardinality(Hooks!OurCommands(after, e)) = 1
    BY <1>2, <1>5, OneOfOurs
<1>7. \A e : e \notin Wired => Hooks!EntriesOf(after, e) = Hooks!EntriesOf(c, e)
    BY <1>1 DEF Hooks!EntriesOf
<1>8. \A e : Hooks!PruneEventEntries(Hooks!EntriesOf(after, e)) = pruned(e)
    BY <1>2, <1>5, <1>7 DEF pruned
<1>9. c.shape # "other"
    BY DEF Hooks!MergeRefused
<1>10. Hooks!ForeignPart(after) = Hooks!ForeignPart(c)
    BY <1>1, <1>8, <1>9 DEF Hooks!ForeignPart, pruned
<1> QED BY <1>4, <1>6, <1>10 DEF after

(* A removal: a list it emptied is gone, which counts as one with nothing in. *)
LEMMA RemovalLeaves ==
    ASSUME NEW c, SettingsTyped(c)
    PROVE  LET after == Hooks!RemoveAgenthropicHooks(c)
           IN  /\ SettingsTyped(after)
               /\ \A e \in Events : Hooks!OurCommands(after, e) = {}
               /\ Hooks!ForeignPart(after) = Hooks!ForeignPart(c)
<1> DEFINE after == Hooks!RemoveAgenthropicHooks(c)
           pruned(e) == Hooks!PruneEventEntries(Hooks!EntriesOf(c, e))
           left == {e \in DOMAIN c.hooks : ~Hooks!Emptied(c.hooks[e])}
<1>1. /\ DOMAIN after = SettingsFields /\ after.rest = c.rest
      /\ after.hooks = [e \in left |-> Hooks!PruneEventEntries(c.hooks[e])]
      /\ after.shape = IF left = {} /\ left # DOMAIN c.hooks THEN "none" ELSE c.shape
    BY DEF Hooks!RemoveAgenthropicHooks, SettingsTyped, SettingsFields
<1>2. \A e : /\ pruned(e) \in Lists /\ Clean(pruned(e))
             /\ Hooks!PruneEventEntries(pruned(e)) = pruned(e)
    BY EntriesTyped, PruneLaws
<1>3. \A e \in DOMAIN c.hooks : pruned(e) = Hooks!PruneEventEntries(c.hooks[e])
    BY DEF Hooks!EntriesOf
<1>4. \A e : e \notin left => pruned(e) = << >>
    <2>1. << >> \in Lists /\ Clean(<< >>)
        BY DEF Lists, Clean
    <2>2. Hooks!PruneEventEntries(<< >>) = << >>
        BY <2>1, PrunedAgain DEF Lists
    <2> QED BY <1>3, <2>2 DEF Hooks!Emptied, Hooks!EntriesOf
<1> HIDE DEF after, pruned
<1>5. \A e : Hooks!EntriesOf(after, e) = pruned(e)
    <2>1. \A e \in left : e \in DOMAIN after.hooks /\ after.hooks[e] = pruned(e)
        BY <1>1, <1>3
    <2>2. DOMAIN after.hooks = left
        BY <1>1
    <2> HIDE DEF left
    <2> QED BY <1>4, <2>1, <2>2 DEF Hooks!EntriesOf
<1>6. \A e : Hooks!OurCommands(after, e) = {}
    BY <1>2, <1>5, NoneOfOurs
<1>7. c.shape = "other" => left = {} /\ left = DOMAIN c.hooks
    BY DEF SettingsTyped
<1>8. after.shape = "other" <=> c.shape = "other"
    BY <1>1, <1>7
<1>9. SettingsTyped(after)
    <2>1. \A e \in DOMAIN after.hooks : after.hooks[e] \in Lists
        BY <1>1, <1>2, <1>3
    <2>2. after.shape = "other" => DOMAIN after.hooks = {}
        BY <1>1, <1>7, <1>8
    <2> QED BY <1>1, <2>1, <2>2 DEF SettingsTyped
<1>10. \A e : Hooks!PruneEventEntries(Hooks!EntriesOf(after, e)) = pruned(e)
    BY <1>2, <1>5
<1>11. Hooks!ForeignPart(after) = Hooks!ForeignPart(c)
    BY <1>1, <1>8, <1>10 DEF Hooks!ForeignPart, pruned
<1> QED BY <1>6, <1>9, <1>11 DEF after

Carrying == {"backup", "write", "fill", "rename"}
RunTyped(r) ==
    /\ DOMAIN r = RunFields /\ SettingsTyped(r.read) /\ r.option \in Options
    /\ r.pc \in Carrying => r.result = Hooks!Transform(r) /\ ~Hooks!Refused(r)
AskedInv ==
    /\ SettingsTyped(file)
    /\ DOMAIN run = Runs /\ \A p \in Runs : RunTyped(run[p])
    /\ DOMAIN temp = Runs
    /\ \A p \in Runs : run[p].pc = "rename" => temp[p] = run[p].result

LEMMA WrittenTyped ==
    /\ \A c \in Written \cup {Hooks!NoFile, Hooks!NotJson, Hooks!Empty} : SettingsTyped(c)
    /\ RunTyped(Hooks!Idle) /\ Hooks!Idle.pc = "idle"
<1>1. ASSUME NEW kind, NEW shape, NEW hooks, NEW rest, NEW own, NEW c,
             c = [kind |-> kind, shape |-> shape, hooks |-> hooks, rest |-> rest, own |-> own],
             \A e \in DOMAIN hooks : hooks[e] \in Lists, shape = "other" => DOMAIN hooks = {}
      PROVE  SettingsTyped(c)
    BY <1>1 DEF SettingsTyped, SettingsFields
<1>2. DOMAIN << >> = {}
    OBVIOUS
<1>3. \A c \in {Hooks!NoFile, Hooks!NotJson, Hooks!Empty} : SettingsTyped(c)
    <2> DEFINE base == Hooks!Settings("none", << >>, "none", TRUE)
    <2>1. SettingsTyped(base)
        BY <1>1, <1>2 DEF Hooks!Settings
    <2> HIDE DEF base
    <2>2. \A kind : SettingsTyped([base EXCEPT !.kind = kind])
        BY <2>1 DEF SettingsTyped, SettingsFields
    <2>3. \A kind : Hooks!Bare(kind) = [base EXCEPT !.kind = kind]
        BY DEF Hooks!Bare, base
    <2> QED BY <2>1, <2>2, <2>3 DEF Hooks!NoFile, Hooks!NotJson, Hooks!Empty, base
<1>4. \A c \in Written : SettingsTyped(c)
    <2>1. << <<"f">>, <<"p1", "f">> >> \in Lists /\ << >> \in Lists
        BY DEF Lists, Commands
    <2>2. << <<"p1">>, <<"f">> >> \in Lists /\ << <<"x">> >> \in Lists /\ << <<"no list">> >> \in Lists
        BY DEF Lists, Commands
    <2> DEFINE Stop(hooks) == [e \in {"Stop"} |-> hooks]
               Both(hooks, other) == [e \in {"Stop", "Other"} |-> IF e = "Stop" THEN hooks ELSE other]
               Good(hooks) == \A e \in DOMAIN hooks : hooks[e] \in Lists
    <2>3. /\ \A hooks \in Lists : Good(Stop(hooks))
          /\ \A hooks \in Lists, other \in Lists : Good(Both(hooks, other))
          /\ Good(<< >>)
        BY <1>2
    <2>4. \A c \in Written :
            \/ c = Settings("none", << >>, "a")
            \/ c = Settings("object", Stop(<< <<"f">>, <<"p1", "f">> >>), "a")
            \/ c = Settings("object", Both(<< >>, << <<"p1">>, <<"f">> >>), "a")
            \/ c = Settings("object", Both(<< <<"x">> >>, << <<"no list">> >>), "a")
            \/ c = Settings("other", << >>, "a")
        BY DEF Written
    <2>5. /\ Good(Stop(<< <<"f">>, <<"p1", "f">> >>))
          /\ Good(Both(<< >>, << <<"p1">>, <<"f">> >>))
          /\ Good(Both(<< <<"x">> >>, << <<"no list">> >>))
        BY <2>1, <2>2, <2>3
    <2> HIDE DEF Stop, Both
    <2>6. ASSUME NEW shape, NEW hooks, Good(hooks), shape = "other" => DOMAIN hooks = {}
          PROVE  SettingsTyped(Settings(shape, hooks, "a"))
        BY <1>1, <2>6 DEF Settings
    <2> HIDE DEF Good
    <2>7. "object" # "other" /\ "none" # "other"
        OBVIOUS
    <2> QED BY <1>2, <2>3, <2>4, <2>5, <2>6, <2>7
<1>5. RunTyped(Hooks!Idle) /\ Hooks!Idle.pc = "idle"
    <2>1. (CHOOSE o \in Options : TRUE) \in Options
        BY ReadersAssumption DEF Hooks!Configured
    <2> QED BY <1>3, <2>1 DEF RunTyped, Hooks!Idle, RunFields, Carrying
<1> QED BY <1>3, <1>4, <1>5

LEMMA TransformLeaves ==
    ASSUME NEW r, RunTyped(r), ~Hooks!Refused(r)
    PROVE  LET after == Hooks!Transform(r)
           IN  /\ SettingsTyped(after)
               /\ IF r.remove THEN \A e \in Events : Hooks!OurCommands(after, e) = {}
                  ELSE \A e \in Wired : Hooks!Cardinality(Hooks!OurCommands(after, e)) = 1
               /\ Hooks!ForeignPart(after) = Hooks!ForeignPart(r.read)
<1>1. CASE r.remove
    BY <1>1, RemovalLeaves DEF RunTyped, Hooks!Transform
<1>2. CASE ~r.remove
    <2>1. ~Hooks!MergeRefused(r.read)
        BY <1>2 DEF Hooks!Refused
    <2> QED BY <1>2, <2>1, InstallLeaves, SameSize DEF RunTyped, Hooks!Transform
<1> QED BY <1>1, <1>2

LEMMA InitAsked == Hooks!Init => AskedInv
<1> SUFFICES ASSUME Hooks!Init PROVE AskedInv
    OBVIOUS
<1>1. /\ file \in Written \cup {Hooks!NoFile}
      /\ run = [p \in Runs |-> Hooks!Idle] /\ DOMAIN temp = Runs
    BY DEF Hooks!Init
<1> QED BY <1>1, WrittenTyped DEF AskedInv

(* One run moves, and no file but its temporary one.                          *)
OwnTemp(p) == DOMAIN temp' = Runs /\ \A q \in Runs \ {p} : temp'[q] = temp[q]

LEMMA RunMoves ==
    ASSUME AskedInv, NEW p \in Runs, file' = file,
           NEW r, RunTyped(r), run' = [run EXCEPT ![p] = r],
           OwnTemp(p), r.pc = "rename" => temp'[p] = r.result
    PROVE  AskedInv'
<1>1. DOMAIN run' = Runs /\ \A q \in Runs : run'[q] = IF q = p THEN r ELSE run[q]
    BY DEF AskedInv
<1>2. DOMAIN temp' = Runs /\ \A q \in Runs : q # p => temp'[q] = temp[q]
    BY DEF OwnTemp
<1>3. \A q \in Runs : RunTyped(run'[q])
    BY <1>1 DEF AskedInv
<1> QED BY <1>1, <1>2, <1>3 DEF AskedInv, SettingsTyped, RunTyped

LEMMA StepsAsked ==
    ASSUME AskedInv, NEW p \in Runs,
           \/ \E option \in Options : Hooks!Start(p, FALSE, option)
           \/ Hooks!Start(p, TRUE, Hooks!Idle.option)
           \/ Hooks!Compare(p) \/ Hooks!DryRun(p) \/ Hooks!Open(p) \/ Hooks!Fill(p)
           \/ Hooks!WriteFails(p) \/ Hooks!Crash(p) \/ \E t \in Milliseconds : Hooks!Backup(p, t)
    PROVE  AskedInv'
<1>1. /\ RunTyped(run[p]) /\ SettingsTyped(file) /\ (temp' = temp => OwnTemp(p))
      /\ \A t : temp' = [temp EXCEPT ![p] = t] => OwnTemp(p) /\ temp'[p] = t
    BY DEF AskedInv, OwnTemp
<1>2. RunTyped(Hooks!Idle) /\ Hooks!Idle.pc = "idle" /\ Hooks!Idle.option \in Options
    BY WrittenTyped DEF RunTyped
<1>3. ASSUME NEW remove, NEW option \in Options, Hooks!Start(p, remove, option) PROVE AskedInv'
    <2> DEFINE r == [Hooks!Idle EXCEPT !.pc = "read", !.remove = remove, !.option = option,
                       !.read = IF file = Hooks!NoFile THEN Hooks!Empty ELSE file]
    <2>1. file' = file /\ temp' = temp /\ (run' = run \/ run' = [run EXCEPT ![p] = r])
        BY <1>3 DEF Hooks!Start
    <2>2. RunTyped(r) /\ r.pc = "read"
        BY <1>1, <1>2, WrittenTyped DEF RunTyped, RunFields, Carrying
    <2> HIDE DEF r
    <2>3. CASE run' = run
        BY <2>1, <2>3 DEF AskedInv, SettingsTyped, RunTyped
    <2>4. CASE run' = [run EXCEPT ![p] = r]
        BY <1>1, <2>1, <2>2, <2>4, RunMoves
    <2> QED BY <2>1, <2>3, <2>4
<1>4. ASSUME Hooks!End(p), file' = file, OwnTemp(p) PROVE AskedInv'
    BY <1>2, <1>4, RunMoves DEF Hooks!End
<1>5. CASE Hooks!Compare(p)
    <2>1. file' = file /\ OwnTemp(p)
        BY <1>1, <1>5 DEF Hooks!Compare
    <2>2. CASE Hooks!NothingToDo(run[p])
        <3>1. Hooks!End(p)
            BY <1>5, <2>2 DEF Hooks!Compare, Hooks!End
        <3> QED BY <1>4, <2>1, <3>1
    <2>3. CASE ~Hooks!NothingToDo(run[p])
        <3> DEFINE r == [run[p] EXCEPT !.pc = IF file = Hooks!NoFile THEN "write" ELSE "backup",
                           !.existed = file # Hooks!NoFile,
                           !.result = Hooks!Transform(run[p]), !.alone = TRUE]
        <3>1. run' = [run EXCEPT ![p] = r]
            BY <1>5, <2>3 DEF Hooks!Compare, AskedInv
        <3>2. ~Hooks!Refused(run[p])
            BY <2>3 DEF Hooks!NothingToDo
        <3>3. /\ DOMAIN r = RunFields /\ r.read = run[p].read /\ r.option = run[p].option
              /\ r.remove = run[p].remove /\ r.result = Hooks!Transform(run[p])
              /\ r.pc # "rename"
            BY <1>1 DEF RunTyped, RunFields
        <3> HIDE DEF r
        <3>4. RunTyped(r)
            BY <1>1, <3>2, <3>3 DEF RunTyped, Hooks!Transform, Hooks!Refused
        <3> QED BY <2>1, <3>1, <3>3, <3>4, RunMoves
    <2> QED BY <2>2, <2>3
<1>6. CASE Hooks!DryRun(p) \/ Hooks!Crash(p)
    BY <1>1, <1>4, <1>6 DEF Hooks!DryRun, Hooks!Crash
<1>7. CASE Hooks!WriteFails(p)
    BY <1>1, <1>4, <1>7 DEF Hooks!WriteFails
<1>8. ASSUME NEW pc \in Carrying, NEW alone, file' = file, run[p].pc \in Carrying,
             run' = [run EXCEPT ![p] = [run[p] EXCEPT !.pc = pc, !.alone = alone]],
             OwnTemp(p), pc = "rename" => temp'[p] = run[p].result
      PROVE  AskedInv'
    <2> DEFINE r == [run[p] EXCEPT !.pc = pc, !.alone = alone]
    <2>1. /\ DOMAIN r = RunFields /\ r.read = run[p].read /\ r.option = run[p].option
          /\ r.remove = run[p].remove /\ r.result = run[p].result /\ r.pc = pc
        BY <1>1 DEF RunTyped, RunFields
    <2>2. run' = [run EXCEPT ![p] = r]
        BY <1>8
    <2> HIDE DEF r
    <2>3. RunTyped(r)
        BY <1>1, <1>8, <2>1 DEF RunTyped, Hooks!Transform, Hooks!Refused
    <2> QED BY <1>8, <2>1, <2>2, <2>3, RunMoves
<1>9. ASSUME NEW pc, Hooks!Step(p, pc)
      PROVE  run' = [run EXCEPT ![p] = [run[p] EXCEPT !.pc = pc, !.alone = run[p].alone]]
    BY <1>1, <1>9 DEF Hooks!Step, AskedInv, RunTyped, RunFields
<1>10. CASE Hooks!Open(p)
    <2>1. /\ file' = file /\ run[p].pc = "write" /\ temp' = [temp EXCEPT ![p] = Hooks!Torn]
          /\ Hooks!Step(p, "fill")
        BY <1>10 DEF Hooks!Open, Hooks!At
    <2> QED BY <1>1, <1>8, <1>9, <2>1 DEF Carrying
<1>11. CASE Hooks!Fill(p)
    <2>1. /\ file' = file /\ run[p].pc = "fill" /\ temp' = [temp EXCEPT ![p] = run[p].result]
          /\ Hooks!Step(p, "rename")
        BY <1>11 DEF Hooks!Fill, Hooks!At
    <2> QED BY <1>1, <1>8, <1>9, <2>1 DEF Carrying
<1>12. ASSUME NEW t, Hooks!Backup(p, t) PROVE AskedInv'
    <2>1. file' = file /\ OwnTemp(p) /\ run[p].pc = "backup"
        BY <1>1, <1>12 DEF Hooks!Backup, Hooks!At
    <2>2. CASE Hooks!End(p)
        BY <1>4, <2>1, <2>2
    <2>3. CASE run' = [run EXCEPT ![p].pc = "write", ![p].alone = TRUE]
        <3>1. run' = [run EXCEPT ![p] = [run[p] EXCEPT !.pc = "write", !.alone = TRUE]]
            BY <2>3 DEF AskedInv
        <3> QED BY <1>8, <2>1, <3>1 DEF Carrying
    <2> QED BY <1>12, <2>2, <2>3 DEF Hooks!Backup
<1> QED BY <1>2, <1>3, <1>5, <1>6, <1>7, <1>10, <1>11, <1>12

(* A write of the file leaves every run with what it carries.                 *)
LEMMA StillCarried ==
    ASSUME NEW r, RunTyped(r)
    PROVE  LET s == [r EXCEPT !.alone = FALSE]
           IN  RunTyped(s) /\ s.pc = r.pc /\ s.result = r.result
<1> DEFINE s == [r EXCEPT !.alone = FALSE]
<1>1. /\ DOMAIN s = RunFields /\ s.read = r.read /\ s.option = r.option
      /\ s.remove = r.remove /\ s.result = r.result /\ s.pc = r.pc
    BY DEF RunTyped, RunFields
<1> HIDE DEF s
<1>2. RunTyped(s)
    BY <1>1 DEF RunTyped, Hooks!Transform, Hooks!Refused
<1> QED BY <1>1, <1>2 DEF s

LEMMA EditAsked ==
    ASSUME AskedInv, NEW c \in Written \cup {Hooks!NoFile, Hooks!NotJson}, Hooks!Edit(c)
    PROVE  AskedInv'
<1>1. /\ file' = c /\ temp' = temp /\ DOMAIN run' = Runs
      /\ \A q \in Runs : run'[q] = [run[q] EXCEPT !.alone = FALSE]
    BY DEF Hooks!Edit, Hooks!NoLongerAlone
<1>2. \A q \in Runs : /\ RunTyped(run'[q]) /\ run'[q].pc = run[q].pc
                      /\ run'[q].result = run[q].result
    BY <1>1, StillCarried DEF AskedInv
<1>3. SettingsTyped(c)
    BY WrittenTyped
<1> QED BY <1>1, <1>2, <1>3 DEF AskedInv, SettingsTyped, RunTyped

LEMMA RenameLeaves ==
    ASSUME AskedInv, NEW p \in Runs, Hooks!Rename(p)
    PROVE  /\ AskedInv'
           /\ IF run[p].remove THEN \A e \in Events : Hooks!OurCommands(file', e) = {}
              ELSE \A e \in Wired : Hooks!Cardinality(Hooks!OurCommands(file', e)) = 1
           /\ file = run[p].read => Hooks!ForeignPart(file') = Hooks!ForeignPart(file)
<1>1. /\ file' = temp[p] /\ temp' = [temp EXCEPT ![p] = Hooks!NoFile]
      /\ run' = [Hooks!NoLongerAlone(run) EXCEPT ![p] = Hooks!Idle] /\ run[p].pc = "rename"
    BY DEF Hooks!Rename, Hooks!At
<1>2. file' = Hooks!Transform(run[p]) /\ ~Hooks!Refused(run[p]) /\ RunTyped(run[p])
    BY <1>1 DEF AskedInv, RunTyped, Carrying
<1>3. /\ DOMAIN run' = Runs
      /\ \A q \in Runs : run'[q] = IF q = p THEN Hooks!Idle ELSE [run[q] EXCEPT !.alone = FALSE]
    BY <1>1 DEF Hooks!NoLongerAlone
<1>4. \A q \in Runs : /\ RunTyped(run'[q])
                      /\ q # p => run'[q].pc = run[q].pc /\ run'[q].result = run[q].result
                      /\ q = p => run'[q].pc = "idle"
    BY <1>3, StillCarried, WrittenTyped DEF AskedInv
<1>5. DOMAIN temp' = Runs /\ \A q \in Runs : q # p => temp'[q] = temp[q]
    BY <1>1 DEF AskedInv
<1>6. SettingsTyped(file')
    BY <1>2, TransformLeaves
<1>7. AskedInv'
    BY <1>3, <1>4, <1>5, <1>6 DEF AskedInv, SettingsTyped, RunTyped
<1> QED BY <1>2, <1>7, TransformLeaves

(* What a run of the installer leaves: each wired event with exactly the one  *)
(* command asked for, or none of ours after a removal, and all that is not    *)
(* ours as it was if nobody wrote the file since the run read it: whatever    *)
(* other runs, edits, failures and crashes come between its steps             *)
(* (install.mjs: pruneEventEntries, mergeHooksIntoSettings,                   *)
(* removeAgenthropicHooks, writeSettingsAtomically).                          *)
THEOREM HooksLeftAsAsked == ReadersSpec => LeftAsAsked
<1> DEFINE RInv == subject = "installer" => AskedInv
           Left == \A p \in Runs : Hooks!Rename(p) =>
                     /\ IF run[p].remove THEN \A e \in Events : Hooks!OurCommands(file', e) = {}
                        ELSE \A e \in Wired : Hooks!Cardinality(Hooks!OurCommands(file', e)) = 1
                     /\ Hooks!IsSettings(file) /\ file = run[p].read =>
                          Hooks!ForeignPart(file') = Hooks!ForeignPart(file)
<1>1. ReadersInit => RInv
    BY InitAsked DEF ReadersInit
<1>2. AskedInv /\ UNCHANGED installed => AskedInv'
    BY DEF AskedInv, installed, SettingsTyped, RunTyped, Hooks!Transform, Hooks!Refused
<1>3. AskedInv /\ Hooks!Next => AskedInv' /\ Left
    BY StepsAsked, EditAsked, RenameLeaves DEF Hooks!Next
<1>4. RInv /\ [ReadersNext]_<<subject, vars, rereading, installed>> => RInv' /\ [Left]_(Hooks!vars)
    <2> HIDE DEF Left
    <2> SUFFICES ASSUME RInv, [ReadersNext]_<<subject, vars, rereading, installed>>
                 PROVE  RInv' /\ [Left]_(Hooks!vars)
        OBVIOUS
    <2>1. CASE subject = "installer" /\ Hooks!Next /\ UNCHANGED <<subject, vars, rereading>>
        BY <1>3, <2>1
    <2>2. CASE UNCHANGED <<subject, installed>>
        BY <1>2, <2>2 DEF Hooks!vars, installed
    <2> QED BY <2>1, <2>2 DEF ReadersNext
<1> QED BY <1>1, <1>4, PTL DEF ReadersSpec, LeftAsAsked, Hooks!LeftAsAsked, Hooks!vars

----------------------------------------------------------------------------
(* Two lists in a row, each with its own places.                              *)
Shifted(n, places) == {n + j : j \in places}

LEMMA ShiftedSize ==
    ASSUME NEW n \in Nat, NEW places \in SUBSET Nat, IsFiniteSet(places)
    PROVE  IsFiniteSet(Shifted(n, places)) /\ Cardinality(Shifted(n, places)) = Cardinality(places)
<1> DEFINE shift == [j \in places |-> n + j]
<1>1. shift \in Bijection(places, Shifted(n, places))
    <2>1. shift \in [places -> Shifted(n, places)]
        BY DEF Shifted
    <2>2. \A i, j \in places : shift[i] = shift[j] => i = j
        <3>1. \A i, j \in places : i \in Nat /\ j \in Nat
            OBVIOUS
        <3> QED BY <3>1
    <2>3. \A t \in Shifted(n, places) : \E j \in places : shift[j] = t
        BY DEF Shifted
    <2> HIDE DEF shift
    <2> QED BY <2>1, <2>2, <2>3 DEF Bijection, Injection, IsInjective, Surjection
<1>2. ExistsBijection(places, Shifted(n, places))
    BY <1>1 DEF ExistsBijection
<1> QED BY <1>2, FS_Bijection

LEMMA DisjointSize ==
    ASSUME NEW P, IsFiniteSet(P), NEW Q, IsFiniteSet(Q), P \cap Q = {}
    PROVE  IsFiniteSet(P \cup Q) /\ Cardinality(P \cup Q) = Cardinality(P) + Cardinality(Q)
<1>1. Cardinality(P \cap Q) = 0
    <2>1. Cardinality({}) = 0
        BY FS_EmptySet
    <2> QED BY <2>1, Zenon
<1>2. Cardinality(P) \in Nat /\ Cardinality(Q) \in Nat
    BY FS_CardinalityType
<1>3. /\ IsFiniteSet(P \cup Q)
      /\ Cardinality(P \cup Q) = Cardinality(P) + Cardinality(Q) - Cardinality(P \cap Q)
    BY FS_Union
<1> QED BY <1>1, <1>2, <1>3

LEMMA NthOfBoth ==
    ASSUME NEW n \in Nat, NEW P \in SUBSET (1..n), NEW Q \in SUBSET (Nat \ {0}), IsFiniteSet(Q)
    PROVE  LET R == P \cup Shifted(n, Q)
           IN  /\ IsFiniteSet(P) /\ IsFiniteSet(R)
               /\ Cardinality(R) = Cardinality(P) + Cardinality(Q)
               /\ \A k \in 1..Cardinality(P) : Nth(R, k) = Nth(P, k)
               /\ \A m \in 1..Cardinality(Q) : Nth(R, Cardinality(P) + m) = n + Nth(Q, m)
<1> DEFINE R == P \cup Shifted(n, Q)
<1>1. IsFiniteSet(P) /\ P \in SUBSET Nat /\ Q \in SUBSET Nat
    <2>1. IsFiniteSet(1..n)
        BY FS_Interval
    <2>2. IsFiniteSet(P)
        BY <2>1, FS_Subset
    <2> QED BY <2>2
<1>2. IsFiniteSet(Shifted(n, Q)) /\ Cardinality(Shifted(n, Q)) = Cardinality(Q)
    BY <1>1, ShiftedSize
<1>3. /\ Cardinality(P) \in Nat /\ Cardinality(Q) \in Nat /\ R \in SUBSET Nat
      /\ \A i \in P : i <= n /\ i \in Nat
      /\ \A i \in Shifted(n, Q) : i > n /\ i \in Nat
    <2>1. \A j \in Q : n + j > n /\ n + j \in Nat
        OBVIOUS
    <2>2. \A i \in Shifted(n, Q) : i > n /\ i \in Nat
        BY <2>1 DEF Shifted
    <2>3. Cardinality(P) \in Nat /\ Cardinality(Q) \in Nat
        BY <1>1, FS_CardinalityType
    <2>4. \A i \in P : i <= n /\ i \in Nat
        OBVIOUS
    <2> QED BY <2>2, <2>3, <2>4
<1>4. P \cap Shifted(n, Q) = {}
    BY <1>3
<1>5. IsFiniteSet(R) /\ Cardinality(R) = Cardinality(P) + Cardinality(Q)
    BY <1>1, <1>2, <1>4, DisjointSize
<1>6. ASSUME NEW k \in 1..Cardinality(P) PROVE Nth(R, k) = Nth(P, k)
    <2>1. PICK i \in P : i = Nth(P, k) /\ Rank(P, i) = k - 1
        BY <1>1, NthPlace
    <2>2. Below(R, i) = Below(P, i)
        BY <1>3 DEF Below
    <2>3. Rank(R, i) + 1 = k
        BY <1>3, <2>1, <2>2 DEF Rank
    <2>4. Nth(R, Rank(R, i) + 1) = i
        BY <1>3, <1>5, <2>1, PlaceOfRank
    <2> QED BY <2>1, <2>3, <2>4
<1>7. ASSUME NEW m \in 1..Cardinality(Q) PROVE Nth(R, Cardinality(P) + m) = n + Nth(Q, m)
    <2>1. PICK j \in Q : j = Nth(Q, m) /\ Rank(Q, j) = m - 1
        BY <1>1, NthPlace
    <2> DEFINE under == Below(Q, j)
    <2>2. under \in SUBSET Q /\ under \in SUBSET Nat /\ IsFiniteSet(under)
        BY <1>1, FS_Subset DEF Below
    <2>3. Below(R, n + j) = P \cup Shifted(n, under)
        <3>1. \A i \in P : i < n + j
            BY <1>3
        <3>2. \A q \in Q : n + q < n + j <=> q < j
            OBVIOUS
        <3> QED BY <3>1, <3>2 DEF Below, Shifted
    <2>4. P \cap Shifted(n, under) = {}
        BY <1>4, <2>2 DEF Shifted
    <2>5. /\ IsFiniteSet(Shifted(n, under))
          /\ Cardinality(Shifted(n, under)) = Cardinality(under)
        BY <2>2, ShiftedSize
    <2>6. Cardinality(P \cup Shifted(n, under)) = Cardinality(P) + Cardinality(under)
        BY <1>1, <2>4, <2>5, DisjointSize
    <2>7. Rank(R, n + j) = Cardinality(P) + (m - 1)
        BY <2>1, <2>3, <2>6 DEF Rank
    <2>8. n + j \in R
        BY DEF Shifted
    <2>9. Nth(R, Rank(R, n + j) + 1) = n + j
        BY <1>3, <1>5, <2>8, PlaceOfRank
    <2>10. Rank(R, n + j) + 1 = Cardinality(P) + m
        BY <1>3, <2>7
    <2> QED BY <2>1, <2>9, <2>10
<1> QED BY <1>1, <1>5, <1>6, <1>7

PlacesOf(list, places) == places \in SUBSET DOMAIN list
KeptInTurn(u, v, P, Q) == Kept(u \o v, P \cup Shifted(Len(u), Q)) = Kept(u, P) \o Kept(v, Q)

LEMMA KeptOfBoth ==
    ASSUME NEW S, NEW u \in Seq(S), NEW v \in Seq(S), NEW P, NEW Q,
           PlacesOf(u, P), PlacesOf(v, Q)
    PROVE  KeptInTurn(u, v, P, Q)
<1>0. P \in SUBSET DOMAIN u /\ Q \in SUBSET DOMAIN v
    BY DEF PlacesOf
<1> DEFINE n == Len(u)
           R == P \cup Shifted(n, Q)
           whole == Kept(u \o v, R)
           halves == Kept(u, P) \o Kept(v, Q)
           p == Cardinality(P)
           q == Cardinality(Q)
<1>1. n \in Nat /\ DOMAIN u = 1..n /\ Len(v) \in Nat /\ DOMAIN v = 1..Len(v)
    OBVIOUS
<1>2. /\ IsFiniteSet(Q) /\ q \in Nat /\ p \in Nat
      /\ Kept(u, P) \in Seq(S) /\ Len(Kept(u, P)) = p
      /\ Kept(v, Q) \in Seq(S) /\ Len(Kept(v, Q)) = q
      /\ \A k \in 1..p : Nth(P, k) \in P /\ Kept(u, P)[k] = u[Nth(P, k)]
      /\ \A m \in 1..q : Nth(Q, m) \in Q /\ Kept(v, Q)[m] = v[Nth(Q, m)]
    BY <1>0, KeptElements
<1>3. P \in SUBSET (1..n) /\ Q \in SUBSET (Nat \ {0})
    BY <1>0, <1>1
<1> HIDE DEF n, p, q
<1>4. /\ IsFiniteSet(R) /\ Cardinality(R) = p + q
      /\ \A k \in 1..p : Nth(R, k) = Nth(P, k)
      /\ \A m \in 1..q : Nth(R, p + m) = n + Nth(Q, m)
    <2>1. n \in Nat /\ IsFiniteSet(Q)
        BY <1>1, <1>2
    <2> HIDE DEF R
    <2>2. /\ IsFiniteSet(R) /\ Cardinality(R) = Cardinality(P) + Cardinality(Q)
          /\ \A k \in 1..Cardinality(P) : Nth(R, k) = Nth(P, k)
          /\ \A m \in 1..Cardinality(Q) : Nth(R, Cardinality(P) + m) = n + Nth(Q, m)
        BY <1>3, <2>1, NthOfBoth DEF R
    <2> QED BY <2>2 DEF p, q
<1>5. /\ u \o v \in Seq(S)
      /\ \A i \in 1..n : (u \o v)[i] = u[i]
      /\ \A j \in DOMAIN v : (u \o v)[n + j] = v[j]
    BY <1>1 DEF n
<1>6. DOMAIN whole = 1..(p + q) /\ \A k \in 1..(p + q) : whole[k] = (u \o v)[Nth(R, k)]
    BY <1>4 DEF Kept
<1>7. /\ halves \in Seq(S) /\ DOMAIN halves = 1..(p + q)
      /\ \A k \in 1..p : halves[k] = Kept(u, P)[k]
      /\ \A m \in 1..q : halves[p + m] = Kept(v, Q)[m]
    <2> DEFINE first == Kept(u, P)
               second == Kept(v, Q)
    <2>1. first \in Seq(S) /\ second \in Seq(S) /\ Len(first) = p /\ Len(second) = q
        BY <1>2
    <2>2. halves = first \o second
        OBVIOUS
    <2> HIDE DEF first, second, halves
    <2>3. /\ first \o second \in Seq(S) /\ Len(first \o second) = p + q
          /\ \A k \in 1..(p + q) :
               (first \o second)[k] = IF k <= p THEN first[k] ELSE second[k - p]
        BY <2>1, ConcatProperties
    <2>4. ASSUME NEW m \in 1..q PROVE (first \o second)[p + m] = second[m]
        <3>1. PICK k \in 1..(p + q) : k = p + m /\ ~(k <= p) /\ k - p = m
            BY <1>2
        <3>2. (first \o second)[k] = IF k <= p THEN first[k] ELSE second[k - p]
            BY <2>3
        <3> QED BY <3>1, <3>2
    <2> QED BY <1>2, <2>2, <2>3, <2>4 DEF first, second
<1>8. ASSUME NEW k \in 1..(p + q) PROVE whole[k] = halves[k]
    <2> HIDE DEF whole, halves, R
    <2>1. CASE k \in 1..p
        <3>1. whole[k] = (u \o v)[Nth(P, k)] /\ Nth(P, k) \in P
            BY <1>2, <1>4, <1>6, <2>1
        <3>2. whole[k] = u[Nth(P, k)]
            BY <1>3, <1>5, <3>1
        <3>3. halves[k] = u[Nth(P, k)]
            BY <1>2, <1>7, <2>1
        <3> QED BY <3>2, <3>3
    <2>2. CASE k \notin 1..p
        <3>1. PICK m \in 1..q : k = p + m
            <4>1. k - p \in 1..q /\ k = p + (k - p)
                BY <1>2, <2>2
            <4> QED BY <4>1
        <3>2. Nth(R, k) = n + Nth(Q, m) /\ Nth(Q, m) \in DOMAIN v
            BY <1>0, <1>2, <1>4, <3>1
        <3>3. whole[k] = (u \o v)[n + Nth(Q, m)]
            BY <1>6, <3>2
        <3>4. whole[k] = v[Nth(Q, m)]
            BY <1>5, <3>2, <3>3
        <3>5. halves[k] = v[Nth(Q, m)]
            BY <1>2, <1>7, <3>1
        <3> QED BY <3>4, <3>5
    <2> QED BY <2>1, <2>2
<1>9. whole = [k \in 1..(p + q) |-> whole[k]]
    BY <1>6 DEF Kept
<1>10. halves = [k \in 1..(p + q) |-> halves[k]]
    <2> HIDE DEF halves
    <2> QED BY <1>7
<1> HIDE DEF whole, halves
<1>11. whole = halves
    BY <1>8, <1>9, <1>10
<1> QED BY <1>11 DEF KeptInTurn, whole, halves, R, n

----------------------------------------------------------------------------
(* Bytes and text.  A file may be decoded in two parts when the first ends a  *)
(* line, as no character spans a line's end.                                  *)
Byte == UNION {Reread!Range(d) : d \in Transcripts}
WholeAt(c, i) == i < Len(c) /\ c[i] = Lead /\ c[i + 1] = Trail
StartsIn(c) == {i \in 1..Len(c) : i = 1 \/ ~WholeAt(c, i - 1)}
CharacterAt(c, i) ==
    IF WholeAt(c, i) THEN Wide ELSE IF c[i] \in {Lead, Trail} THEN Bad ELSE c[i]
Characters(c) == [i \in 1..Len(c) |-> CharacterAt(c, i)]
EndsLine(c) == c = << >> \/ c[Len(c)] = Newline

LEMMA ReaderConstants ==
    /\ OverlapBytes \in Nat
    /\ Newline # Lead /\ Newline # Trail
    /\ \A c \in Transcripts : c \in Seq(Byte)
    BY ReadersAssumption DEF Reread!Configured, Byte

LEMMA KeptByReader == \A list, places : Reread!Kept(list, places) = Kept(list, places)
<1>1. \A P : Reread!Cardinality(P) = Cardinality(P)
    BY DEF Reread!Cardinality, Cardinality
<1> TAKE list, places
<1>2. \A k : Reread!Nth(places, k) = Nth(places, k)
    BY <1>1 DEF Reread!Nth, Nth
<1> QED BY <1>1, <1>2 DEF Reread!Kept, Kept

LEMMA DecodeIsKept == \A c : Reread!Decode(c) = Kept(Characters(c), StartsIn(c))
    BY KeptByReader DEF Reread!Decode, Characters, StartsIn, CharacterAt, WholeAt

LEMMA CharactersSeq ==
    ASSUME NEW c \in Seq(Byte)
    PROVE  /\ Characters(c) \in Seq({Wide, Bad} \cup Byte) /\ Len(Characters(c)) = Len(c)
           /\ StartsIn(c) \in SUBSET DOMAIN Characters(c)
<1> DEFINE S == {Wide, Bad} \cup Byte
<1>1. Len(c) \in Nat /\ \A i \in 1..Len(c) : CharacterAt(c, i) \in S
    BY DEF CharacterAt
<1> HIDE DEF S
<1>2. Characters(c) \in Seq(S) /\ Len(Characters(c)) = Len(c) /\ DOMAIN Characters(c) = 1..Len(c)
    BY <1>1 DEF Characters
<1>3. StartsIn(c) \in SUBSET DOMAIN Characters(c)
    BY <1>2 DEF StartsIn
<1> QED BY <1>2, <1>3 DEF S

LEMMA CharactersKept ==
    ASSUME NEW c \in Seq(Byte), NEW d \in Seq(Byte)
    PROVE  Kept(Characters(c) \o Characters(d), StartsIn(c) \cup Shifted(Len(c), StartsIn(d)))
             = Kept(Characters(c), StartsIn(c)) \o Kept(Characters(d), StartsIn(d))
<1>1. KeptInTurn(Characters(c), Characters(d), StartsIn(c), StartsIn(d))
    <2> DEFINE Text == {Wide, Bad} \cup Byte
    <2>1. /\ Characters(c) \in Seq(Text) /\ Characters(d) \in Seq(Text)
          /\ PlacesOf(Characters(c), StartsIn(c)) /\ PlacesOf(Characters(d), StartsIn(d))
        BY CharactersSeq DEF PlacesOf
    <2> HIDE DEF Text
    <2> QED BY <2>1, KeptOfBoth
<1>2. Len(Characters(c)) = Len(c)
    BY CharactersSeq
<1> QED BY <1>1, <1>2 DEF KeptInTurn

LEMMA DecodeSplit ==
    ASSUME NEW c \in Seq(Byte), NEW d \in Seq(Byte), EndsLine(c)
    PROVE  Reread!Decode(c \o d) = Reread!Decode(c) \o Reread!Decode(d)
<1> DEFINE n == Len(c)
           b == c \o d
           S == {Wide, Bad} \cup Byte
<1>1. /\ n \in Nat /\ Len(d) \in Nat /\ b \in Seq(Byte) /\ Len(b) = n + Len(d)
      /\ \A i \in 1..n : b[i] = c[i]
      /\ \A j \in 1..Len(d) : b[n + j] = d[j]
    OBVIOUS
<1>2. n = 0 \/ c[n] = Newline
    BY DEF EndsLine
<1> HIDE DEF n, b
<1>3. \A i \in 1..n : WholeAt(b, i) <=> WholeAt(c, i)
    <2> TAKE i \in 1..n
    <2>1. CASE i = n
        BY <1>1, <1>2, <2>1, ReaderConstants DEF WholeAt, n
    <2>2. CASE i # n
        <3>1. i + 1 \in 1..n /\ i < Len(b) /\ i < Len(c)
            BY <1>1, <2>2 DEF n
        <3> QED BY <1>1, <3>1 DEF WholeAt
    <2> QED BY <2>1, <2>2
<1>4. \A j \in 1..Len(d) : WholeAt(b, n + j) <=> WholeAt(d, j)
    <2> TAKE j \in 1..Len(d)
    <2>1. n + j < Len(b) <=> j < Len(d)
        BY <1>1
    <2>2. j < Len(d) => b[(n + j) + 1] = d[j + 1]
        <3> SUFFICES ASSUME j < Len(d) PROVE b[(n + j) + 1] = d[j + 1]
            OBVIOUS
        <3>1. j + 1 \in 1..Len(d) /\ n + (j + 1) = (n + j) + 1
            BY <1>1
        <3>2. b[n + (j + 1)] = d[j + 1]
            BY <1>1, <3>1
        <3> QED BY <3>1, <3>2
    <2> QED BY <1>1, <2>1, <2>2 DEF WholeAt
<1>5. Characters(b) = Characters(c) \o Characters(d)
    <2>1. \A i \in 1..n : CharacterAt(b, i) = CharacterAt(c, i)
        BY <1>1, <1>3 DEF CharacterAt
    <2>2. \A j \in 1..Len(d) : CharacterAt(b, n + j) = CharacterAt(d, j)
        BY <1>1, <1>4 DEF CharacterAt
    <2>3. /\ Characters(c) = [i \in 1..n |-> CharacterAt(c, i)]
          /\ Characters(d) = [j \in 1..Len(d) |-> CharacterAt(d, j)]
          /\ Characters(b) = [i \in 1..(n + Len(d)) |-> CharacterAt(b, i)]
        BY <1>1 DEF Characters, n
    <2>4. /\ \A i \in 1..n : CharacterAt(c, i) \in S
          /\ \A j \in 1..Len(d) : CharacterAt(d, j) \in S
        <3>1. /\ \A i \in 1..n : c[i] \in Byte
              /\ \A j \in 1..Len(d) : d[j] \in Byte
            BY DEF n
        <3> QED BY <3>1 DEF CharacterAt
    <2> HIDE DEF S
    <2>5. /\ Characters(c) \in Seq(S) /\ Len(Characters(c)) = n
          /\ Characters(d) \in Seq(S) /\ Len(Characters(d)) = Len(d)
        BY <1>1, <2>3, <2>4
    <2> DEFINE u == Characters(c)
               v == Characters(d)
    <2> HIDE DEF u, v
    <2>6. /\ u \o v \in Seq(S) /\ Len(u \o v) = n + Len(d)
          /\ \A k \in 1..(n + Len(d)) : (u \o v)[k] = IF k <= n THEN u[k] ELSE v[k - n]
        <3>1. u \in Seq(S) /\ v \in Seq(S) /\ Len(u) = n /\ Len(v) = Len(d)
            BY <2>5 DEF u, v
        <3>2. /\ u \o v \in Seq(S) /\ Len(u \o v) = Len(u) + Len(v)
              /\ \A k \in 1..(Len(u) + Len(v)) :
                   (u \o v)[k] = IF k <= Len(u) THEN u[k] ELSE v[k - Len(u)]
            BY <3>1, ConcatProperties
        <3> QED BY <3>1, <3>2
    <2>7. \A k \in 1..(n + Len(d)) : (u \o v)[k] = CharacterAt(b, k)
        <3> TAKE k \in 1..(n + Len(d))
        <3>1. CASE k <= n
            BY <1>1, <2>1, <2>3, <2>6, <3>1 DEF u
        <3>2. CASE ~(k <= n)
            <4>1. PICK j \in 1..Len(d) : j = k - n /\ k = n + j
                <5>1. k - n \in 1..Len(d) /\ k = n + (k - n)
                    BY <1>1, <3>2
                <5> QED BY <5>1
            <4>2. v[j] = CharacterAt(d, j)
                BY <2>3, <4>1 DEF v
            <4> QED BY <2>2, <2>6, <3>2, <4>1, <4>2
        <3> QED BY <3>1, <3>2
    <2>8. u \o v = [k \in 1..(n + Len(d)) |-> CharacterAt(b, k)]
        <3> DEFINE w == u \o v
        <3>1. w \in Seq(S) /\ Len(w) = n + Len(d) /\ \A k \in 1..(n + Len(d)) : w[k] = CharacterAt(b, k)
            BY <2>6, <2>7
        <3> HIDE DEF w
        <3>2. w = [k \in 1..(n + Len(d)) |-> w[k]]
            BY <3>1
        <3>3. w = [k \in 1..(n + Len(d)) |-> CharacterAt(b, k)]
            BY <3>1, <3>2
        <3> QED BY <3>3 DEF w
    <2> QED BY <2>3, <2>8 DEF u, v
<1>6. StartsIn(b) = StartsIn(c) \cup Shifted(n, StartsIn(d))
    <2>1. \A i \in 1..n : i \in StartsIn(b) <=> i \in StartsIn(c)
        <3> TAKE i \in 1..n
        <3>1. i \in 1..Len(b) /\ i \in 1..Len(c) /\ (i # 1 => i - 1 \in 1..n)
            BY <1>1 DEF n
        <3> QED BY <1>3, <3>1 DEF StartsIn
    <2>2. \A j \in 1..Len(d) : n + j \in StartsIn(b) <=> j \in StartsIn(d)
        <3> TAKE j \in 1..Len(d)
        <3>1. n + j \in 1..Len(b)
            BY <1>1
        <3>2. CASE j = 1
            <4>1. n = 0 => n + j = 1
                BY <3>2
            <4>2. n # 0 => ~WholeAt(b, (n + j) - 1)
                <5> SUFFICES ASSUME n # 0 PROVE ~WholeAt(b, (n + j) - 1)
                    OBVIOUS
                <5>1. (n + j) - 1 = n /\ n \in 1..n
                    BY <1>1, <3>2
                <5>2. b[n] = Newline
                    BY <1>1, <1>2, <5>1
                <5> QED BY <5>1, <5>2, ReaderConstants DEF WholeAt
            <4> QED BY <3>1, <3>2, <4>1, <4>2 DEF StartsIn
        <3>3. CASE j # 1
            <4>1. PICK k \in 1..Len(d) : k = j - 1 /\ n + k = (n + j) - 1 /\ n + j # 1
                BY <1>1, <3>3
            <4> QED BY <1>4, <3>1, <3>3, <4>1 DEF StartsIn
        <3> QED BY <3>2, <3>3
    <2>3. \A i \in 1..Len(b) : i \in 1..n \/ \E j \in 1..Len(d) : i = n + j
        <3> TAKE i \in 1..Len(b)
        <3>1. i \notin 1..n => i - n \in 1..Len(d) /\ i = n + (i - n)
            BY <1>1
        <3> QED BY <3>1
    <2>4. /\ StartsIn(b) \subseteq 1..Len(b) /\ StartsIn(c) \subseteq 1..n
          /\ StartsIn(d) \subseteq 1..Len(d)
        BY DEF StartsIn, n
    <2> QED BY <2>1, <2>2, <2>3, <2>4 DEF Shifted
<1>7. Kept(Characters(c) \o Characters(d), StartsIn(c) \cup Shifted(n, StartsIn(d)))
        = Kept(Characters(c), StartsIn(c)) \o Kept(Characters(d), StartsIn(d))
    BY CharactersKept DEF n
<1> QED BY <1>5, <1>6, <1>7, DecodeIsKept DEF b

(* Pieces of a file.                                                          *)
LEMMA Piece ==
    ASSUME NEW c \in Seq(Byte), NEW m \in Nat \ {0}, NEW n \in Nat, n <= Len(c)
    PROVE  /\ SubSeq(c, m, n) \in Seq(Byte)
           /\ Len(SubSeq(c, m, n)) = IF m <= n THEN n - m + 1 ELSE 0
           /\ \A i \in 1..(n - m + 1) : SubSeq(c, m, n)[i] = c[m + i - 1]
<1>1. \A i \in m..n : c[i] \in Byte
    OBVIOUS
<1> QED BY <1>1, SubSeqProperties

LEMMA CutInTwo ==
    ASSUME NEW c \in Seq(Byte), NEW k \in 0..Len(c)
    PROVE  SubSeq(c, 1, k) \o SubSeq(c, k + 1, Len(c)) = c
<1>1. Len(c) \in Nat /\ 1 \in 1..(Len(c) + 1) /\ k \in (1 - 1)..Len(c) /\ Len(c) \in k..Len(c)
    OBVIOUS
<1>2. SubSeq(c, 1, k) \o SubSeq(c, k + 1, Len(c)) = SubSeq(c, 1, Len(c))
    BY <1>1, ConcatAdjacentSubSeq
<1> QED BY <1>2, SubSeqFull

LEMMA Greatest ==
    ASSUME NEW n \in Nat, NEW T \in SUBSET (1..n), T # {}
    PROVE  \E i \in T : \A j \in T : j <= i
<1> DEFINE U == {n - i : i \in T}
<1>1. U \in SUBSET Nat /\ U # {}
    <2>1. \A i \in T : n - i \in Nat
        OBVIOUS
    <2>2. PICK i \in T : TRUE
        OBVIOUS
    <2>3. n - i \in U
        OBVIOUS
    <2> QED BY <2>1, <2>3
<1>2. PICK u \in U : \A v \in U : u <= v
    <2> HIDE DEF U
    <2> QED BY <1>1, LeastNumber
<1>3. PICK i \in T : u = n - i
    OBVIOUS
<1>4. \A j \in T : n - i <= n - j
    BY <1>2, <1>3
<1> QED BY <1>4

NoLineIn(c, e) == \A i \in (e + 1)..Len(c) : c[i] # Newline
EndsAt(c, e) == e \in 0..Len(c) /\ (e = 0 \/ c[e] = Newline) /\ NoLineIn(c, e)

LEMMA CompleteEndsAt ==
    ASSUME NEW c \in Seq(Byte)
    PROVE  EndsAt(c, Reread!CompleteEnd(c))
<1> DEFINE ends == {i \in DOMAIN c : c[i] = Newline}
<1>1. Len(c) \in Nat /\ DOMAIN c = 1..Len(c) /\ ends \in SUBSET (1..Len(c))
    OBVIOUS
<1>2. CASE ends = {}
    <2>1. Reread!CompleteEnd(c) = 0
        BY <1>2 DEF Reread!CompleteEnd
    <2> QED BY <1>1, <1>2, <2>1 DEF EndsAt, NoLineIn
<1>3. CASE ends # {}
    <2> DEFINE e == CHOOSE i \in ends : \A j \in ends : j <= i
    <2>1. Reread!CompleteEnd(c) = e
        BY <1>3 DEF Reread!CompleteEnd
    <2>2. \E i \in ends : \A j \in ends : j <= i
        <3> HIDE DEF ends
        <3> QED BY <1>1, <1>3, Greatest
    <2>3. e \in ends /\ \A j \in ends : j <= e
        BY <2>2
    <2> HIDE DEF e
    <2>4. NoLineIn(c, e)
        <3> SUFFICES ASSUME NEW i \in (e + 1)..Len(c), c[i] = Newline PROVE FALSE
            BY DEF NoLineIn
        <3>1. e \in 1..Len(c)
            BY <1>1, <2>3
        <3>2. i \in ends /\ ~(i <= e)
            BY <1>1, <3>1
        <3> QED BY <2>3, <3>2
    <2> QED BY <1>1, <2>1, <2>3, <2>4 DEF EndsAt
<1> QED BY <1>2, <1>3

LEMMA EndIsUnique ==
    ASSUME NEW c \in Seq(Byte), NEW e, EndsAt(c, e)
    PROVE  Reread!CompleteEnd(c) = e
<1> DEFINE d == Reread!CompleteEnd(c)
<1>1. EndsAt(c, d)
    BY CompleteEndsAt
<1> HIDE DEF d
<1>2. e \in Nat /\ d \in Nat /\ Len(c) \in Nat
    BY <1>1 DEF EndsAt
<1>3. ~(e < d)
    <2> SUFFICES ASSUME e < d PROVE FALSE
        OBVIOUS
    <2>1. d \in (e + 1)..Len(c) /\ c[d] = Newline
        BY <1>1, <1>2 DEF EndsAt
    <2> QED BY <2>1 DEF EndsAt, NoLineIn
<1>4. ~(d < e)
    <2> SUFFICES ASSUME d < e PROVE FALSE
        OBVIOUS
    <2>1. e \in (d + 1)..Len(c) /\ c[e] = Newline
        BY <1>2 DEF EndsAt
    <2> QED BY <1>1, <2>1 DEF EndsAt, NoLineIn
<1> QED BY <1>2, <1>3, <1>4 DEF d

(* Complete lines joined to complete lines are complete lines.                *)
LEMMA LinesJoin ==
    ASSUME NEW c \in Seq(Byte), EndsLine(c), NEW d \in Seq(Byte)
    PROVE  /\ Reread!CompleteEnd(c \o d) = Len(c) + Reread!CompleteEnd(d)
           /\ SubSeq(c \o d, 1, Len(c) + Reread!CompleteEnd(d))
                = c \o SubSeq(d, 1, Reread!CompleteEnd(d))
<1> DEFINE e == Reread!CompleteEnd(d)
           n == Len(c)
           b == c \o d
<1>1. EndsAt(d, e) /\ e \in 0..Len(d) /\ Len(d) \in Nat
    BY CompleteEndsAt DEF EndsAt
<1>2. /\ b \in Seq(Byte) /\ n \in Nat /\ Len(b) = n + Len(d)
      /\ \A i \in 1..n : b[i] = c[i]
      /\ \A j \in 1..Len(d) : b[n + j] = d[j]
    OBVIOUS
<1>3. n = 0 \/ c[n] = Newline
    BY DEF EndsLine
<1> HIDE DEF e, n, b
<1>4. EndsAt(b, n + e)
    <2>1. n + e \in 0..Len(b)
        BY <1>1, <1>2
    <2>2. n + e = 0 \/ b[n + e] = Newline
        <3>1. CASE e = 0
            BY <1>1, <1>2, <1>3, <3>1
        <3>2. CASE e # 0
            BY <1>1, <1>2, <3>2 DEF EndsAt
        <3> QED BY <3>1, <3>2
    <2>3. NoLineIn(b, n + e)
        <3> SUFFICES ASSUME NEW i \in (n + e + 1)..Len(b) PROVE b[i] # Newline
            BY DEF NoLineIn
        <3>1. i - n \in (e + 1)..Len(d) /\ i - n \in 1..Len(d) /\ n + (i - n) = i
            BY <1>1, <1>2
        <3>2. d[i - n] # Newline
            BY <1>1, <3>1 DEF EndsAt, NoLineIn
        <3>3. b[n + (i - n)] = d[i - n]
            BY <1>2, <3>1
        <3> QED BY <3>1, <3>2, <3>3
    <2> QED BY <2>1, <2>2, <2>3 DEF EndsAt
<1>5. Reread!CompleteEnd(b) = n + e
    BY <1>2, <1>4, EndIsUnique
<1>6. SubSeq(b, 1, n + e) = c \o SubSeq(d, 1, e)
    <2> DEFINE f == SubSeq(b, 1, n + e)
               h == SubSeq(d, 1, e)
               g == c \o h
    <2>1. /\ f \in Seq(Byte) /\ Len(f) = n + e
          /\ \A i \in 1..(n + e) : f[i] = b[i]
        <3>1. PICK k \in Nat : k = n + e /\ k <= Len(b)
            BY <1>1, <1>2
        <3>2. f = SubSeq(b, 1, k)
            BY <3>1
        <3> HIDE DEF f
        <3>3. /\ f \in Seq(Byte) /\ Len(f) = IF 1 <= k THEN k - 1 + 1 ELSE 0
              /\ \A i \in 1..(k - 1 + 1) : f[i] = b[1 + i - 1]
            BY <1>2, <3>1, <3>2, Piece
        <3> QED BY <1>1, <1>2, <3>1, <3>3
    <2>2. h \in Seq(Byte) /\ Len(h) = e /\ \A j \in 1..e : h[j] = d[j]
        <3>1. e \in Nat /\ e <= Len(d)
            BY <1>1
        <3> HIDE DEF h
        <3>2. /\ h \in Seq(Byte) /\ Len(h) = IF 1 <= e THEN e - 1 + 1 ELSE 0
              /\ \A i \in 1..(e - 1 + 1) : h[i] = d[1 + i - 1]
            BY <3>1, Piece DEF h
        <3> QED BY <3>1, <3>2
    <2> HIDE DEF f, h
    <2>3. /\ g \in Seq(Byte) /\ Len(g) = n + e
          /\ \A i \in 1..(n + e) : g[i] = IF i <= n THEN c[i] ELSE h[i - n]
        <3>1. /\ g \in Seq(Byte) /\ Len(g) = Len(c) + Len(h)
              /\ \A i \in 1..(Len(c) + Len(h)) : g[i] = IF i <= Len(c) THEN c[i] ELSE h[i - Len(c)]
            BY <2>2, ConcatProperties
        <3> QED BY <2>2, <3>1 DEF n
    <2> HIDE DEF g
    <2>4. ASSUME NEW i \in 1..(n + e) PROVE f[i] = g[i]
        <3>1. CASE i <= n
            BY <1>1, <1>2, <2>1, <2>3, <3>1
        <3>2. CASE ~(i <= n)
            <4>1. i - n \in 1..e /\ i - n \in 1..Len(d) /\ n + (i - n) = i
                BY <1>1, <1>2, <3>2
            <4>2. b[n + (i - n)] = d[i - n] /\ h[i - n] = d[i - n]
                BY <1>2, <2>2, <4>1
            <4> QED BY <2>1, <2>3, <3>2, <4>1, <4>2
        <3> QED BY <3>1, <3>2
    <2>5. f = g
        BY <2>1, <2>3, <2>4, SeqEqual
    <2> QED BY <2>5 DEF f, g, h
<1> QED BY <1>5, <1>6 DEF e, n, b

LEMMA CompletePart ==
    ASSUME NEW c \in Seq(Byte)
    PROVE  LET lines == SubSeq(c, 1, Reread!CompleteEnd(c))
           IN  /\ lines \in Seq(Byte) /\ EndsLine(lines)
               /\ Len(lines) = Reread!CompleteEnd(c)
<1> DEFINE e == Reread!CompleteEnd(c)
           lines == SubSeq(c, 1, e)
<1>1. EndsAt(c, e)
    BY CompleteEndsAt
<1> HIDE DEF e
<1>2. e \in Nat /\ e <= Len(c) /\ (e = 0 \/ c[e] = Newline)
    BY <1>1 DEF EndsAt
<1>3. /\ lines \in Seq(Byte) /\ Len(lines) = IF 1 <= e THEN e - 1 + 1 ELSE 0
      /\ \A i \in 1..(e - 1 + 1) : lines[i] = c[1 + i - 1]
    BY <1>2, Piece
<1> HIDE DEF lines
<1>4. Len(lines) = e /\ (e # 0 => lines[e] = c[e])
    BY <1>2, <1>3
<1>5. EndsLine(lines)
    BY <1>2, <1>3, <1>4 DEF EndsLine
<1> QED BY <1>3, <1>4, <1>5 DEF lines, e

----------------------------------------------------------------------------
(* The window of a region: its last bytes.                                    *)
WindowStart(c) == IF Len(c) > OverlapBytes THEN Len(c) - OverlapBytes ELSE 0

LEMMA WindowBytes ==
    ASSUME NEW c \in Seq(Byte)
    PROVE  LET s == WindowStart(c)
               w == Reread!Window(c)
           IN  /\ s \in 0..Len(c) /\ w \in Seq(Byte) /\ Len(w) = Len(c) - s
               /\ \A i \in 1..Len(w) : w[i] = c[s + i]
<1> DEFINE s == WindowStart(c)
           w == Reread!Window(c)
<1>1. Len(c) \in Nat /\ s \in 0..Len(c)
    BY ReaderConstants DEF WindowStart
<1>2. w = SubSeq(c, 1 + s, Len(c))
    BY DEF Reread!Window, WindowStart
<1> HIDE DEF s, w
<1>3. PICK m \in Nat \ {0} : m = 1 + s
    BY <1>1
<1>4. PICK n \in Nat : n = Len(c)
    BY <1>1
<1>5. /\ w \in Seq(Byte) /\ Len(w) = IF m <= n THEN n - m + 1 ELSE 0
      /\ \A i \in 1..(n - m + 1) : w[i] = c[m + i - 1]
    BY <1>2, <1>3, <1>4, Piece
<1>6. Len(w) = Len(c) - s
    BY <1>1, <1>3, <1>4, <1>5
<1>7. ASSUME NEW i \in 1..Len(w) PROVE w[i] = c[s + i]
    <2>1. i \in 1..(n - m + 1) /\ m + i - 1 = s + i
        BY <1>1, <1>3, <1>4, <1>6
    <2> QED BY <1>5, <2>1
<1> QED BY <1>1, <1>5, <1>6, <1>7 DEF s, w

LEMMA WindowAgain ==
    ASSUME NEW c \in Seq(Byte), NEW d \in Seq(Byte)
    PROVE  Reread!Window(Reread!Window(c) \o d) = Reread!Window(c \o d)
<1> DEFINE s == WindowStart(c)
           w == Reread!Window(c)
           p == w \o d
           q == c \o d
           u == Reread!Window(p)
           v == Reread!Window(q)
<1>1. /\ Len(c) \in Nat /\ s \in 0..Len(c) /\ w \in Seq(Byte) /\ Len(w) = Len(c) - s
      /\ \A i \in 1..Len(w) : w[i] = c[s + i]
    BY WindowBytes
<1>2. s = IF Len(c) > OverlapBytes THEN Len(c) - OverlapBytes ELSE 0
    BY DEF WindowStart
<1> HIDE DEF s, w
<1>3. /\ p \in Seq(Byte) /\ Len(p) = Len(w) + Len(d)
      /\ \A i \in 1..(Len(w) + Len(d)) : p[i] = IF i <= Len(w) THEN w[i] ELSE d[i - Len(w)]
    BY <1>1, ConcatProperties
<1>4. /\ q \in Seq(Byte) /\ Len(q) = Len(c) + Len(d)
      /\ \A i \in 1..(Len(c) + Len(d)) : q[i] = IF i <= Len(c) THEN c[i] ELSE d[i - Len(c)]
    BY ConcatProperties
<1> HIDE DEF p, q
<1>5. /\ WindowStart(p) \in 0..Len(p) /\ u \in Seq(Byte) /\ Len(u) = Len(p) - WindowStart(p)
      /\ \A i \in 1..Len(u) : u[i] = p[WindowStart(p) + i]
    BY <1>3, WindowBytes
<1>6. /\ WindowStart(q) \in 0..Len(q) /\ v \in Seq(Byte) /\ Len(v) = Len(q) - WindowStart(q)
      /\ \A i \in 1..Len(v) : v[i] = q[WindowStart(q) + i]
    BY <1>4, WindowBytes
<1> HIDE DEF u, v
<1>7. Len(d) \in Nat /\ Len(w) \in Nat /\ OverlapBytes \in Nat
    BY <1>1, ReaderConstants
<1>8. WindowStart(q) = s + WindowStart(p) /\ Len(q) = s + Len(p)
    <2>1. Len(p) = Len(w) + Len(d) /\ Len(q) = Len(c) + Len(d) /\ Len(w) = Len(c) - s
        BY <1>1, <1>3, <1>4
    <2>2. CASE Len(c) > OverlapBytes
        <3>1. s = Len(c) - OverlapBytes /\ Len(w) = OverlapBytes /\ Len(p) = OverlapBytes + Len(d)
            BY <1>2, <1>7, <2>1, <2>2, <1>1
        <3>2. WindowStart(p) = Len(d)
            BY <1>7, <3>1 DEF WindowStart
        <3>3. WindowStart(q) = (Len(c) + Len(d)) - OverlapBytes
            BY <1>1, <1>7, <2>1, <2>2 DEF WindowStart
        <3> QED BY <1>1, <1>7, <2>1, <3>1, <3>2, <3>3
    <2>3. CASE ~(Len(c) > OverlapBytes)
        <3>1. s = 0 /\ Len(p) = Len(q)
            BY <1>1, <1>2, <1>7, <2>1, <2>3
        <3>2. WindowStart(p) = WindowStart(q)
            BY <3>1 DEF WindowStart
        <3> QED BY <1>4, <1>6, <1>7, <1>1, <2>1, <3>1, <3>2
    <2> QED BY <2>2, <2>3
<1>9. ASSUME NEW i \in 1..Len(p) PROVE p[i] = q[s + i]
    <2>1. CASE i <= Len(w)
        <3>1. s + i \in 1..(Len(c) + Len(d)) /\ s + i <= Len(c) /\ i \in 1..Len(w)
            BY <1>1, <1>3, <1>7, <2>1
        <3> QED BY <1>1, <1>3, <1>4, <2>1, <3>1
    <2>2. CASE ~(i <= Len(w))
        <3>1. PICK k \in 1..(Len(c) + Len(d)) : k = s + i /\ ~(k <= Len(c)) /\ k - Len(c) = i - Len(w)
            BY <1>1, <1>3, <1>7, <2>2
        <3>2. q[k] = d[i - Len(w)]
            BY <1>4, <3>1
        <3> QED BY <1>3, <2>2, <3>1, <3>2
    <2> QED BY <2>1, <2>2
<1>10. Len(u) = Len(v)
    BY <1>1, <1>5, <1>6, <1>8
<1>11. ASSUME NEW i \in 1..Len(u) PROVE u[i] = v[i]
    <2>1. PICK k \in 1..Len(p) : k = WindowStart(p) + i
        BY <1>3, <1>5
    <2>2. u[i] = p[k] /\ p[k] = q[s + k]
        BY <1>5, <1>9, <2>1
    <2>3. v[i] = q[WindowStart(q) + i]
        BY <1>6, <1>10
    <2>4. WindowStart(q) + i = s + k
        <3>1. s \in Int /\ WindowStart(p) \in Int /\ i \in Int
            BY <1>1, <1>5, <1>10
        <3> QED BY <1>8, <2>1, <3>1
    <2> QED BY <2>2, <2>3, <2>4
<1>12. u = v
    BY <1>5, <1>6, <1>10, <1>11, SeqEqual
<1> QED BY <1>12 DEF u, v, p, q, w

(* What is left of a piece of a file behind its first bytes.                  *)
LEMMA RestOfPiece ==
    ASSUME NEW c \in Seq(Byte), NEW s \in 0..Len(c), NEW t \in 0..(Len(c) - s)
    PROVE  LET f == SubSeq(c, s + 1, Len(c))
           IN  /\ f \in Seq(Byte) /\ Len(f) = Len(c) - s
               /\ SubSeq(f, t + 1, Len(f)) = SubSeq(c, (s + t) + 1, Len(c))
<1> DEFINE f == SubSeq(c, s + 1, Len(c))
           g == SubSeq(f, t + 1, Len(f))
           h == SubSeq(c, (s + t) + 1, Len(c))
<1>1. Len(c) \in Nat
    OBVIOUS
<1>2. PICK m \in Nat \ {0}, n \in Nat \ {0}, k \in Nat \ {0} :
        m = s + 1 /\ n = t + 1 /\ k = (s + t) + 1
    BY <1>1
<1>3. /\ f \in Seq(Byte) /\ Len(f) = IF m <= Len(c) THEN Len(c) - m + 1 ELSE 0
      /\ \A i \in 1..(Len(c) - m + 1) : f[i] = c[m + i - 1]
    BY <1>1, <1>2, Piece
<1> HIDE DEF f
<1>4. Len(f) = Len(c) - s
    BY <1>1, <1>2, <1>3
<1>5. /\ g \in Seq(Byte) /\ Len(g) = IF n <= Len(f) THEN Len(f) - n + 1 ELSE 0
      /\ \A i \in 1..(Len(f) - n + 1) : g[i] = f[n + i - 1]
    BY <1>1, <1>2, <1>3, Piece
<1>6. /\ h \in Seq(Byte) /\ Len(h) = IF k <= Len(c) THEN Len(c) - k + 1 ELSE 0
      /\ \A i \in 1..(Len(c) - k + 1) : h[i] = c[k + i - 1]
    BY <1>1, <1>2, Piece
<1> HIDE DEF g, h
<1>7. Len(g) = Len(h) /\ Len(g) = Len(f) - n + 1
    <2>1. Len(g) = IF n <= Len(f) THEN Len(f) - n + 1 ELSE 0
        BY <1>5
    <2>2. Len(h) = IF k <= Len(c) THEN Len(c) - k + 1 ELSE 0
        BY <1>6
    <2>3. Len(f) - n + 1 = Len(c) - k + 1 /\ Len(f) - n + 1 >= 0
        BY <1>1, <1>2, <1>4
    <2> QED BY <1>1, <1>2, <1>4, <2>1, <2>2, <2>3
<1>8. ASSUME NEW i \in 1..Len(g) PROVE g[i] = h[i]
    <2>1. PICK j \in 1..(Len(c) - m + 1) : j = n + i - 1
        BY <1>1, <1>2, <1>4, <1>7
    <2>2. i \in 1..(Len(f) - n + 1) /\ i \in 1..(Len(c) - k + 1) /\ k + i - 1 = m + j - 1
        BY <1>1, <1>2, <1>4, <1>7, <2>1
    <2>3. g[i] = f[j] /\ f[j] = c[m + j - 1] /\ h[i] = c[k + i - 1]
        BY <1>3, <1>5, <1>6, <2>1, <2>2
    <2> QED BY <2>2, <2>3
<1>9. g = h
    BY <1>5, <1>6, <1>7, <1>8, SeqEqual
<1> QED BY <1>3, <1>4, <1>9 DEF f, g, h

----------------------------------------------------------------------------
(* An entry holds the complete lines of the bytes the last answer for its     *)
(* file was made of, and no file has two entries.                             *)
Text == {Wide, Bad} \cup Byte
Entries == [file : Files, text : Seq(Text), offset : Nat, tail : Seq(Byte), size : Nat, mtime : Nat]
Seen == [bytes : Seq(Byte), size : Nat, mtime : Nat]
Lines(s) == SubSeq(s.bytes, 1, Reread!CompleteEnd(s.bytes))
HoldsLines(e, s) ==
    /\ e.offset = Len(Lines(s)) /\ e.tail = Reread!Window(Lines(s))
    /\ e.text = Reread!Decode(Lines(s))
    /\ e.size = s.size /\ e.mtime = s.mtime
HoldLines(list, of) ==
    /\ list \in Seq(Entries)
    /\ \A i \in 1..Len(list) : HoldsLines(list[i], of[list[i].file])
    /\ \A i, j \in 1..Len(list) : list[i].file = list[j].file => i = j

LEMMA DecodeText ==
    ASSUME NEW c \in Seq(Byte)
    PROVE  Reread!Decode(c) \in Seq(Text)
<1>1. Characters(c) \in Seq(Text) /\ StartsIn(c) \in SUBSET DOMAIN Characters(c)
    BY CharactersSeq DEF Text
<1>2. Kept(Characters(c), StartsIn(c)) \in Seq(Text)
    BY <1>1, KeptElements
<1> QED BY <1>2, DecodeIsKept

LEMMA EntryOf ==
    ASSUME HoldLines(cache, known), NEW f, Reread!Cached(f)
    PROVE  /\ Reread!Entry(f) \in Entries /\ Reread!Entry(f).file = f
           /\ HoldsLines(Reread!Entry(f), known[f])
<1>1. DOMAIN cache = 1..Len(cache) /\ \A i \in 1..Len(cache) : cache[i] \in Entries
    BY DEF HoldLines
<1>2. PICK i \in 1..Len(cache) : i = Reread!Position(f) /\ cache[i].file = f
    BY <1>1 DEF Reread!Cached, Reread!Position
<1>3. cache[i] = Reread!Entry(f)
    BY <1>2 DEF Reread!Entry
<1> QED BY <1>1, <1>2, <1>3 DEF HoldLines

LEMMA OthersHold ==
    ASSUME NEW of, HoldLines(cache, of), NEW f
    PROVE  LET others == Reread!Others(f)
           IN  /\ HoldLines(others, of)
               /\ \A i \in 1..Len(others) : others[i].file # f
<1> DEFINE places == {i \in DOMAIN cache : cache[i].file # f}
           others == Kept(cache, places)
           n == Cardinality(places)
<1>1. cache \in Seq(Entries) /\ DOMAIN cache = 1..Len(cache) /\ Len(cache) \in Nat
    BY DEF HoldLines
<1>2. places \in SUBSET DOMAIN cache /\ \A i \in places : i \in 1..Len(cache) /\ cache[i].file # f
    BY <1>1
<1>3. Reread!Others(f) = others
    BY KeptByReader DEF Reread!Others
<1> HIDE DEF places
<1>4. /\ IsFiniteSet(places) /\ n \in Nat /\ others \in Seq(Entries) /\ Len(others) = n
      /\ \A k \in 1..n : Nth(places, k) \in places /\ others[k] = cache[Nth(places, k)]
    BY <1>1, <1>2, KeptElements
<1>5. ASSUME NEW k \in 1..n, NEW m \in 1..n, Nth(places, k) = Nth(places, m) PROVE k = m
    <2>1. places \in SUBSET Nat
        BY <1>1, <1>2
    <2>2. Rank(places, Nth(places, k)) = k - 1 /\ Rank(places, Nth(places, m)) = m - 1
        BY <1>4, <2>1, NthPlace
    <2>3. k - 1 = m - 1
        BY <1>5, <2>2
    <2> QED BY <1>4, <2>3
<1> HIDE DEF others, n
<1>6. \A k \in 1..n : HoldsLines(others[k], of[others[k].file]) /\ others[k].file # f
    BY <1>2, <1>4 DEF HoldLines
<1>7. \A k, m \in 1..n : others[k].file = others[m].file => k = m
    BY <1>2, <1>4, <1>5 DEF HoldLines
<1> QED BY <1>3, <1>4, <1>6, <1>7 DEF HoldLines

LEMMA AppendHolds ==
    ASSUME NEW of, DOMAIN of = Files, NEW list, HoldLines(list, of), NEW e \in Entries, NEW s,
           \A i \in 1..Len(list) : list[i].file # e.file, HoldsLines(e, s)
    PROVE  HoldLines(Append(list, e), [of EXCEPT ![e.file] = s])
<1> DEFINE all == Append(list, e)
           then == [of EXCEPT ![e.file] = s]
           n == Len(list)
<1>1. list \in Seq(Entries) /\ n \in Nat /\ \A i \in 1..n : list[i] \in Entries
    BY DEF HoldLines
<1>2. /\ all \in Seq(Entries) /\ Len(all) = n + 1
      /\ \A i \in 1..n : all[i] = list[i]
      /\ all[n + 1] = e
    BY <1>1, AppendProperties
<1>3. then[e.file] = s /\ \A f \in Files : f # e.file => then[f] = of[f]
    <2>1. e.file \in Files
        BY DEF Entries
    <2> QED BY <2>1
<1>4. \A i \in 1..n : list[i].file \in Files
    BY <1>1 DEF Entries
<1> HIDE DEF all, then, n
<1>5. \A i \in 1..n : HoldsLines(all[i], then[all[i].file])
    <2> TAKE i \in 1..n
    <2>1. HoldsLines(list[i], of[list[i].file])
        BY DEF HoldLines, n
    <2>2. then[list[i].file] = of[list[i].file]
        BY <1>3, <1>4 DEF n
    <2>3. all[i] = list[i]
        BY <1>2
    <2> QED BY <2>1, <2>2, <2>3
<1>6. HoldsLines(all[n + 1], then[all[n + 1].file])
    BY <1>2, <1>3
<1>7. \A i \in 1..Len(all) : i \in 1..n \/ i = n + 1
    BY <1>1, <1>2
<1>8. \A i, j \in 1..n : all[i].file = all[j].file => i = j
    BY <1>2 DEF HoldLines, n
<1>9. \A i \in 1..n : all[i].file # e.file
    BY <1>2 DEF n
<1>10. \A i, j \in 1..Len(all) : all[i].file = all[j].file => i = j
    BY <1>2, <1>7, <1>8, <1>9
<1> QED BY <1>2, <1>5, <1>6, <1>7, <1>10 DEF HoldLines, all, then

(* The oldest entries go: those that are left are an end of the list.         *)
LEMMA EndHolds ==
    ASSUME NEW of, NEW list, HoldLines(list, of), NEW k \in 0..Len(list)
    PROVE  HoldLines(SubSeq(list, k + 1, Len(list)), of)
<1> DEFINE rest == SubSeq(list, k + 1, Len(list))
           n == Len(list)
<1>1. list \in Seq(Entries) /\ n \in Nat /\ \A i \in 1..n : list[i] \in Entries
    BY DEF HoldLines
<1>2. PICK m \in 1..(n + 1) : m = k + 1
    BY <1>1
<1>3. /\ rest \in Seq(Entries) /\ Len(rest) = IF m <= n THEN n - m + 1 ELSE 0
      /\ \A i \in 1..(n - m + 1) : rest[i] = list[m + i - 1]
    <2>1. \A i \in m..n : list[i] \in Entries
        BY <1>1
    <2>2. m \in Int /\ n \in Int
        BY <1>1
    <2> QED BY <1>2, <2>1, <2>2, SubSeqProperties
<1> HIDE DEF rest
<1>4. Len(rest) = n - k
    BY <1>1, <1>2, <1>3
<1>5. ASSUME NEW i \in 1..Len(rest)
      PROVE  k + i \in 1..n /\ rest[i] = list[k + i]
    <2>1. i \in 1..(n - m + 1) /\ m + i - 1 = k + i /\ k + i \in 1..n
        BY <1>1, <1>2, <1>4
    <2> QED BY <1>3, <2>1
<1>6. \A i \in 1..Len(rest) : HoldsLines(rest[i], of[rest[i].file])
    BY <1>5 DEF HoldLines
<1>7. \A i, j \in 1..Len(rest) : rest[i].file = rest[j].file => i = j
    <2> TAKE i, j \in 1..Len(rest)
    <2>1. rest[i].file = rest[j].file => k + i = k + j
        BY <1>5 DEF HoldLines
    <2> QED BY <1>1, <1>4, <2>1
<1> QED BY <1>3, <1>6, <1>7 DEF HoldLines, rest

LEMMA StoreHolds ==
    ASSUME NEW of, DOMAIN of = Files, HoldLines(cache, of), NEW e \in Entries, NEW s,
           HoldsLines(e, s), Reread!Store(e)
    PROVE  HoldLines(cache', [of EXCEPT ![e.file] = s])
<1> DEFINE others == Reread!Others(e.file)
           all == Append(others, e)
           then == [of EXCEPT ![e.file] = s]
<1>1. HoldLines(others, of) /\ \A i \in 1..Len(others) : others[i].file # e.file
    BY OthersHold
<1> HIDE DEF others
<1>2. HoldLines(all, then)
    BY <1>1, AppendHolds
<1>3. \E k \in 0..Len(all) : cache' = SubSeq(all, k + 1, Len(all))
    <2> DEFINE sum == Reread!TotalWithout(e.file) + Reread!Weight(e)
               Left(k) == sum - Reread!WeightOf(SubSeq(all, 1, k))
               Fits(k) == Len(all) - k <= MaxCacheEntries /\ Left(k) <= MaxCacheBytes
               stops == {k \in 0..Len(all) : k = Len(all) \/ Fits(k)}
               k == CHOOSE k \in stops : \A j \in stops : k <= j
    <2>1. cache' = SubSeq(all, k + 1, Len(all))
        BY Zenon DEF Reread!Store, others
    <2>2. Len(all) \in Nat
        BY <1>2 DEF HoldLines
    <2>3. stops \in SUBSET Nat /\ stops # {} /\ stops \subseteq 0..Len(all)
        <3>1. Len(all) \in 0..Len(all) /\ 0..Len(all) \subseteq Nat
            BY <2>2
        <3>2. Len(all) \in stops /\ stops \subseteq 0..Len(all)
            BY <3>1, Zenon
        <3> HIDE DEF stops
        <3> QED BY <3>1, <3>2
    <2> HIDE DEF stops, all
    <2>4. \E j \in stops : \A i \in stops : j <= i
        BY <2>3, LeastNumber
    <2>5. k \in stops
        BY <2>4
    <2> HIDE DEF k
    <2> QED BY <2>1, <2>3, <2>5
<1> HIDE DEF all, then
<1>4. HoldLines(cache', then)
    BY <1>2, <1>3, EndHolds
<1> QED BY <1>4 DEF then

----------------------------------------------------------------------------
(* What a read makes of the bytes it was given.                               *)
LEMMA LinesOf ==
    ASSUME NEW s \in Seen
    PROVE  /\ Lines(s) \in Seq(Byte) /\ EndsLine(Lines(s))
           /\ Len(Lines(s)) = Reread!CompleteEnd(s.bytes)
           /\ Lines(s) = SubSeq(s.bytes, 1, Len(Lines(s)))
<1>1. s.bytes \in Seq(Byte)
    BY DEF Seen
<1>2. /\ Lines(s) \in Seq(Byte) /\ EndsLine(Lines(s))
      /\ Len(Lines(s)) = Reread!CompleteEnd(s.bytes)
    BY <1>1, CompletePart DEF Lines
<1>3. Lines(s) = SubSeq(s.bytes, 1, Reread!CompleteEnd(s.bytes))
    BY DEF Lines
<1> QED BY <1>2, <1>3

LEMMA BothParts ==
    ASSUME NEW c \in Seq(Byte)
    PROVE  LET end == Reread!CompleteEnd(c)
           IN  /\ end \in Nat /\ SubSeq(c, 1, end) \in Seq(Byte)
               /\ EndsLine(SubSeq(c, 1, end)) /\ Len(SubSeq(c, 1, end)) = end
               /\ SubSeq(c, end + 1, Len(c)) \in Seq(Byte)
               /\ Reread!Decode(c)
                    = Reread!Decode(SubSeq(c, 1, end)) \o Reread!Decode(SubSeq(c, end + 1, Len(c)))
<1> DEFINE end == Reread!CompleteEnd(c)
           first == SubSeq(c, 1, end)
           rest == SubSeq(c, end + 1, Len(c))
<1>1. EndsAt(c, end)
    BY CompleteEndsAt
<1>2. first \in Seq(Byte) /\ EndsLine(first) /\ Len(first) = end
    BY CompletePart
<1> HIDE DEF end
<1>3. end \in 0..Len(c) /\ Len(c) \in Nat /\ end \in Nat
    BY <1>1 DEF EndsAt
<1>4. rest \in Seq(Byte)
    <2>1. PICK m \in Nat \ {0} : m = end + 1
        BY <1>3
    <2> QED BY <1>3, <2>1, Piece
<1>5. first \o rest = c
    BY <1>3, CutInTwo
<1> HIDE DEF first, rest
<1>6. Reread!Decode(first \o rest) = Reread!Decode(first) \o Reread!Decode(rest)
    BY <1>2, <1>4, DecodeSplit
<1> QED BY <1>2, <1>3, <1>4, <1>5, <1>6 DEF first, rest, end

LEMMA TailJoins ==
    ASSUME NEW e \in Entries, NEW s \in Seen, HoldsLines(e, s), NEW c \in Seq(Byte),
           NEW size \in Nat, NEW mtime \in Nat
    PROVE  LET end   == Reread!CompleteEnd(c)
               lines == SubSeq(c, 1, end)
               bytes == SubSeq(s.bytes, 1, e.offset) \o c
               e2    == [file |-> e.file, text |-> e.text \o Reread!Decode(lines),
                         offset |-> e.offset + end, tail |-> Reread!Window(e.tail \o lines),
                         size |-> size, mtime |-> mtime]
               s2    == [bytes |-> bytes, size |-> size, mtime |-> mtime]
           IN  /\ e2 \in Entries /\ s2 \in Seen /\ HoldsLines(e2, s2)
               /\ e2.text \o Reread!Decode(SubSeq(c, end + 1, Len(c))) = Reread!Decode(bytes)
<1> DEFINE end   == Reread!CompleteEnd(c)
           lines == SubSeq(c, 1, end)
           rest  == SubSeq(c, end + 1, Len(c))
           old   == Lines(s)
           text  == e.text \o Reread!Decode(lines)
           tail  == Reread!Window(e.tail \o lines)
           bytes == SubSeq(s.bytes, 1, e.offset) \o c
           e2    == [file |-> e.file, text |-> text,
                     offset |-> e.offset + end, tail |-> tail,
                     size |-> size, mtime |-> mtime]
           s2    == [bytes |-> bytes, size |-> size, mtime |-> mtime]
<1>1. /\ old \in Seq(Byte) /\ EndsLine(old) /\ e.offset = Len(old)
      /\ SubSeq(s.bytes, 1, e.offset) = old
      /\ e.tail = Reread!Window(old) /\ e.text = Reread!Decode(old)
    BY LinesOf DEF HoldsLines
<1>2. /\ end \in Nat /\ lines \in Seq(Byte) /\ EndsLine(lines) /\ Len(lines) = end
      /\ rest \in Seq(Byte)
      /\ Reread!Decode(c) = Reread!Decode(lines) \o Reread!Decode(rest)
    BY BothParts
<1>3. /\ Reread!CompleteEnd(old \o c) = Len(old) + end
      /\ SubSeq(old \o c, 1, Len(old) + end) = old \o lines
    BY <1>1, LinesJoin
<1> HIDE DEF end, lines, rest, old
<1>4. bytes = old \o c
    BY <1>1
<1>5. bytes \in Seq(Byte) /\ s2 \in Seen /\ s2.bytes = bytes
    <2>1. bytes \in Seq(Byte)
        BY <1>1, <1>4
    <2> HIDE DEF bytes
    <2> QED BY <2>1 DEF Seen
<1>6. old \o lines \in Seq(Byte) /\ Len(old \o lines) = e.offset + end
    <2>1. old \o lines \in Seq(Byte) /\ Len(old \o lines) = Len(old) + Len(lines)
        BY <1>1, <1>2, ConcatProperties
    <2> QED BY <1>1, <1>2, <2>1
<1>7. Lines(s2) = old \o lines
    BY <1>3, <1>4 DEF Lines
<1>8. text = Reread!Decode(old \o lines)
    BY <1>1, <1>2, DecodeSplit
<1>9. tail = Reread!Window(old \o lines)
    BY <1>1, <1>2, WindowAgain
<1>10. text \in Seq(Text) /\ tail \in Seq(Byte)
    BY <1>6, <1>8, <1>9, DecodeText, WindowBytes
<1>11. e.file \in Files /\ e.offset + end \in Nat
    BY <1>1, <1>2 DEF Entries
<1>12. text \o Reread!Decode(rest) = Reread!Decode(bytes)
    <2>1. Reread!Decode(bytes) = Reread!Decode(old) \o Reread!Decode(c)
        BY <1>1, <1>4, DecodeSplit
    <2>2. /\ Reread!Decode(old) \in Seq(Text) /\ Reread!Decode(lines) \in Seq(Text)
          /\ Reread!Decode(rest) \in Seq(Text)
        BY <1>1, <1>2, DecodeText
    <2>3. text = Reread!Decode(old) \o Reread!Decode(lines)
        BY <1>1
    <2> DEFINE u == Reread!Decode(old)
               v == Reread!Decode(lines)
               w == Reread!Decode(rest)
    <2>4. Reread!Decode(bytes) = u \o (v \o w) /\ text = u \o v
        BY <1>2, <2>1, <2>3
    <2> HIDE DEF u, v, w, text
    <2>5. (u \o v) \o w = u \o (v \o w)
        BY <2>2, ConcatAssociative DEF u, v, w
    <2> QED BY <2>4, <2>5 DEF w
<1> HIDE DEF text, tail, bytes
<1>13. e2 \in Entries
    BY <1>10, <1>11 DEF Entries
<1>14. HoldsLines(e2, s2)
    BY <1>6, <1>7, <1>8, <1>9 DEF HoldsLines
<1> QED BY <1>5, <1>12, <1>13, <1>14 DEF end, lines, rest, text, tail, bytes

LEMMA WholeRead ==
    ASSUME NEW f \in Files, NEW c \in Seq(Byte), NEW size \in Nat, NEW mtime \in Nat
    PROVE  LET end   == Reread!CompleteEnd(c)
               lines == SubSeq(c, 1, end)
               e2    == [file |-> f, text |-> Reread!Decode(lines), offset |-> end,
                         tail |-> Reread!Window(lines), size |-> size, mtime |-> mtime]
               s2    == [bytes |-> << >> \o c, size |-> size, mtime |-> mtime]
           IN  /\ e2 \in Entries /\ s2 \in Seen /\ HoldsLines(e2, s2) /\ << >> \o c = c
               /\ e2.text \o Reread!Decode(SubSeq(c, end + 1, Len(c))) = Reread!Decode(c)
<1> DEFINE end   == Reread!CompleteEnd(c)
           lines == SubSeq(c, 1, end)
           rest  == SubSeq(c, end + 1, Len(c))
           e2    == [file |-> f, text |-> Reread!Decode(lines), offset |-> end,
                     tail |-> Reread!Window(lines), size |-> size, mtime |-> mtime]
           s2    == [bytes |-> << >> \o c, size |-> size, mtime |-> mtime]
<1>1. << >> \o c = c
    BY ConcatEmptySeq
<1>2. /\ end \in Nat /\ lines \in Seq(Byte) /\ Len(lines) = end
      /\ Reread!Decode(c) = Reread!Decode(lines) \o Reread!Decode(rest)
    BY BothParts
<1>3. Lines(s2) = lines
    BY <1>1 DEF Lines
<1> HIDE DEF end, lines, rest
<1>4. Reread!Decode(lines) \in Seq(Text) /\ Reread!Window(lines) \in Seq(Byte)
    BY <1>2, DecodeText, WindowBytes
<1>5. e2 \in Entries /\ s2 \in Seen
    BY <1>1, <1>2, <1>4 DEF Entries, Seen
<1>6. HoldsLines(e2, s2)
    BY <1>2, <1>3 DEF HoldsLines
<1> QED BY <1>1, <1>2, <1>5, <1>6 DEF end, lines, rest

----------------------------------------------------------------------------
(* The cache between its calls, and a call between its two steps: what stat   *)
(* saw of a file that has stood still since is what the file is, and if no    *)
(* blind spot was met then, none is met now.                                  *)
ReadGood(r) ==
    /\ r \in [file : Files, from : Nat, size : Nat, mtime : Nat, excused : BOOLEAN, calm : BOOLEAN]
    /\ r.from = IF Reread!Cached(r.file) THEN Reread!StartOf(Reread!Entry(r.file)) ELSE 0
    /\ r.calm => r.size = Len(disk[r.file].bytes) /\ r.mtime = disk[r.file].mtime
    /\ r.calm /\ ~r.excused => ~Reread!Excused(r.file)

CacheInv ==
    /\ clock \in Nat
    /\ disk \in [Files -> [bytes : Transcripts, mtime : Nat, opens : BOOLEAN]]
    /\ known \in [Files -> Seen]
    /\ HoldLines(cache, known)
    /\ read # None => ReadGood(read)

LEMMA OnDisk ==
    ASSUME CacheInv, NEW f \in Files
    PROVE  /\ disk[f].bytes \in Seq(Byte) /\ Len(disk[f].bytes) \in Nat /\ disk[f].mtime \in Nat
           /\ known[f] \in Seen
    BY ReaderConstants DEF CacheInv

LEMMA EntryWindow ==
    ASSUME NEW e \in Entries, NEW s \in Seen, HoldsLines(e, s)
    PROVE  /\ Reread!StartOf(e) \in 0..e.offset /\ e.offset \in Nat /\ Len(e.tail) \in Nat
           /\ Reread!StartOf(e) + Len(e.tail) = e.offset
<1> DEFINE w == WindowStart(Lines(s))
<1>1. Lines(s) \in Seq(Byte) /\ e.offset = Len(Lines(s)) /\ e.tail = Reread!Window(Lines(s))
    BY LinesOf DEF HoldsLines
<1>2. w \in 0..e.offset /\ Len(e.tail) = e.offset - w
    BY <1>1, WindowBytes
<1> HIDE DEF w
<1>3. e.offset \in Nat
    BY DEF Entries
<1>4. Reread!StartOf(e) = e.offset - Len(e.tail)
    BY DEF Reread!StartOf
<1>5. Reread!StartOf(e) = w /\ Len(e.tail) \in Nat
    BY <1>2, <1>3, <1>4
<1> QED BY <1>2, <1>3, <1>5

LEMMA FetchedBytes ==
    ASSUME CacheInv, read # None
    PROVE  Reread!Fetched \in Seq(Byte)
<1> DEFINE now == disk[read.file].bytes
           upto == IF Len(now) < read.size THEN Len(now) ELSE read.size
<1>1. read.file \in Files /\ read.from \in Nat /\ read.size \in Nat
    BY DEF CacheInv, ReadGood
<1>2. now \in Seq(Byte) /\ Len(now) \in Nat
    BY <1>1, OnDisk
<1>3. Reread!Fetched = SubSeq(now, read.from + 1, upto)
    BY DEF Reread!Fetched
<1> HIDE DEF now
<1>4. upto \in Nat /\ upto <= Len(now)
    BY <1>1, <1>2
<1>5. PICK m \in Nat \ {0} : m = read.from + 1
    BY <1>1
<1> HIDE DEF upto
<1>6. SubSeq(now, m, upto) \in Seq(Byte)
    BY <1>2, <1>4, Piece
<1> QED BY <1>3, <1>5, <1>6

(* A file that stood still is read to its end.                                *)
LEMMA CalmFetch ==
    ASSUME CacheInv, read # None, read.calm
    PROVE  Reread!Fetched = SubSeq(disk[read.file].bytes, read.from + 1, Len(disk[read.file].bytes))
<1>1. read.size = Len(disk[read.file].bytes)
    BY DEF CacheInv, ReadGood
<1> QED BY <1>1 DEF Reread!Fetched

LEMMA CalmWhole ==
    ASSUME CacheInv, read # None, read.calm, ~Reread!Cached(read.file)
    PROVE  Reread!Fetched = disk[read.file].bytes
<1> DEFINE now == disk[read.file].bytes
<1>1. read.from = 0 /\ read.file \in Files
    BY DEF CacheInv, ReadGood
<1>2. now \in Seq(Byte)
    BY <1>1, OnDisk
<1>3. Reread!Fetched = SubSeq(now, 1, Len(now))
    BY <1>1, CalmFetch
<1> HIDE DEF now
<1>4. SubSeq(now, 1, Len(now)) = now
    BY <1>2, SubSeqFull
<1> QED BY <1>3, <1>4 DEF now

(* No signal of divergence and no blind spot: the lines that are known are    *)
(* what the file begins with.                                                 *)
LEMMA NotRewritten ==
    ASSUME CacheInv, read # None, read.calm, ~read.excused, Reread!Cached(read.file),
           ~Reread!Diverged(Reread!Entry(read.file))
    PROVE  ~Reread!Rewritten(read.file)
<1> DEFINE f == read.file
           e == Reread!Entry(f)
           s == known[f]
           n == Len(disk[f].bytes)
<1>1. f \in Files /\ read.size = n /\ read.mtime = disk[f].mtime /\ ~Reread!Excused(f)
    BY DEF CacheInv, ReadGood
<1>2. n \in Nat /\ s \in Seen
    BY <1>1, OnDisk
<1>3. e \in Entries /\ HoldsLines(e, s)
    BY EntryOf DEF CacheInv
<1>4. /\ s.size \in Nat /\ e.size = s.size /\ e.mtime = s.mtime
      /\ e.offset = Reread!CompleteEnd(s.bytes) /\ e.offset \in Nat
    BY <1>2, <1>3, LinesOf DEF HoldsLines, Seen, Entries
<1>5. ~(read.size < e.offset) /\ ~(read.size = e.size /\ read.mtime # e.mtime)
    BY DEF Reread!Diverged
<1>6. SUFFICES ASSUME Reread!Rewritten(f) PROVE FALSE
    OBVIOUS
<1>7. ~Reread!GrownOrTooSoon(f) /\ ~Reread!CutInTail(f)
    BY <1>1, <1>6 DEF Reread!Excused
<1>8. ~(n > s.size) /\ ~(n = s.size /\ disk[f].mtime = s.mtime)
    BY <1>7 DEF Reread!GrownOrTooSoon
<1>9. ~(n < s.size /\ n >= e.offset)
    BY <1>4, <1>7 DEF Reread!CutInTail
<1> HIDE DEF n, s, e
<1> QED BY <1>1, <1>2, <1>4, <1>5, <1>8, <1>9

LEMMA CalmTail ==
    ASSUME CacheInv, read # None, read.calm, ~read.excused, Reread!Cached(read.file),
           ~Reread!Diverged(Reread!Entry(read.file))
    PROVE  LET e     == Reread!Entry(read.file)
               fresh == SubSeq(Reread!Fetched, Len(e.tail) + 1, Len(Reread!Fetched))
           IN  SubSeq(known[read.file].bytes, 1, e.offset) \o fresh = disk[read.file].bytes
<1> DEFINE e == Reread!Entry(read.file)
           s == known[read.file]
           now == disk[read.file].bytes
           piece == Reread!Fetched
           start == Reread!StartOf(e)
           size == Len(e.tail)
<1>1. read.file \in Files /\ read.from = start
    BY DEF CacheInv, ReadGood
<1>2. now \in Seq(Byte) /\ Len(now) \in Nat /\ s \in Seen
    BY <1>1, OnDisk
<1>3. e \in Entries /\ HoldsLines(e, s)
    BY EntryOf DEF CacheInv
<1>4. /\ start \in 0..e.offset /\ e.offset \in Nat /\ size \in Nat
      /\ start + size = e.offset
    BY <1>2, <1>3, EntryWindow
<1>5. /\ Lines(s) \in Seq(Byte) /\ e.offset = Len(Lines(s))
      /\ SubSeq(s.bytes, 1, e.offset) = Lines(s)
      /\ Lines(s) = SubSeq(s.bytes, 1, Reread!CompleteEnd(s.bytes))
    BY <1>2, <1>3, LinesOf DEF HoldsLines
<1>6. Reread!IsPrefix(Lines(s), now)
    BY <1>5, NotRewritten DEF Reread!Rewritten
<1>7. piece = SubSeq(now, start + 1, Len(now))
    BY <1>1, CalmFetch
<1> HIDE DEF e, s, now, piece, start, size
<1>8. e.offset <= Len(now) /\ Lines(s) = SubSeq(now, 1, e.offset)
    <2>1. SubSeq(Lines(s), 1, Len(Lines(s))) = Lines(s)
        BY <1>5, SubSeqFull
    <2> QED BY <1>5, <1>6, <2>1 DEF Reread!IsPrefix
<1>9. SubSeq(piece, size + 1, Len(piece)) = SubSeq(now, e.offset + 1, Len(now))
    <2>1. start \in 0..Len(now) /\ size \in 0..(Len(now) - start)
        BY <1>2, <1>4, <1>8
    <2> QED BY <1>2, <1>4, <1>7, <2>1, RestOfPiece
<1>10. SubSeq(now, 1, e.offset) \o SubSeq(now, e.offset + 1, Len(now)) = now
    <2>1. e.offset \in 0..Len(now)
        BY <1>2, <1>4, <1>8
    <2> QED BY <1>2, <2>1, CutInTwo
<1> QED BY <1>5, <1>8, <1>9, <1>10 DEF e, s, now, piece, size

LEMMA InitHolds == Reread!Init => CacheInv
<1> SUFFICES ASSUME Reread!Init PROVE CacheInv
    OBVIOUS
<1>1. cache = << >> /\ read = None /\ clock = 0
    BY DEF Reread!Init
<1>2. known \in [Files -> Seen]
    <2>1. [bytes |-> << >>, size |-> 0, mtime |-> 0] \in Seen
        BY DEF Seen
    <2> QED BY <2>1 DEF Reread!Init
<1>3. disk \in [Files -> [bytes : Transcripts, mtime : Nat, opens : BOOLEAN]]
    <2> DEFINE States == {[bytes |-> c, mtime |-> 0, opens |-> TRUE] : c \in Transcripts}
    <2>1. States \subseteq [bytes : Transcripts, mtime : Nat, opens : BOOLEAN]
        <3>1. \A c \in Transcripts : [bytes |-> c, mtime |-> 0, opens |-> TRUE]
                                        \in [bytes : Transcripts, mtime : Nat, opens : BOOLEAN]
            OBVIOUS
        <3> HIDE DEF Transcripts
        <3> QED BY <3>1
    <2>2. disk \in [Files -> States]
        BY DEF Reread!Init
    <2> HIDE DEF States
    <2> QED BY <2>1, <2>2
<1>4. HoldLines(cache, known)
    BY <1>1 DEF HoldLines
<1> QED BY <1>1, <1>2, <1>3, <1>4 DEF CacheInv

LEMMA StillHolds ==
    ASSUME CacheInv, UNCHANGED <<disk, cache, read, known>>, clock' \in Nat
    PROVE  CacheInv'
<1>1. /\ \A f : Reread!Cached(f)' = Reread!Cached(f)
      /\ \A f : Reread!Entry(f)' = Reread!Entry(f)
    BY DEF Reread!Cached, Reread!Entry, Reread!Position
<1>2. \A f : Reread!Excused(f)' = Reread!Excused(f)
    BY <1>1 DEF Reread!Excused, Reread!Rewritten, Reread!GrownOrTooSoon, Reread!CutInTail
<1>3. read # None => ReadGood(read)'
    BY <1>1, <1>2 DEF CacheInv, ReadGood
<1>4. HoldLines(cache, known)'
    BY DEF CacheInv, HoldLines
<1> QED BY <1>3, <1>4 DEF CacheInv

LEMMA ChangeHolds ==
    ASSUME CacheInv, NEW g \in Files, Reread!Change(g)
    PROVE  CacheInv'
<1>1. UNCHANGED <<clock, cache, known>>
    BY DEF Reread!Change
<1>2. /\ disk' \in [Files -> [bytes : Transcripts, mtime : Nat, opens : BOOLEAN]]
      /\ \A f \in Files : f # g => disk'[f] = disk[f]
    BY DEF Reread!Change, CacheInv
<1>3. /\ \A f : Reread!Cached(f)' = Reread!Cached(f)
      /\ \A f : Reread!Entry(f)' = Reread!Entry(f)
    BY <1>1 DEF Reread!Cached, Reread!Entry, Reread!Position
<1>4. \A f \in Files : f # g => Reread!Excused(f)' = Reread!Excused(f)
    BY <1>1, <1>2, <1>3
       DEF Reread!Excused, Reread!Rewritten, Reread!GrownOrTooSoon, Reread!CutInTail
<1>5. ASSUME read' # None PROVE ReadGood(read)'
    <2>1. CASE Reread!Reading(g)
        <3>1. read' = [read EXCEPT !.calm = FALSE] /\ read # None
            BY <2>1 DEF Reread!Change, Reread!Reading
        <3> QED BY <1>1, <1>3, <3>1 DEF CacheInv, ReadGood
    <2>2. CASE ~Reread!Reading(g)
        <3>1. read' = read
            BY <2>2 DEF Reread!Change
        <3>2. read # None /\ read.file \in Files /\ read.file # g
            BY <1>5, <2>2, <3>1 DEF Reread!Reading, CacheInv, ReadGood
        <3> QED BY <1>1, <1>2, <1>3, <1>4, <3>1, <3>2 DEF CacheInv, ReadGood
    <2> QED BY <2>1, <2>2
<1>6. HoldLines(cache, known)'
    BY <1>1 DEF CacheInv, HoldLines
<1> QED BY <1>1, <1>2, <1>5, <1>6 DEF CacheInv

LEMMA StartInFile ==
    ASSUME CacheInv, NEW f, Reread!Cached(f)
    PROVE  Reread!StartOf(Reread!Entry(f)) \in Nat
<1> DEFINE e == Reread!Entry(f)
<1>1. e \in Entries /\ e.file = f /\ HoldsLines(e, known[f])
    BY EntryOf DEF CacheInv
<1>2. f \in Files
    BY <1>1 DEF Entries
<1>3. known[f] \in Seen
    BY <1>2, OnDisk
<1> HIDE DEF e
<1>4. Reread!StartOf(e) \in 0..e.offset /\ e.offset \in Nat
    BY <1>1, <1>3, EntryWindow
<1> QED BY <1>4 DEF e

LEMMA BeginHolds ==
    ASSUME CacheInv, NEW f \in Files, Reread!BeginRead(f)
    PROVE  CacheInv'
<1> DEFINE from == IF Reread!Cached(f) THEN Reread!StartOf(Reread!Entry(f)) ELSE 0
           r == [file |-> f, from |-> from, size |-> Len(disk[f].bytes),
                 mtime |-> disk[f].mtime, excused |-> Reread!Excused(f), calm |-> TRUE]
<1>1. UNCHANGED <<clock, disk, cache, known>> /\ read' = r
    BY DEF Reread!BeginRead, Reread!Opened
<1>2. /\ \A g : Reread!Cached(g)' = Reread!Cached(g)
      /\ \A g : Reread!Entry(g)' = Reread!Entry(g)
    BY <1>1 DEF Reread!Cached, Reread!Entry, Reread!Position
<1>3. Reread!Excused(f)' = Reread!Excused(f)
    BY <1>1, <1>2
       DEF Reread!Excused, Reread!Rewritten, Reread!GrownOrTooSoon, Reread!CutInTail
<1>4. from \in Nat
    BY StartInFile
<1>5. Reread!Excused(f) \in BOOLEAN
    BY DEF Reread!Excused
<1>6. Len(disk[f].bytes) \in Nat /\ disk[f].mtime \in Nat
    BY OnDisk
<1>7. /\ r.file = f /\ r.from = from /\ r.size = Len(disk[f].bytes)
      /\ r.mtime = disk[f].mtime /\ r.excused = Reread!Excused(f) /\ r.calm = TRUE
    OBVIOUS
<1>8. r \in [file : Files, from : Nat, size : Nat, mtime : Nat, excused : BOOLEAN, calm : BOOLEAN]
    <2> HIDE DEF from
    <2> QED BY <1>4, <1>5, <1>6
<1>9. from' = from
    BY <1>2 DEF Reread!StartOf
<1> HIDE DEF r
<1>10. ReadGood(read)'
    BY <1>1, <1>2, <1>3, <1>7, <1>8 DEF ReadGood, Reread!StartOf
<1>11. HoldLines(cache, known)'
    BY <1>1 DEF CacheInv, HoldLines
<1> QED BY <1>1, <1>10, <1>11 DEF CacheInv

LEMMA DropHolds ==
    ASSUME CacheInv, NEW f, Reread!Drop(f)
    PROVE  HoldLines(cache', known) /\ ~Reread!Cached(f)'
<1> DEFINE others == Reread!Others(f)
<1>1. cache' = others
    BY DEF Reread!Drop
<1>2. HoldLines(others, known) /\ \A i \in 1..Len(others) : others[i].file # f
    BY OthersHold DEF CacheInv
<1> HIDE DEF others
<1>3. DOMAIN others = 1..Len(others)
    BY <1>2 DEF HoldLines
<1> QED BY <1>1, <1>2, <1>3 DEF Reread!Cached

LEMMA ThrowHolds ==
    ASSUME CacheInv, NEW f, Reread!Throws(f)
    PROVE  CacheInv'
<1>1. UNCHANGED <<clock, disk, known>> /\ read' = None /\ Reread!Drop(f)
    BY DEF Reread!Throws
<1>2. HoldLines(cache', known')
    BY <1>1, DropHolds
<1> QED BY <1>1, <1>2 DEF CacheInv, HoldLines, HoldsLines, Lines

LEMMA StartOverHolds ==
    ASSUME CacheInv, Reread!StartOver
    PROVE  CacheInv'
<1>1. PICK f \in Files : f = read.file
    BY DEF Reread!StartOver, CacheInv, ReadGood
<1> DEFINE r == [file |-> f, from |-> 0, size |-> Len(disk[f].bytes),
                 mtime |-> disk[f].mtime, excused |-> read.excused, calm |-> read.calm]
<1>2. UNCHANGED <<clock, disk, known>> /\ read' = r /\ Reread!Drop(f) /\ read # None
    BY <1>1 DEF Reread!StartOver, Reread!Opened
<1>3. HoldLines(cache', known') /\ ~Reread!Cached(f)'
    BY <1>2, DropHolds
<1>4. read.excused \in BOOLEAN /\ read.calm \in BOOLEAN
    BY <1>2 DEF CacheInv, ReadGood
<1>5. Len(disk[f].bytes) \in Nat /\ disk[f].mtime \in Nat
    BY OnDisk
<1>6. /\ r.file = f /\ r.from = 0 /\ r.size = Len(disk[f].bytes) /\ r.mtime = disk[f].mtime
      /\ r \in [file : Files, from : Nat, size : Nat, mtime : Nat, excused : BOOLEAN, calm : BOOLEAN]
    BY <1>4, <1>5
<1>7. ~Reread!Excused(f)'
    BY <1>3 DEF Reread!Excused
<1> HIDE DEF r
<1>8. ReadGood(read)'
    BY <1>2, <1>3, <1>6, <1>7 DEF ReadGood
<1> QED BY <1>2, <1>3, <1>8 DEF CacheInv, HoldLines, HoldsLines, Lines

(* A read that ends: what it stores and what it answers.                      *)
LEMMA AnsweredHolds ==
    ASSUME CacheInv, NEW e \in Entries, NEW s \in Seen, HoldsLines(e, s), Reread!Store(e),
           known' = [known EXCEPT ![e.file] = s], read' = None, UNCHANGED <<clock, disk>>
    PROVE  CacheInv'
<1>1. HoldLines(cache', known')
    BY StoreHolds DEF CacheInv
<1>2. known' \in [Files -> Seen]
    BY DEF CacheInv
<1> QED BY <1>1, <1>2 DEF CacheInv, HoldLines, HoldsLines, Lines

ReadsRight ==
    read.calm /\ ~read.excused => answer'.text = Reread!Decode(disk[read.file].bytes)

LEMMA WholeHolds ==
    ASSUME CacheInv, Reread!ReadWhole
    PROVE  CacheInv' /\ ReadsRight
<1>1. read # None /\ ~Reread!Cached(read.file)
    BY DEF Reread!ReadWhole
<1>2. PICK f \in Files, c \in Seq(Byte), size \in Nat, mtime \in Nat :
        f = read.file /\ c = Reread!Fetched /\ size = read.size /\ mtime = read.mtime
    BY <1>1, FetchedBytes DEF CacheInv, ReadGood
<1> DEFINE end   == Reread!CompleteEnd(c)
           lines == SubSeq(c, 1, end)
           e2    == [file |-> f, text |-> Reread!Decode(lines), offset |-> end,
                     tail |-> Reread!Window(lines), size |-> size, mtime |-> mtime]
           s2    == [bytes |-> << >> \o c, size |-> size, mtime |-> mtime]
<1>3. Reread!Answered(e2, << >>, c)
    BY <1>2 DEF Reread!ReadWhole
<1>4. /\ e2 \in Entries /\ s2 \in Seen /\ HoldsLines(e2, s2) /\ << >> \o c = c
      /\ e2.text \o Reread!Decode(SubSeq(c, end + 1, Len(c))) = Reread!Decode(c)
    BY WholeRead
<1>5. e2.file = f
    OBVIOUS
<1> HIDE DEF e2
<1>6. /\ Reread!Store(e2) /\ read' = None /\ UNCHANGED <<clock, disk>>
      /\ known' = [known EXCEPT ![e2.file] = s2]
      /\ answer' = [file |-> f, text |-> e2.text \o Reread!Decode(SubSeq(c, end + 1, Len(c)))]
    BY <1>2, <1>3, <1>5 DEF Reread!Answered
<1>7. answer'.text = Reread!Decode(c)
    BY <1>4, <1>6
<1> HIDE DEF s2
<1>8. CacheInv'
    BY <1>4, <1>6, AnsweredHolds
<1>9. read.calm => c = disk[read.file].bytes
    BY <1>1, <1>2, CalmWhole
<1> QED BY <1>7, <1>8, <1>9 DEF ReadsRight

LEMMA TailHolds ==
    ASSUME CacheInv, Reread!ReadTail
    PROVE  CacheInv' /\ ReadsRight
<1>1. /\ read # None /\ Reread!Cached(read.file)
      /\ ~Reread!Diverged(Reread!Entry(read.file))
    BY DEF Reread!ReadTail
<1>2. PICK f \in Files, size \in Nat, mtime \in Nat, piece \in Seq(Byte) :
        f = read.file /\ size = read.size /\ mtime = read.mtime /\ piece = Reread!Fetched
    BY <1>1, FetchedBytes DEF CacheInv, ReadGood
<1>3. PICK e \in Entries : e = Reread!Entry(f) /\ e.file = f /\ HoldsLines(e, known[f])
    BY <1>1, <1>2, EntryOf DEF CacheInv
<1>4. PICK s \in Seen : s = known[f]
    BY <1>2, OnDisk
<1>5. PICK c \in Seq(Byte) : c = SubSeq(piece, Len(e.tail) + 1, Len(piece))
    <2>1. Len(e.tail) \in Nat
        BY <1>3, <1>4, EntryWindow
    <2>2. PICK m \in Nat \ {0} : m = Len(e.tail) + 1
        BY <2>1
    <2>3. Len(piece) \in Nat
        OBVIOUS
    <2>4. SubSeq(piece, m, Len(piece)) \in Seq(Byte)
        BY <2>3, Piece
    <2> QED BY <2>2, <2>4
<1> DEFINE end   == Reread!CompleteEnd(c)
           lines == SubSeq(c, 1, end)
           rest  == SubSeq(c, end + 1, Len(c))
           old   == SubSeq(s.bytes, 1, e.offset)
           bytes == old \o c
           e2    == [file |-> e.file, text |-> e.text \o Reread!Decode(lines),
                     offset |-> e.offset + end, tail |-> Reread!Window(e.tail \o lines),
                     size |-> size, mtime |-> mtime]
           s2    == [bytes |-> bytes, size |-> size, mtime |-> mtime]
<1>6. Reread!Answered(e2, old, c)
    BY <1>2, <1>3, <1>4, <1>5 DEF Reread!ReadTail
<1>7. /\ e2 \in Entries /\ s2 \in Seen /\ HoldsLines(e2, s2)
      /\ e2.text \o Reread!Decode(rest) = Reread!Decode(bytes)
    BY <1>3, <1>4, TailJoins
<1>8. e2.file = f
    BY <1>3
<1> HIDE DEF e2
<1>9. /\ Reread!Store(e2) /\ read' = None /\ UNCHANGED <<clock, disk>>
      /\ known' = [known EXCEPT ![e2.file] = s2]
      /\ answer' = [file |-> f, text |-> e2.text \o Reread!Decode(rest)]
    BY <1>2, <1>6, <1>8 DEF Reread!Answered
<1>10. answer'.text = Reread!Decode(bytes)
    BY <1>7, <1>9
<1> HIDE DEF s2
<1>11. CacheInv'
    BY <1>7, <1>9, AnsweredHolds
<1>12. read.calm /\ ~read.excused => bytes = disk[read.file].bytes
    BY <1>1, <1>2, <1>3, <1>4, <1>5, CalmTail
<1> QED BY <1>10, <1>11, <1>12 DEF ReadsRight

(* A call during which its file stood still answers with the text of the      *)
(* file, whatever was appended, rewritten, cut, evicted or failed before,     *)
(* save in a blind spot: the text that is kept of the complete lines and the  *)
(* text of what follows them are together what a whole read decodes           *)
(* (tail-cache.ts: readTail, fullRead, divergence, storeEntry).               *)
THEOREM CachedReadIsFullRead == ReadersSpec => ReadsTheFile
<1> DEFINE RInv == subject = "cache" => CacheInv
           Right == answer' # answer /\ answer' # None /\ read.calm /\ ~read.excused
                      => answer'.text = Reread!Decode(disk[read.file].bytes)
<1>1. ReadersInit => RInv
    BY InitHolds DEF ReadersInit
<1>2. CacheInv /\ UNCHANGED rereading => CacheInv'
    <2> SUFFICES ASSUME CacheInv, UNCHANGED rereading PROVE CacheInv'
        OBVIOUS
    <2>1. UNCHANGED <<disk, cache, read, known>> /\ clock' \in Nat
        BY DEF rereading, CacheInv
    <2> QED BY <2>1, StillHolds
<1>3. CacheInv /\ Reread!Next => CacheInv' /\ Right
    <2> SUFFICES ASSUME CacheInv, Reread!Next PROVE CacheInv' /\ Right
        OBVIOUS
    <2>1. CASE Reread!Advance
        <3>1. UNCHANGED <<disk, cache, read, known, answer>> /\ clock' \in Nat
            BY <2>1 DEF Reread!Advance, CacheInv
        <3> QED BY <3>1, StillHolds
    <2>2. ASSUME NEW f \in Files, Reread!Change(f) PROVE CacheInv' /\ Right
        BY <2>2, ChangeHolds DEF Reread!Change
    <2>3. ASSUME NEW f \in Files, Reread!BeginRead(f) PROVE CacheInv' /\ Right
        BY <2>3, BeginHolds DEF Reread!BeginRead
    <2>4. ASSUME NEW f \in Files, Reread!Throws(f) PROVE CacheInv' /\ Right
        BY <2>4, ThrowHolds DEF Reread!Throws
    <2>5. CASE Reread!ReadWhole
        BY <2>5, WholeHolds DEF ReadsRight
    <2>6. CASE Reread!StartOver
        BY <2>6, StartOverHolds DEF Reread!StartOver
    <2>7. CASE Reread!ReadTail
        BY <2>7, TailHolds DEF ReadsRight
    <2> QED BY <2>1, <2>2, <2>3, <2>4, <2>5, <2>6, <2>7 DEF Reread!Next
<1>4. RInv /\ [ReadersNext]_<<subject, vars, rereading, installed>> => RInv' /\ [Right]_(Reread!vars)
    <2> HIDE DEF Right
    <2> SUFFICES ASSUME RInv, [ReadersNext]_<<subject, vars, rereading, installed>>
                 PROVE  RInv' /\ [Right]_(Reread!vars)
        OBVIOUS
    <2>1. CASE subject = "cache" /\ Reread!Next /\ UNCHANGED <<subject, vars, installed>>
        BY <1>3, <2>1
    <2>2. CASE UNCHANGED <<subject, rereading>>
        BY <1>2, <2>2 DEF Reread!vars, rereading
    <2> QED BY <2>1, <2>2 DEF ReadersNext
<1> QED BY <1>1, <1>4, PTL DEF ReadersSpec, ReadsTheFile, Reread!ReadsTheFile, Reread!vars
============================================================================
