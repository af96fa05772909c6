----------------------------- MODULE LiveBoard -----------------------------
(* The live board of one session (views/LiveView.tsx, views/live-model.ts):   *)
(* how many of its agents have which status, kept by patching a snapshot with *)
(* status frames and by reading a new snapshot whenever the frames are not    *)
(* enough.  Frames and snapshots travel on two connections and pass each      *)
(* other.  The stream is what EventStream is shown to provide: frames in      *)
(* order, and after a reconnect a replay that may leave a reported gap, or an *)
(* unreported one when the server was restarted in between.                   *)
EXTENDS Integers, Sequences, FiniteSets

CONSTANTS
    Agents,
    Statuses,
    Absent,      \* an agent that has no row yet
    Ingested,    \* the frame that says a session was read again
    MaxFrames,   \* bound: frames published
    MaxFaults    \* bound: cut connections and failed reads

ASSUME BoardAssumption ==
    /\ Absent \notin Statuses
    /\ Ingested \notin [agent : Agents, from : Statuses, to : Statuses]
    /\ IsFiniteSet(Agents)
    /\ MaxFrames \in Nat
    /\ MaxFaults \in Nat

VARIABLES
    db,           \* per agent: its status, or Absent
    log,          \* the frames published so far
    stream,       \* the connection state the tab was last told of
    next,         \* the frame its connection brings next, 0 without one
    seen,         \* number of the last frame it took, 0 for none
    interrupted,  \* wasInterrupted: the next 'open' is a recovery
    board,        \* what is on screen
    fetch,        \* the snapshot read in flight
    missed,       \* missedWhileLoadingRef
    reload,       \* a reload was requested and its effect has not run
    observation,  \* observationRef: gaps and recoveries so far
    gap,          \* the last of them, and the frame it reaches up to
    unheard,      \* history: frames published before the first connection
    faults

streamVars == <<stream, next, seen, interrupted>>
boardVars == <<board, fetch, missed, reload>>
noticeVars == <<observation, gap, unheard>>
vars == <<db, log, streamVars, boardVars, noticeVars, faults>>

NewestFrame == Len(log)

----------------------------------------------------------------------------
(* Snapshots and patches.                                                     *)

Counts == [status \in Statuses |-> Cardinality({a \in Agents : db[a] = status})]

NoMoves == [a \in Agents |-> Absent]

(* What GET /api/sessions answers.  `upTo` is history: the newest frame at    *)
(* the time of the read.                                                      *)
Snapshot(covers) ==
    [kind |-> "ready", counts |-> Counts, applied |-> NoMoves,
     covers |-> covers, upTo |-> NewestFrame, restated |-> FALSE]

Loading == [kind |-> "loading"]
Failed == [kind |-> "error"]
NoFetch == [kind |-> "none"]

(* A frame that moves an agent where this board already put it.               *)
Repeats(frame) == board.applied[frame.agent] = frame.to

(* A frame the counts can absorb: the board has put the agent nowhere else,   *)
(* and the bucket it leaves has somebody in it.                               *)
Supports(frame) ==
    /\ board.applied[frame.agent] \in {Absent, frame.from}
    /\ board.counts[frame.from] > 0

(* The board after a move.  `restated` is history: the snapshot had the move  *)
(* already, so that it has been counted twice.                                *)
Patched(frame, number) ==
    [kind |-> "ready",
     counts |-> [board.counts EXCEPT ![frame.from] = @ - 1, ![frame.to] = @ + 1],
     applied |-> [board.applied EXCEPT ![frame.agent] = frame.to],
     covers |-> board.covers,
     upTo |-> board.upTo,
     restated |-> board.restated \/ number <= board.upTo]

Init ==
    /\ db \in [Agents -> Statuses \cup {Absent}]
    /\ log = <<>>
    /\ stream = "connecting"
    /\ next = 0
    /\ seen = 0
    /\ interrupted = FALSE
    /\ board = Loading
    /\ fetch = NoFetch
    /\ missed = FALSE
    /\ reload = TRUE
    /\ observation = 0
    /\ gap = [observation |-> 0, upTo |-> 0]
    /\ unheard = 0
    /\ faults = 0

----------------------------------------------------------------------------
(* The server.                                                                *)

(* An agent moves: the row and the frame in one step, as no request is        *)
(* answered between the commit and the publication.                           *)
Moves(agent, status) ==
    /\ NewestFrame < MaxFrames
    /\ db[agent] \notin {Absent, status}
    /\ db' = [db EXCEPT ![agent] = status]
    /\ log' = Append(log, [agent |-> agent, from |-> db[agent], to |-> status])
    /\ UNCHANGED <<streamVars, boardVars, noticeVars, faults>>

(* The session is projected again, which may add an agent or move one without *)
(* a frame of its own.                                                        *)
Projected ==
    /\ NewestFrame < MaxFrames
    /\ \E agent \in Agents, status \in Statuses : db' = [db EXCEPT ![agent] = status]
    /\ log' = Append(log, Ingested)
    /\ UNCHANGED <<streamVars, boardVars, noticeVars, faults>>

(* The server answers the snapshot read.                                      *)
Answers ==
    /\ fetch.kind = "asked"
    /\ fetch' = Snapshot(fetch.covers)
    /\ UNCHANGED <<db, log, streamVars, board, missed, reload, noticeVars, faults>>

----------------------------------------------------------------------------
(* The snapshot reads of the board.                                           *)

(* The effect of a reload: a read in flight is aborted and a new one starts,  *)
(* which covers every gap and recovery observed so far.                       *)
Fetches ==
    /\ reload
    /\ reload' = FALSE
    /\ missed' = FALSE
    /\ fetch' = [kind |-> "asked", covers |-> observation]
    /\ UNCHANGED <<db, log, streamVars, board, noticeVars, faults>>

(* An answer that covers all that was observed when it arrived: a mutant.     *)
AnswerStampedLate == [fetch EXCEPT !.covers = observation]

(* The answer, which covers what was observed when it was asked for.          *)
Answer == fetch

(* The answer replaces the board; a status frame that passed it on the way    *)
(* asks for another read.                                                     *)
Lands ==
    /\ fetch.kind = "ready"
    /\ board' = Answer
    /\ fetch' = NoFetch
    /\ missed' = FALSE
    /\ reload' = (reload \/ missed)
    /\ UNCHANGED <<db, log, streamVars, noticeVars, faults>>

FetchFails ==
    /\ fetch # NoFetch
    /\ faults < MaxFaults
    /\ board' = Failed
    /\ fetch' = NoFetch
    /\ faults' = faults + 1
    /\ UNCHANGED <<db, log, streamVars, missed, reload, noticeVars>>

(* The reader presses Retry.                                                  *)
Retry ==
    /\ board = Failed
    /\ ~reload
    /\ reload' = TRUE
    /\ UNCHANGED <<db, log, streamVars, board, fetch, missed, noticeVars, faults>>

----------------------------------------------------------------------------
(* The stream as the tab sees it.                                             *)

(* A connection is made.  A tab that has taken a frame resumes after it, or   *)
(* further on when the buffer no longer reaches back, or, with a restarted    *)
(* server, at a number that shows no gap; any other gets what comes.          *)
Connects ==
    /\ next = 0
    /\ \/ seen = 0 /\ next' = NewestFrame + 1 /\ UNCHANGED seen
       \/ seen > 0 /\ next' \in (seen + 1)..(NewestFrame + 1) /\ UNCHANGED seen
       \/ seen > 0 /\ next' \in (seen + 2)..(NewestFrame + 1) /\ seen' = next' - 1
    /\ unheard' = IF interrupted THEN unheard ELSE NewestFrame
    /\ UNCHANGED <<db, log, stream, interrupted, boardVars, observation, gap, faults>>

(* EventSource 'open': after an interruption the board is read again.         *)
Opens ==
    /\ next # 0
    /\ stream # "open"
    /\ stream' = "open"
    /\ interrupted' = FALSE
    /\ IF interrupted
       THEN /\ observation' = observation + 1
            /\ gap' = [observation |-> observation + 1, upTo |-> next - 1]
            /\ reload' = TRUE
       ELSE UNCHANGED <<observation, gap, reload>>
    /\ UNCHANGED <<db, log, next, seen, board, fetch, missed, unheard, faults>>

(* EventSource 'error', with a connection or before there was one.            *)
Breaks ==
    /\ faults < MaxFaults
    /\ faults' = faults + 1
    /\ stream' = "reconnecting"
    /\ interrupted' = TRUE
    /\ next' = 0
    /\ UNCHANGED <<db, log, seen, boardVars, noticeVars>>

(* A second read only for frames that pass the first one: a mutant.           *)
InTheAirFirst == board = Loading

(* The condition that arms a second read: one is in the air.                  *)
InTheAir == fetch # NoFetch

Absorbs(frame) ==
    frame # Ingested /\ board.kind = "ready" /\ ~Repeats(frame) /\ Supports(frame)

(* A frame the board cannot be patched with: the database is read again.      *)
Refuses(frame) ==
    \/ frame = Ingested
    \/ board.kind = "ready" /\ ~Repeats(frame) /\ ~Supports(frame)

(* The tab takes the next frame.  Its number is noted first, which may report *)
(* a gap and ask for a read; then the board is patched with it, or read again *)
(* if it cannot be.                                                           *)
Takes ==
    LET frame == log[next]
        gapped == seen > 0 /\ next > seen + 1
    IN  /\ stream = "open"
        /\ next \in 1..NewestFrame
        /\ seen' = next
        /\ next' = next + 1
        /\ IF gapped
           THEN /\ observation' = observation + 1
                /\ gap' = [observation |-> observation + 1, upTo |-> next - 1]
           ELSE UNCHANGED <<observation, gap>>
        /\ missed' = (missed \/ (frame # Ingested /\ InTheAir))
        /\ reload' = (reload \/ gapped \/ Refuses(frame))
        /\ board' = IF Absorbs(frame) THEN Patched(frame, next) ELSE board
        /\ UNCHANGED <<db, log, stream, interrupted, fetch, unheard, faults>>

Next ==
    \/ \E agent \in Agents, status \in Statuses : Moves(agent, status)
    \/ Projected
    \/ Answers
    \/ Fetches
    \/ Lands
    \/ FetchFails
    \/ Retry
    \/ Connects
    \/ Opens
    \/ Breaks
    \/ Takes

Spec == Init /\ [][Next]_vars

----------------------------------------------------------------------------
(* Properties.                                                                *)

Frame == [agent : Agents, from : Statuses, to : Statuses] \cup {Ingested}

Snapshots ==
    [kind : {"ready"}, counts : [Statuses -> Nat],
     applied : [Agents -> Statuses \cup {Absent}],
     covers : Nat, upTo : Nat, restated : BOOLEAN]

(* Every variable keeps its shape; no bucket of the board is ever negative.   *)
TypeOK ==
    /\ db \in [Agents -> Statuses \cup {Absent}]
    /\ log \in Seq(Frame)
    /\ stream \in {"connecting", "open", "reconnecting"}
    /\ next \in 0..(NewestFrame + 1)
    /\ seen \in Nat
    /\ interrupted \in BOOLEAN
    /\ board \in {Loading, Failed} \cup Snapshots
    /\ fetch \in {NoFetch} \cup [kind : {"asked"}, covers : Nat] \cup Snapshots
    /\ missed \in BOOLEAN
    /\ reload \in BOOLEAN
    /\ observation \in Nat
    /\ gap \in [observation : 0..observation, upTo : 0..NewestFrame]
    /\ unheard \in 0..NewestFrame
    /\ faults \in 0..MaxFaults

(* Nothing is under way that could still change the board: the stream is open *)
(* and read to its end, no snapshot is asked for.                             *)
Settled ==
    /\ board.kind = "ready"
    /\ ~reload /\ fetch = NoFetch
    /\ stream = "open" /\ next = NewestFrame + 1

(* sse.subscribe, the reads in flight and the reloads in LiveView add up: a   *)
(* settled board shows what the database holds.  Two things are set apart:    *)
(* a frame that a snapshot had already counted (live-model.ts says the next   *)
(* read repairs it), and frames published before the tab first connected.     *)
BoardCurrent ==
    Settled /\ ~board.restated /\ board.upTo >= unheard => board.counts = Counts

(* The notice of a gap or a recovery says that the cards below were read      *)
(* after it only when they were: the snapshot contains every frame it covers. *)
NoticeTruthful ==
    board.kind = "ready" /\ board.covers >= gap.observation => board.upTo >= gap.upTo

=============================================================================
