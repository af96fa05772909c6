---------------------------- MODULE MCCorpusSweep ----------------------------
(***************************************************************************)
(* Finite instances for TLC of the corpus watcher and of the analysis that *)
(* reads the corpus once more when a client asks for one session.  What    *)
(* they share, a corpus and a database, each keeps as far as it matters to *)
(* it, so a behaviour is one of the watcher or one of the analysis.        *)
(***************************************************************************)
EXTENDS MCCorpusWatcher, Integers, Sequences

CONSTANTS main, a1, b1, big, small, free, odd, MaxMoves,
          Projects, \* project directories, ordered as their names are
          Versions, \* what the session's transcripts may hold
          Rate(_)   \* dollars per token of a model

ASSUME ProjectsAssumption == Projects \subseteq Nat

VARIABLES
  subject,  \* what this behaviour is of
  copies, hidden, row, rejected, request, answer, lastRead, onlyGrew, moves

analysis == <<copies, hidden, row, rejected, request, answer, lastRead, onlyGrew, moves>>
all == <<subject, vars, analysis>>

\* Transcripts of a session: none yet; one that names a message without its
\* content; two agents; more of them, with resets at and between the messages,
\* one of them late in its file; with a tie of two models; with a model that no
\* table prices.
Said(msg, agent, model, out, when) ==
  [msg |-> msg, agent |-> agent, model |-> model, out |-> out, at |-> when]
Reset(agent, when) == [agent |-> agent, at |-> when]
Transcripts(is, agents, usage, resets) ==
  [is |-> is, agents |-> agents, usage |-> usage, resets |-> resets]

Spawned == main :> None @@ a1 :> main
Begun == <<Said(2, None, big, 2, 1), Said(1, a1, small, 3, 2)>>

Grown ==
  { Transcripts("empty", << >>, << >>, << >>),
    Transcripts("poisoned", main :> None, << >>, << >>),
    Transcripts("whole", Spawned, Begun, << >>),
    Transcripts("whole", Spawned @@ b1 :> a1,
                Begun \o <<Said(4, b1, free, 1, 2), Said(3, b1, big, 1, 3)>>,
                <<Reset(None, 1), Reset(a1, 3), Reset(a1, 1)>>),
    Transcripts("whole", Spawned @@ b1 :> None,
                Begun \o <<Said(0, None, small, 2, 3), Said(4, b1, small, 1, 3)>>,
                <<Reset(b1, 2)>>),
    Transcripts("whole", Spawned, Begun \o <<Said(3, None, odd, 2, 3)>>,
                <<Reset(None, 2)>>) }

Dollars(model) ==
  CASE model = big -> 3 [] model = small -> 1 [] model = free -> 0 [] OTHER -> None

Costs == INSTANCE CostAnalysis
           WITH Slugs <- Projects, Main <- main,
                Models <- {big, small}, Synthetic <- free,
                MaxChanges <- MaxMoves, changes <- moves

ASSUME TranscriptsAssumption == Costs!Configured

WatcherParked == Init /\ root = r1 /\ price = 1

SweepInit ==
  \/ subject = "watcher" /\ Init /\ Costs!Init
  \/ subject = "analysis" /\ WatcherParked /\ Costs!Init

Watches(A) == subject = "watcher" /\ A /\ UNCHANGED <<subject, analysis>>

SweepNext ==
  \/ subject = "watcher" /\ Next /\ UNCHANGED <<subject, analysis>>
  \/ subject = "analysis" /\ Costs!Next /\ UNCHANGED <<subject, vars>>

\* The poll timer keeps firing, and a tick, once begun, is synchronous.
SweepSpec == SweepInit /\ [][SweepNext]_all /\ WF_all(Watches(Tick))

\* The analysis alone.
AnalysisSpec == SweepInit /\ subject = "analysis" /\ [][SweepNext]_all

\* A watcher whose faults have passed stores what it can, and comes to rest.
WatcherSettles == subject = "watcher" => Recovers /\ ComesToRest

\* An analysis says of a session what its transcripts come to, or truly why it
\* says nothing.
AnswerHonest == Costs!AnswerHonest

\* The two ways to account for a session again, cut by its compactions and from
\* the rows that were stored, agree with its transcripts.
FiguresAgree == Costs!Reconciles /\ Costs!SameFigures

\* A hint costs a lookup its speed, never its answer.
HintIsSpeedOnly == Costs!HintIsSpeedOnly
=============================================================================
