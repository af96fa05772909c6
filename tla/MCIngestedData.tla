--------------------------- MODULE MCIngestedData ---------------------------
(***************************************************************************)
(* Finite instances for TLC of what an ingest makes of a session's         *)
(* transcripts: which of its files and lines are read, its rows in the     *)
(* usage ledger (session s2 is a fork of s1), the tree of its agents       *)
(* (three subagents, the last listed first spawned), and what is answered  *)
(* of the rows of all sessions. A behaviour is one of these four.          *)
(***************************************************************************)
EXTENDS UsageLedger, TLC

CONSTANTS s1, s2, m1, m2, fast, full, a1,
          main, x, y, z, Subs, MaxChanges,
          Slugs, Hexes, Cap, MaxActs, Writable(_, _),
          Mains, Spawned, Spoken, Garbled, MaxTime, Handed, Upgraded, MaxWrites, Limits

VARIABLES
  subject,  \* what this behaviour is about
  shape, evidence, rows, edges, ok, changes,
  files, hidden, reading, stored, verdict, fresh, origin, growing, acts,
  sessions, agents, links, usage, events, writes

tree == <<shape, evidence, rows, edges, ok, changes>>
read == <<files, hidden, reading, stored, verdict, fresh, origin, growing, acts>>
answers == <<sessions, agents, links, usage, events, writes>>

At(wall, zone) == [wall |-> wall, zone |-> zone]

Use(out, w5, w1) == "input" :> 1 @@ "output" :> out @@ "cache_read" :> 0
                    @@ "cache_write_5m" :> w5 @@ "cache_write_1h" :> w1

Record(m, agent, model, st, use) ==
  [msg |-> m, agent |-> agent, model |-> model, stamp |-> st, use |-> use]

\* m1 streams in under a transient label before its settled record; m2 is a
\* subagent's, priced at another rate of the same day. The fork repeats m1.
Streamed ==
  <<Record(m1, None, fast, At(3, 1), Use(1, 1, 2)),
    Record(m1, None, full, At(3, 0), Use(2, 2, 2)),
    Record(m2, a1, full, At(3, 0), Use(1, 0, 0))>>

\* A record whose cache write is not split yet, then one that splits it.
Reshaped == {s1 :> <<Record(m1, None, full, At(3, 0), Use(1, 3, 0)),
                     Record(m1, None, full, At(3, 0), Use(2, 1, 2))>> @@ s2 :> << >>}

OneFork == {s1 :> Streamed @@ s2 :> SubSeq(Streamed, 1, 2)}

\* The coverage floor, and one instant in two spellings.
Dates == {At(0, 0), At(3, 0), At(4, 1)}
UsableOrNot == {2, -1}
OutputOfFull == {<<full, "output">>}

By(writer, via) == [writer |-> writer, via |-> via]

\* A chain whose head's block is in its own transcript; a pair that name each
\* other's block, with a child below; a ring.
Forms ==
  { x :> By(y, "explore") @@ y :> By(z, "workflow") @@ z :> By(z, "bare"),
    x :> By(y, "sidecar") @@ y :> By(x, "sidecar") @@ z :> By(x, "notified"),
    x :> By(y, "sidecar") @@ y :> By(z, "bare") @@ z :> By(x, "sidecar") }

Tree == INSTANCE AgentTree
          WITH Main <- main, Order <- <<main, x, y, z>>, Shapes <- Forms

ASSUME TreeAssumption == Tree!Configured

\* The lines of a part of session s: in the main transcript one whose message
\* has no name, an earlier one that streams m1, and an agent's progress;
\* in a subagent's a late snapshot of the same message, one without a name, and
\* one of another agent; in the journal one that is no JSON.
Line(s, agent, at, use) == [json |-> TRUE, says |-> s, agent |-> agent, at |-> at, use |-> use]
Usage(m, flat, split) == [msg |-> m, flat |-> flat, split |-> split]

LinesFor(s, p) ==
  CASE p = "main" -> {Line(s, None, 2, Usage(None, 1, << >>)),
                      Line(s, None, 1, Usage(m1, 3, <<1, 1>>)),
                      Line(None, "other", 0, None)}
    [] p \in Hexes -> {Line(s, p, 1, Usage(m1, 2, << >>)),
                       Line(s, None, 2, Usage(None, 1, << >>)),
                       Line(s, "other", 1, None)}
    [] p = "journal" -> {[Line(None, None, 0, None) EXCEPT !.json = FALSE]}
    [] OTHER -> {}

Reading == INSTANCE TranscriptReading
             WITH Writes <- Writable, MaxChanges <- MaxActs, changes <- acts

ASSUME ReadingAssumption == Reading!Configured

\* Session 1 shows its main agent, then an agent of its own, and settles its
\* message under another label; session 2, which shares the message and that
\* agent, names them too. One starts with a row of the versions before, none of
\* whose texts is an instant.
Span(first, last) == [first |-> first, last |-> last]
Said(agent, model, at, out) == [agent |-> agent, model |-> model, at |-> at, out |-> out]

Readings ==
  1 :> {[span |-> Span(1, 2), agents |-> 1 :> Span(1, 2), edges |-> {},
         usage |-> 1 :> Said(None, fast, 1, 1)],
        [span |-> Span(1, 3), agents |-> 1 :> Span(1, 3) @@ 3 :> Span(2, 3), edges |-> {<<1, 3>>},
         usage |-> 1 :> Said(None, full, 2, 2) @@ 2 :> Said(3, fast, 3, 1)]}
  @@ 2 :> {[span |-> Span(1, 2), agents |-> 2 :> Span(1, 2) @@ 3 :> Span(2, 2),
            edges |-> {<<2, 3>>},
            usage |-> 1 :> Said(None, fast, 1, 1) @@ 3 :> Said(3, full, 2, 1)]}

NewOrUpgraded ==
  {[sessions |-> << >>, agents |-> << >>, edges |-> {}, usage |-> << >>],
   [sessions |-> 1 :> [start |-> Garbled, last |-> None],
    agents |-> 1 :> [session |-> 1, first |-> None, last |-> Garbled],
    edges |-> {[session |-> 1, parent |-> 1, child |-> 3]},
    usage |-> 4 :> [session |-> 1, agent |-> None, model |-> fast, at |-> None, out |-> 1]]}

Reads == INSTANCE ReadAnswers
           WITH Sessions <- Mains, Subagents <- Spawned, Messages <- Spoken, Passes <- Handed,
                Stored <- Upgraded, edges <- links

ASSUME AnswersAssumption == Reads!Configured

AnswersParked ==
  /\ sessions = << >> /\ agents = << >> /\ links = {} /\ usage = << >>
  /\ events = << >> /\ writes = 0

ReadingParked ==
  /\ files = << >> /\ hidden = {} /\ reading = None /\ verdict = << >>
  /\ stored = [s \in Sessions |-> None] /\ fresh = {} /\ origin = << >>
  /\ growing = TRUE /\ acts = 0

TreeParked ==
  /\ shape = << >> /\ evidence = << >> /\ rows = << >> /\ edges = {}
  /\ ok = TRUE /\ changes = 0

LedgerParked ==
  /\ script = << >> /\ written = << >> /\ prices = << >> /\ ledger = << >> /\ rowids = << >>
  /\ rollup = << >> /\ cache = None /\ moved = FALSE /\ readTo = << >> /\ edits = 0

IngestedInit ==
  \/ subject = "ledger" /\ Init /\ TreeParked /\ ReadingParked /\ AnswersParked
  \/ subject = "tree" /\ Tree!Init /\ LedgerParked /\ ReadingParked /\ AnswersParked
  \/ subject = "reading" /\ Reading!Init /\ LedgerParked /\ TreeParked /\ AnswersParked
  \/ subject = "answers" /\ Reads!Init /\ LedgerParked /\ TreeParked /\ ReadingParked

IngestedNext ==
  \/ subject = "ledger" /\ Next /\ UNCHANGED <<subject, tree, read, answers>>
  \/ subject = "tree" /\ Tree!Next /\ UNCHANGED <<subject, vars, read, answers>>
  \/ subject = "reading" /\ Reading!Next /\ UNCHANGED <<subject, vars, tree, answers>>
  \/ subject = "answers" /\ Reads!Next /\ UNCHANGED <<subject, vars, tree, read>>

all == <<subject, vars, tree, read, answers>>

IngestedSpec == IngestedInit /\ [][IngestedNext]_all

\* The ledger alone.
LedgerSpec ==
  IngestedInit /\ subject = "ledger" /\ [][IngestedNext]_all

\* What the ledger's rows reproduce, and what is served of them.
ReproducesMessages == subject = "ledger" => ReproducesDedupe
ServedFresh == subject = "ledger" => SummaryFresh

\* Every reading of a session's transcripts can be stored whole and keeps the
\* spawners it can keep.
TreeKept == subject = "tree" => Tree!TreeKept

\* The drawing of what is stored tells cycles from what hangs below them.
DrawnTruly == subject = "tree" => Tree!DrawnTruly

\* The files of a session that rest are stored as they are, or refused for what
\* they say, and no session's rows come from files of another name.
ReadTruly == subject = "reading" => Reading!ReadTruly /\ Reading!NeverFused

\* What is answered about sessions, agents and windows agrees, whatever was
\* stored in what order.
ReadsAgree == subject = "answers" => Reads!ReadsAgree

\* No reading takes back what an earlier one established: not the spans and
\* tokens of a session, and not the spawner or the outcome of an agent when
\* the transcript that tells of it is missing.
NothingTakenBack == Reading!NothingTakenBack /\ Tree!Remembered
=============================================================================
