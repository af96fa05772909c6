---------------------------- MODULE ReadAnswers ----------------------------
(***************************************************************************)
(* The read API over the stored rows: a page of the session list, one      *)
(* session's split by model and its tree of agents, the capped graph of    *)
(* all agents, the window of what changed, and a session's hook events;    *)
(* and what the views of the page say of these answers.                    *)
(*                                                                         *)
(* Every query is one synchronous read of one connection, so an answer is  *)
(* a function of the state it is computed in.  A figure (tokens, or the    *)
(* dollars and the unpriced part that go with them) is modelled by the set *)
(* of messages it sums: two figures agree when they sum the same messages, *)
(* and none is lost or counted twice when the sets partition the whole.    *)
(* Of a message's tokens only its output is kept, and stands for them all. *)
(* Prices are UsageLedger's, the list of late sessions is ChangeFeed's.    *)
(***************************************************************************)
EXTENDS Naturals, FiniteSets

CONSTANTS
  Sessions, Subagents,  \* ids, as numbers: a main agent has its session's id
  Messages, Models,
  None,       \* SQL NULL
  Garbled,    \* a stored text that is no instant
  MaxTime,    \* bound: the instants are 1 .. MaxTime
  Passes,     \* Passes[s]: what a reading of session s may hand over
  Stored,     \* the databases a process may start on
  MaxWrites,  \* bound: passes, prunes and hook events
  Limits      \* the page sizes, node limits and offsets that are asked for

Ids == Sessions \cup Subagents
Times == 1 .. MaxTime
Texts == Times \cup {None, Garbled}

Spans == [first : Times \cup {None}, last : Times \cup {None}]
Edges == [session : Sessions, parent : Ids, child : Ids]

\* A function on some of S.
Some(f, S, T) == DOMAIN f \subseteq S /\ f \in [DOMAIN f -> T]

Uses == [agent : Ids \cup {None}, model : Models, at : Times \cup {None}, out : Nat]

Readable(p) ==
  /\ p.span \in Spans /\ p.edges \subseteq Ids \X Ids
  /\ Some(p.agents, Ids, Spans) /\ Some(p.usage, Messages, Uses)

SessionRow == [start : Texts, last : Texts]
AgentRow == [session : Sessions, first : Texts, last : Texts]
UsageRow == [session : Sessions, agent : Ids \cup {None}, model : Models,
             at : Times \cup {None}, out : Nat]

\* An agent and a usage row name a stored session: agents by a foreign key,
\* usage because the session's row is written first and none is ever deleted.
WellFormed(db) ==
  /\ Some(db.sessions, Sessions, SessionRow) /\ db.edges \subseteq Edges
  /\ Some(db.agents, Ids, AgentRow) /\ Some(db.usage, Messages, UsageRow)
  /\ \A a \in DOMAIN db.agents : db.agents[a].session \in DOMAIN db.sessions
  /\ \A m \in DOMAIN db.usage : db.usage[m].session \in DOMAIN db.sessions

Configured ==
  /\ Sessions \subseteq Nat /\ Subagents \subseteq Nat
  /\ IsFiniteSet(Sessions) /\ IsFiniteSet(Subagents) /\ IsFiniteSet(Messages)
  /\ MaxTime \in Nat /\ MaxWrites \in Nat /\ Limits \subseteq Nat
  /\ {None, Garbled} \cap Nat = {} /\ None # Garbled
  /\ \A s \in Sessions : \A p \in Passes[s] : Readable(p)
  /\ \A db \in Stored : WellFormed(db)

VARIABLES
  sessions, agents, edges, usage,  \* the tables
  events,                          \* the hook events by id, ids in the order they came
  writes

tables == <<sessions, agents, edges, usage>>
vars == <<sessions, agents, edges, usage, events, writes>>

-----------------------------------------------------------------------------
(* Writing *)

\* What cannot be placed in time loses to what can; a tie goes to what comes in.
Known(incoming, stored) == IF stored # None THEN stored ELSE incoming

Earlier(incoming, stored) ==
  IF incoming \notin Times THEN Known(incoming, stored)
  ELSE IF stored \in Times /\ stored < incoming THEN stored ELSE incoming

Later(incoming, stored) ==
  IF incoming \notin Times THEN Known(incoming, stored)
  ELSE IF stored \in Times /\ stored > incoming THEN stored ELSE incoming

UpsertSession(s, p) ==
  LET old == IF s \in DOMAIN sessions THEN sessions[s] ELSE [start |-> None, last |-> None]
  IN [t \in DOMAIN sessions \cup {s} |->
        IF t = s THEN [start |-> Earlier(p.span.first, old.start),
                       last |-> Later(p.span.last, old.last)]
        ELSE sessions[t]]

\* An agent stays with the session that was first to name it.
UpsertAgents(s, p) ==
  [a \in DOMAIN agents \cup DOMAIN p.agents |->
     IF a \notin DOMAIN p.agents THEN agents[a]
     ELSE IF a \notin DOMAIN agents
       THEN [session |-> s, first |-> p.agents[a].first, last |-> p.agents[a].last]
     ELSE [agents[a] EXCEPT !.first = Earlier(p.agents[a].first, @),
                            !.last = Later(p.agents[a].last, @)]]

InsertEdges(s, p) == edges \cup {[session |-> s, parent |-> e[1], child |-> e[2]] : e \in p.edges}

\* A message stays with the session that was first to spend it; its model and
\* its time move with a larger output.
InsertUsage(s, p) ==
  LET Foreign(m) == m \in DOMAIN usage /\ usage[m].session # s
      Settles(m) == m \notin DOMAIN usage \/ p.usage[m].out > usage[m].out
      Agent(m)   == IF p.usage[m].agent = None THEN s ELSE p.usage[m].agent
  IN [m \in DOMAIN usage \cup DOMAIN p.usage |->
        IF m \notin DOMAIN p.usage \/ Foreign(m) THEN usage[m]
        ELSE IF Settles(m)
          THEN [session |-> s, agent |-> Agent(m), model |-> p.usage[m].model,
                at |-> p.usage[m].at, out |-> p.usage[m].out]
        ELSE [usage[m] EXCEPT !.agent = Agent(m)]]

\* One transaction.
ProjectSession(s) ==
  /\ writes < MaxWrites
  /\ \E p \in Passes[s] :
       /\ sessions' = UpsertSession(s, p)
       /\ agents' = UpsertAgents(s, p)
       /\ edges' = InsertEdges(s, p)
       /\ usage' = InsertUsage(s, p)
  /\ writes' = writes + 1
  /\ UNCHANGED events

\* A run of retention: the events from before one cutoff, by the signed policy,
\* and by another policy the dated usage from before one too; nothing else here.
Prune(eventCutoff, usageCutoff) ==
  LET oldEvents == {e \in DOMAIN events : events[e].at < eventCutoff}
      oldUsage  == {m \in DOMAIN usage : usage[m].at # None /\ usage[m].at < usageCutoff}
  IN /\ writes < MaxWrites
     /\ oldEvents # {} \/ oldUsage # {}
     /\ events' = [e \in DOMAIN events \ oldEvents |-> events[e]]
     /\ usage' = [m \in DOMAIN usage \ oldUsage |-> usage[m]]
     /\ writes' = writes + 1
     /\ UNCHANGED <<sessions, agents, edges>>

\* A hook is stored with the time of its receipt, its session known or not.
Hook(s, at) ==
  /\ writes < MaxWrites
  /\ writes' = writes + 1
  /\ events' = [e \in DOMAIN events \cup {writes'} |->
                  IF e = writes' THEN [session |-> s, at |-> at] ELSE events[e]]
  /\ UNCHANGED tables

\* A route reads, answers and stores nothing.
Answering == UNCHANGED vars

Init ==
  /\ \E db \in Stored :
       /\ sessions = db.sessions /\ agents = db.agents
       /\ edges = db.edges /\ usage = db.usage
  /\ events = << >>
  /\ writes = 0

Next ==
  \/ \E s \in Sessions : ProjectSession(s)
  \/ \E eventCutoff, usageCutoff \in Times : Prune(eventCutoff, usageCutoff)
  \/ \E s \in Sessions \cup {None}, at \in Times : Hook(s, at)
  \/ Answering

-----------------------------------------------------------------------------
(* Orders and pages *)

\* strftime of a stored text: NULL for what it cannot parse.
Canonical(text) == IF text \in Times THEN text ELSE None

Coalesce(text, other) == IF text # None THEN text ELSE other

\* The most recent first, what has no instant last.
Recency(at) == IF at = None THEN MaxTime ELSE MaxTime - at

\* ORDER BY a key, then by id.
Ahead(r, q) == r[1] < q[1] \/ (r[1] = q[1] /\ r[2] < q[2])

Place(rank, x) == Cardinality({y \in DOMAIN rank : Ahead(rank[y], rank[x])})

Page(rank, limit, offset) ==
  {x \in DOMAIN rank : offset <= Place(rank, x) /\ Place(rank, x) < offset + limit}

-----------------------------------------------------------------------------
(* The answers about sessions *)

ChangedAt(s) == Canonical(Coalesce(sessions[s].last, sessions[s].start))

SessionRank == [s \in DOMAIN sessions |-> <<Recency(ChangedAt(s)), s>>]

AgentsOf(s) == {a \in DOMAIN agents : agents[a].session = s}
UsageOf(s) == {m \in DOMAIN usage : usage[m].session = s}
EdgesOf(s) == {e \in edges : e.session = s}

Summary(s) == [agents |-> Cardinality(AgentsOf(s)), spent |-> UsageOf(s)]

ListSessions(limit, offset) ==
  [sessions |-> [s \in Page(SessionRank, limit, offset) |-> Summary(s)],
   total |-> Cardinality(DOMAIN sessions)]

\* NULL for a session that is not stored: the route answers 404 or 409.
SessionDetail(s) ==
  IF s \notin DOMAIN sessions THEN None
  ELSE [summary |-> Summary(s), edges |-> Cardinality(EdgesOf(s)),
        models |-> [d \in {usage[m].model : m \in UsageOf(s)} |->
                      {m \in UsageOf(s) : usage[m].model = d}]]

SessionTree(s) ==
  IF s \notin DOMAIN sessions THEN None
  ELSE [agents |-> [a \in AgentsOf(s) |-> {m \in UsageOf(s) : usage[m].agent = a}],
        edges |-> EdgesOf(s),
        agentCount |-> Cardinality(AgentsOf(s)), edgeCount |-> Cardinality(EdgesOf(s)),
        unattributed |-> {m \in UsageOf(s) : usage[m].agent \notin AgentsOf(s)}]

SessionEvents(s, limit, offset) ==
  LET own == {e \in DOMAIN events : events[e].session = s}
  IN IF s \notin DOMAIN sessions THEN None
     ELSE [events |-> Page([e \in own |-> <<events[e].at, e>>], limit, offset),
           total |-> Cardinality(own)]

-----------------------------------------------------------------------------
(* The graph of all agents *)

AgentRank ==
  [a \in DOMAIN agents |-> <<Recency(Canonical(Coalesce(agents[a].last, agents[a].first))), a>>]

\* Usage of another session that names this agent is counted to it: a mutant.
UsageOfAnySession(a) == {m \in DOMAIN usage : usage[m].agent = a}

\* The figure of a node: the usage of the agent's own session.
NodeUsage(a) == {m \in DOMAIN usage : usage[m].agent = a /\ usage[m].session = agents[a].session}

GlobalDag(limit) ==
  LET kept == Page(AgentRank, limit, 0)
  IN [nodes |-> [a \in kept |-> NodeUsage(a)],
      edges |-> {e \in edges : {e.parent, e.child} \subseteq kept},
      totalAgents |-> Cardinality(DOMAIN agents),
      totalEdges |-> Cardinality(edges),
      truncated |-> Cardinality(kept) < Cardinality(DOMAIN agents)]

-----------------------------------------------------------------------------
(* What changed since *)

Within(at, since, until) == at \in Times /\ since < at /\ at <= until

Instants ==
  ({ChangedAt(s) : s \in DOMAIN sessions}
     \cup {Canonical(agents[a].first) : a \in DOMAIN agents}
     \cup {usage[m].at : m \in DOMAIN usage}) \cap Times

\* The upper end of the window: the newest instant that is stored.
Boundary(since) ==
  CHOOSE u \in Instants \cup {since} : \A v \in Instants \cup {since} : v <= u

Changed(since, until) == {s \in DOMAIN sessions : Within(ChangedAt(s), since, until)}

Spent(since, until) == {m \in DOMAIN usage : Within(usage[m].at, since, until)}

Appeared(since, until) ==
  {a \in DOMAIN agents : Within(Canonical(agents[a].first), since, until)}

\* Whether the window saw the start of a session, or cannot know.
ChangeKind(s, since) ==
  LET start == Canonical(sessions[s].start)
  IN IF start = None THEN "unknown" ELSE IF start > since THEN "new" ELSE "updated"

Classified(kind, since, until) == {s \in Changed(since, until) : ChangeKind(s, since) = kind}

Changes(since, limit, offset) ==
  LET until == Boundary(since)
      rank  == [s \in Changed(since, until) |-> SessionRank[s]]
      page  == Page(rank, limit, offset)
  IN [since |-> since, until |-> until, limit |-> limit,
      sessions |-> [s \in page |->
        [changedAt |-> ChangedAt(s), kind |-> ChangeKind(s, since),
         added |-> Spent(since, until) \cap UsageOf(s),
         appeared |-> Appeared(since, until) \cap AgentsOf(s)]],
      new |-> Cardinality(Classified("new", since, until)),
      updated |-> Cardinality(Classified("updated", since, until)),
      unknown |-> Cardinality(Classified("unknown", since, until)),
      added |-> Spent(since, until),
      outside |-> {m \in Spent(since, until) :
                     usage[m].session \notin Changed(since, until)},
      appeared |-> Appeared(since, until),
      undatedSessions |-> {s \in DOMAIN sessions : ChangedAt(s) = None},
      undatedAgents |-> {a \in DOMAIN agents : Canonical(agents[a].first) = None},
      undatedUsage |-> {m \in DOMAIN usage : usage[m].at = None},
      total |-> Cardinality(Changed(since, until))]

\* assertChangesInvariants: what refuses an answer with a 500.
Possible(c) ==
  /\ c.since <= c.until
  /\ c.new + c.updated + c.unknown = c.total
  /\ Cardinality(DOMAIN c.sessions) <= c.limit
  /\ Cardinality(DOMAIN c.sessions) <= c.total
  /\ c.outside \subseteq c.added
  /\ \A s \in DOMAIN c.sessions :
       /\ c.since < c.sessions[s].changedAt /\ c.sessions[s].changedAt <= c.until
       /\ c.sessions[s].added \subseteq c.added
       /\ \A t \in DOMAIN c.sessions \ {s} : c.sessions[s].added \cap c.sessions[t].added = {}

-----------------------------------------------------------------------------
(* What the page says of an answer *)

Placeable(nodes, es) == {e \in es : {e.parent, e.child} \subseteq nodes}

\* The text that stands in for a picture, for who cannot see it.
Description(nodes, es, slice, unreturned) ==
  [undrawn |-> Cardinality(es \ Placeable(nodes, es)), slice |-> slice, unreturned |-> unreturned]

\* The list of sessions, and whether its rows are said to be a part of it.
ListCaption(list) ==
  LET shown == Cardinality(DOMAIN list.sessions)
  IN IF shown = 0 THEN "none"
     ELSE IF list.total > shown THEN "slice"
     ELSE IF list.total < shown THEN "disagreement" ELSE "all"

TreeCountDisagreement(tree) ==
  tree.agentCount # Cardinality(DOMAIN tree.agents) \/ tree.edgeCount # Cardinality(tree.edges)

\* The tree of a session: what is drawn, and whether it says that edges are not.
TreePanel(tree) ==
  LET drawn == Placeable(DOMAIN tree.agents, tree.edges)
  IN [drawn |-> drawn,
      dropped |-> Cardinality(drawn) # Cardinality(tree.edges),
      disagreement |-> TreeCountDisagreement(tree),
      text |-> Description(DOMAIN tree.agents, tree.edges, FALSE, FALSE)]

CountsDisagree(dag) == Cardinality(DOMAIN dag.nodes) # dag.totalAgents

\* The caption over the graph: a slice, a contradiction, or all agents; whether
\* it says that edges are missing from what is drawn; and its text.
DagCaption(dag) ==
  [agents |-> IF dag.truncated THEN "slice"
              ELSE IF CountsDisagree(dag) THEN "disagreement" ELSE "all",
   edgesMissing |-> DOMAIN dag.nodes # {} /\ Cardinality(dag.edges) # dag.totalEdges,
   text |-> Description(DOMAIN dag.nodes, dag.edges, dag.truncated \/ CountsDisagree(dag),
                        Cardinality(dag.edges) # dag.totalEdges)]

\* The nodes that have recorded anything: what rankTopBurners puts in order.
Ranking(dag) == {a \in DOMAIN dag.nodes : \E m \in dag.nodes[a] : usage[m].out > 0}

\* The panel of burners: who is ranked, who is counted as having recorded
\* nothing, and whether it claims to rank all of them.
Burners(dag, top) ==
  LET partial == dag.truncated \/ CountsDisagree(dag)
  IN [ranked |-> Ranking(dag),
      unused |-> DOMAIN dag.nodes \ Ranking(dag),
      claim |-> IF top < Cardinality(Ranking(dag)) THEN "top"
                ELSE IF partial THEN "slice" ELSE "all"]

\* The window: whether its rows are all that changed, whether they are let to
\* add up to the total, and whether all there is is said to have a date.
ChangesResult(c) ==
  LET shown == Cardinality(DOMAIN c.sessions)
  IN [rows |-> IF c.total > shown THEN "slice"
               ELSE IF c.total < shown THEN "disagreement" ELSE "all",
      addUp |-> \A m \in c.outside : usage[m].out = 0,
      dated |-> c.undatedSessions = {} /\ c.undatedAgents = {} /\ c.undatedUsage = {}]

-----------------------------------------------------------------------------
(* Properties *)

TypeOK ==
  /\ WellFormed([sessions |-> sessions, agents |-> agents, edges |-> edges, usage |-> usage])
  /\ writes \in Nat
  /\ Some(events, 1 .. writes, [session : Sessions \cup {None}, at : Times])

\* The parts and the rest hold the whole, and no two of them overlap.
Splits(part, rest, whole) ==
  /\ (UNION {part[x] : x \in DOMAIN part}) \cup rest = whole
  /\ \A x \in DOMAIN part :
       /\ part[x] \cap rest = {}
       /\ \A y \in DOMAIN part \ {x} : part[x] \cap part[y] = {}

\* The figures add up: the sessions split all that was spent, the models of a
\* session what it spent, and so do its agents with what is shown as
\* unattributed, whatever an agent or a message was first stored under.
FiguresAddUp ==
  /\ Splits([s \in DOMAIN sessions |-> Summary(s).spent], {}, DOMAIN usage)
  /\ \A s \in DOMAIN sessions :
       LET spent == SessionDetail(s).summary.spent
           tree  == SessionTree(s)
       IN /\ Splits(SessionDetail(s).models, {}, spent)
          /\ Splits(tree.agents, tree.unattributed, spent)

\* A node of the graph shows what the tree of its session shows, and what is
\* said of a graph that was cut is said of a slice.
GraphAgrees ==
  \A limit \in Limits \ {0} :
    LET dag == GlobalDag(limit)
    IN /\ \A a \in DOMAIN dag.nodes :
            dag.nodes[a] = SessionTree(agents[a].session).agents[a]
       /\ DagCaption(dag).agents = "all" <=> DOMAIN dag.nodes = DOMAIN agents
       /\ DagCaption(dag).agents # "disagreement"
       /\ DOMAIN dag.nodes # {} => (DagCaption(dag).edgesMissing <=> dag.edges # edges)
       /\ \A top \in Limits \ {0} : Burners(dag, top).claim = "all" =>
            /\ Burners(dag, top).ranked \cup Burners(dag, top).unused = DOMAIN agents
            /\ \A m \in DOMAIN usage :
                 (usage[m].out > 0 /\ usage[m].agent \in AgentsOf(usage[m].session)) =>
                    usage[m].agent \in Burners(dag, top).ranked

\* No answer about a window is refused as impossible; what a page that holds
\* the window shows, and what is counted beside it, split what was added; and
\* the window over all time misses nothing but what it counts as undated.
WindowAgrees ==
  \A since \in Times \cup {0}, limit \in Limits \ {0}, offset \in Limits :
    LET c == Changes(since, limit, offset)
        part == [s \in DOMAIN c.sessions |-> c.sessions[s].added]
    IN /\ Possible(c)
       /\ (offset = 0 /\ c.total <= limit) => Splits(part, c.outside, c.added)
       /\ (since = 0 /\ offset = 0 /\ c.total <= limit) =>
            DOMAIN c.sessions \cup c.undatedSessions = DOMAIN sessions
       /\ since = 0 =>
            /\ c.added \cup c.undatedUsage = DOMAIN usage
            /\ c.appeared \cup c.undatedAgents = DOMAIN agents

\* Turning the pages of a list that rests shows nothing twice and nothing out
\* of order; and a page that is large enough holds all that is counted.
PagesTurn ==
  \A limit \in Limits \ {0}, offset \in Limits :
    /\ LET this == ListSessions(limit, offset)
           next == ListSessions(limit, offset + limit)
       IN /\ DOMAIN this.sessions \cap DOMAIN next.sessions = {}
          /\ \A s \in DOMAIN this.sessions, t \in DOMAIN next.sessions :
               ChangedAt(t) # None => ChangedAt(s) # None /\ ChangedAt(s) >= ChangedAt(t)
          /\ (offset = 0 /\ this.total <= limit) => DOMAIN this.sessions = DOMAIN sessions
    /\ \A s \in DOMAIN sessions :
         LET this == SessionEvents(s, limit, offset)
             next == SessionEvents(s, limit, offset + limit)
         IN /\ this.events \cap next.events = {}
            /\ \A e \in this.events, f \in next.events : events[e].at <= events[f].at
            /\ (offset = 0 /\ this.total <= limit) =>
                 this.events = {e \in DOMAIN events : events[e].session = s}

\* What the page says of an answer, by what it shows and by what it leaves
\* unsaid, is so: rows it does not call a part are the whole list; the text of a
\* picture tells of every gap its caption tells of; what a session's tree draws
\* a graph not called a slice draws too; and a window whose rows are let to add
\* up lists everything that was spent in it, the one over all time everything
\* that is stored if nothing is said to lack a date.
PageTruthful ==
  \A limit \in Limits \ {0} :
    /\ LET list == ListSessions(limit, 0)
       IN /\ ListCaption(list) # "disagreement"
          /\ ListCaption(list) \in {"none", "all"} => DOMAIN list.sessions = DOMAIN sessions
    /\ LET dag == GlobalDag(limit)
       IN /\ DagCaption(dag).text.slice <=> DagCaption(dag).agents # "all"
          /\ DOMAIN dag.nodes # {} =>
               (DagCaption(dag).text.unreturned <=> DagCaption(dag).edgesMissing)
          /\ DagCaption(dag).text.undrawn = 0
          /\ \A s \in DOMAIN sessions :
               LET panel == TreePanel(SessionTree(s))
               IN /\ ~panel.disagreement
                  /\ panel.dropped <=> panel.text.undrawn # 0
                  /\ panel.dropped <=> panel.drawn # EdgesOf(s)
                  /\ DagCaption(dag).text.slice \/ panel.drawn \subseteq dag.edges
    /\ \A since \in Times \cup {0} :
         LET c == Changes(since, limit, 0)
             said == ChangesResult(c)
         IN /\ said.rows # "disagreement"
            /\ (said.rows = "all" /\ said.addUp) =>
                 \A m \in c.added : usage[m].out > 0 =>
                   \E s \in DOMAIN c.sessions : m \in c.sessions[s].added
            /\ (since = 0 /\ said.rows = "all" /\ said.dated) =>
                 /\ DOMAIN c.sessions = DOMAIN sessions
                 /\ c.added = DOMAIN usage /\ c.appeared = DOMAIN agents

\* The answers that are computed apart from each other agree, and what is said
\* of them is so.
ReadsAgree == FiguresAddUp /\ GraphAgrees /\ WindowAgrees /\ PagesTurn /\ PageTruthful
=============================================================================
