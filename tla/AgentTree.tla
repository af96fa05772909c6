------------------------------ MODULE AgentTree ------------------------------
(***************************************************************************)
(* Who spawned whom: how a session's transcripts become rows of agents     *)
(* with a parent each, and edges, over passes that read only some of them. *)
(*                                                                         *)
(* What tells an agent's spawner is written in a transcript, usually the   *)
(* spawner's: the block that spawned it, the result that names it, a queue *)
(* operation, a progress line.  Compaction evicts any of it; a pass skips  *)
(* a transcript it cannot read.  A sidecar or a workflow directory goes    *)
(* with the agent's own transcript.                                        *)
(***************************************************************************)
EXTENDS DagLayout, Selection, TLC

CONSTANTS
  Main,       \* the main transcript, and the agent of that name
  Subs,       \* subagents
  Order,      \* the agents in the order their files are listed, Main first
  Shapes,     \* how each subagent may have been spawned: "writer" holds what
              \* tells its spawner, "via" what goes with its own transcript
  MaxChanges, \* bound: lines written or evicted in a behaviour
  None        \* no agent, no cause

AllAgents == Subs \cup {Main}
Vias == {"sidecar", "bare", "workflow", "notified", "explore"}

\* What an instance has to satisfy.
Configured ==
  /\ Main \notin Subs /\ None \notin AllAgents
  /\ ToSet(Order) = AllAgents /\ Len(Order) = Cardinality(AllAgents) /\ Order[1] = Main
  /\ Shapes \subseteq [Subs -> [writer : AllAgents, via : Vias]]
  /\ MaxChanges \in Nat

VARIABLES
  shape,     \* how each subagent was spawned
  evidence,  \* what the writer's transcript now tells of each subagent
  rows,      \* table agents: parent and outcome cause of each agent it holds
  edges,     \* table orchestration_edges: pairs of parent and child
  ok,        \* outcome of the last ingest
  changes

vars == <<shape, evidence, rows, edges, ok, changes>>

\* "block": the spawning tool_use; "report": a result naming the child;
\* "queue": a queue operation naming the block and the child; "progress": a
\* progress line naming the child; "error": the spawn's result is an error.
Tellable(via) ==
  CASE via = "workflow" -> {"block"}
    [] via = "sidecar"  -> {"block", "queue", "error"}
    [] via = "bare"     -> {"block", "report", "queue", "error"}
    [] via = "notified" -> {"block", "queue", "error"}
    [] via = "explore"  -> {"block", "report", "progress"}

TypeOK ==
  /\ shape \in Shapes
  /\ \A a \in Subs : evidence[a] \subseteq Tellable(shape[a].via)
  /\ DOMAIN rows \subseteq AllAgents
  /\ \A a \in DOMAIN rows :
       rows[a] \in [parent : AllAgents \cup {None}, cause : {None, "terminated_early"}]
  /\ edges \subseteq AllAgents \X AllAgents
  /\ ok \in BOOLEAN
  /\ changes \in 0..MaxChanges

Init ==
  /\ shape \in Shapes
  /\ evidence \in {[a \in Subs |-> Tellable(shape[a].via)], [a \in Subs |-> {}]}
  /\ rows = << >>
  /\ edges = {}
  /\ ok = TRUE
  /\ changes = 0

-----------------------------------------------------------------------------
\* The parser.

\* buildIndices: an anchor is indexed when the transcript it is in was read.
Seen(a, read) == IF shape[a].writer \in read THEN evidence[a] ELSE {}

\* foreignOwner: a transcript's own lines never make it its own spawner.
Foreign(a) == shape[a].writer # a

\* resolveParent: the block's id, from the sidecar or a line naming the child.
Anchored(a, read) ==
  shape[a].via = "sidecar" \/ Seen(a, read) \cap {"report", "queue"} # {}

Spawner(a, read) ==
  IF a = Main THEN None
  ELSE LET seen == Seen(a, read)
           writer == shape[a].writer
       IN CASE shape[a].via = "workflow" ->
                 IF "block" \in seen /\ Foreign(a) THEN writer ELSE Main
            [] shape[a].via # "workflow" /\ Anchored(a, read) ->
                 IF seen \cap {"block", "queue"} # {} /\ Foreign(a) THEN writer ELSE Main
            [] shape[a].via = "notified" /\ ~Anchored(a, read) -> Main
            [] OTHER ->
                 IF shape[a].via = "explore" /\ "progress" \in seen /\ Foreign(a)
                 THEN writer ELSE None

\* failedSpawns: an error counts for the agent resolved through its block.
Outcome(a, read) ==
  IF /\ a # Main
     /\ shape[a].via = "notified" \/ (shape[a].via # "workflow" /\ Anchored(a, read))
     /\ {"block", "error"} \subseteq Seen(a, read)
  THEN "terminated_early" ELSE None

-----------------------------------------------------------------------------
\* The normalizer.

\* The agents of a set, in the order they are listed.
Listing(list, S) == Kept(list, {i \in DOMAIN list : list[i] \in S})

AsListed(input, parent) == input \* a mutant

\* topoOrderAgents: roots, then the children of each agent of the queue in turn;
\* what hangs on a cycle comes last, in the order it was listed.
TopoOrder(input, parent) ==
  LET ids == ToSet(input)
      Roots == Listing(input, {a \in ids : parent[a] \notin ids})
      Take(queue, k) ==
        IF k > Len(queue) THEN queue
        ELSE queue \o Listing(input, {a \in ids : parent[a] = queue[k]})
      queue[k \in 0..Len(input)] == IF k = 0 THEN Roots ELSE Take(queue[k - 1], k)
      ordered == queue[Len(input)]
  IN ordered \o Listing(input, ids \ ToSet(ordered))

Resolved(read) == [a \in read |-> Spawner(a, read)]

\* normalizeSession: a parent not among the rows before is left out.
Normalized(read) ==
  LET parent == Resolved(read)
      order == TopoOrder(Listing(Order, read), parent)
      Earlier(i) == {order[j] : j \in 1..(i - 1)}
  IN [i \in DOMAIN order |->
        [id |-> order[i],
         parent |-> IF parent[order[i]] \in Earlier(i) THEN parent[order[i]] ELSE None,
         cause |-> Outcome(order[i], read)]]

-----------------------------------------------------------------------------
\* The projection.

\* upsertAgent: what a pass does not say leaves what is stored. A pass says
\* one row of each agent it read.
Coalesce(new, old) == IF new # None THEN new ELSE old
Told(normal) == {normal[i].id : i \in DOMAIN normal}
RowOf(a, normal) == normal[CHOOSE i \in DOMAIN normal : normal[i].id = a]
Upserted(normal) ==
  LET Old(a) == IF a \in DOMAIN rows THEN rows[a] ELSE [parent |-> None, cause |-> None]
  IN [a \in DOMAIN rows \cup Told(normal) |->
        IF a \notin Told(normal) THEN rows[a]
        ELSE [parent |-> Coalesce(RowOf(a, normal).parent, Old(a).parent),
              cause  |-> Coalesce(RowOf(a, normal).cause, Old(a).cause)]]

\* agents.parent_agent_id references agents(id), statement by statement.
Referenced(normal) ==
  \A i \in DOMAIN normal :
    normal[i].parent \in {None} \cup DOMAIN rows \cup {normal[j].id : j \in 1..i}

\* projectSession: one transaction over the rows, then the edges, which name
\* agents without referencing their rows and are ignored when already there.
Pass(read) ==
  LET normal == Normalized(read)
      parent == Resolved(read)
  IN
  /\ read # {}
  /\ UNCHANGED <<shape, evidence, changes>>
  /\ ok' = Referenced(normal)
  /\ IF ok'
     THEN /\ rows' = Upserted(normal)
          /\ edges' = edges \cup {<<parent[a], a>> : a \in {b \in read : parent[b] # None}}
     ELSE UNCHANGED <<rows, edges>>

\* The writer's transcript grows by a line, or compaction evicts one.
Change(a, kind) ==
  /\ changes < MaxChanges
  /\ changes' = changes + 1
  /\ evidence' = [evidence EXCEPT ![a] = IF kind \in @ THEN @ \ {kind} ELSE @ \cup {kind}]
  /\ UNCHANGED <<shape, rows, edges, ok>>

Next ==
  \/ \E read \in SUBSET AllAgents : Pass(read)
  \/ \E a \in Subs : \E kind \in Tellable(shape[a].via) : Change(a, kind)

Spec == Init /\ [][Next]_vars

-----------------------------------------------------------------------------
\* Where each number of steps from child to spawner leads, within what was read.
Climb(parent, a) ==
  LET at[n \in 0..Cardinality(DOMAIN parent)] ==
        IF n = 0 THEN a
        ELSE LET b == at[n - 1] IN IF b \in DOMAIN parent THEN parent[b] ELSE None
  IN at

\* normalize-session.ts:196-204 and agents.ts (the self-FK): every reading can
\* be stored whole, whatever the spawns look like.  Each agent that was read has
\* one row, an agent whose line of spawners ends keeps the spawner that was read
\* with it, and of a cycle of spawners a part is kept: all but one link of a pair,
\* as lines 195-196 say of any cycle, and as little as one link of a longer ring.
TreeKept ==
  \A read \in (SUBSET AllAgents) \ {{}} :
    \A normal \in {Normalized(read)}, parent \in {Resolved(read)} :
    LET size == Cardinality(read)
        linked == {a \in read : \E i \in DOMAIN normal :
                                  normal[i].id = a /\ normal[i].parent = parent[a]}
    IN /\ Referenced(normal)
       /\ Len(normal) = size /\ {normal[i].id : i \in DOMAIN normal} = read
       /\ \A a \in read :
            /\ Climb(parent, a)[size] = None /\ parent[a] \in read => a \in linked
            /\ \A n \in 1..size :
                 Climb(parent, a)[n] = a =>
                   \E k \in 1..n : Climb(parent, a)[k] \in linked

\* agents.ts, the COALESCE comments: a reading with a transcript missing or its
\* lines evicted never loses a parent or an outcome that was once observed.
Remembered ==
  [][\A a \in DOMAIN rows :
       /\ rows[a].parent # None => rows'[a].parent # None
       /\ rows[a].cause # None => rows'[a].cause = rows[a].cause]_vars

\* layered.ts:1-20, 40-60: the session's drawing says of each agent whether it
\* is in a cycle, only hangs below one, or where its rank is; draws each edge
\* downwards; counts what it does not draw; and puts no two agents in a place.
Served == SelectSeq(Order, LAMBDA a : a \in DOMAIN rows)
Reaches(drawn, S) ==
  LET reach[n \in 0..Cardinality(AllAgents)] ==
        IF n = 0 THEN S ELSE reach[n - 1] \cup {e[2] : e \in {f \in drawn : f[1] \in reach[n - 1]}}
  IN reach[Cardinality(AllAgents)]
Below(drawn, a) == Reaches(drawn, {e[2] : e \in {f \in drawn : f[1] = a}})
DrawnTruly ==
  \A at \in {Layout(Served, edges)}, nodes \in {DOMAIN rows} :
    LET cyclic == {a \in nodes : a \in Below(at.drawn, a)}
        below == UNION {Below(at.drawn, a) : a \in cyclic} \ cyclic
  IN /\ at.cyclic = cyclic
     /\ at.belowCycle = below
     /\ at.droppedEdges = Cardinality({e \in edges : ~({e[1], e[2]} \subseteq nodes)})
     /\ \A a \in nodes \ (cyclic \cup below) :
          LET parents == {p \in nodes : <<p, a>> \in at.drawn}
          IN at.depth[a] = IF parents = {} THEN 0 ELSE 1 + Max({at.depth[p] : p \in parents})
     /\ \A a \in cyclic \cup below, b \in nodes \ (cyclic \cup below) : at.depth[a] > at.depth[b]
     /\ \A a, b \in nodes : a # b => <<at.depth[a], at.x[a]>> # <<at.depth[b], at.x[b]>>
=============================================================================
