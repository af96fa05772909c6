--------------------------- MODULE MCAgentLiveness ---------------------------
(***************************************************************************)
(* Finite instances for TLC of the tables of agents and sessions: their    *)
(* statuses, for one session whose main agent is lead, and the migrations  *)
(* that bring the tables of an earlier build up to date. A serving process *)
(* has migrated, so a behaviour is one of the statuses or one of the boot. *)
(***************************************************************************)
EXTENDS AgentLiveness, TLC

CONSTANTS lead, sub,
          None, Processes, Builds, Legacies, Asks, MaxBoots, MaxEdits, MaxIngests

VARIABLES
  subject,  \* the life of the tables this behaviour is about
  applied, db, asked, installed, proc, boots, edits, ingests

tables == <<applied, db, asked, installed, proc, boots, edits, ingests>>

OneSession == [x \in Agents |-> lead]

\* This build, one that had fewer migrations, and this one with a migration
\* edited that others may have applied. The migrations are those that change
\* rows, and one that only makes tables.
List == {6, 7, 8, 11, 14, 15, 18, 20, 22}
Release(ids) == [ids |-> ids, says |-> [m \in ids |-> "current"]]
Current == Release(List)
Older == Release(List \ 18..24)
Edited == [Current EXCEPT !.says[20] = "edited"]
ThreeBuilds == {Current, Older, Edited}

Rated(x, at, form, rate) ==
  [k \in {[model |-> x, at |-> at, form |-> form]} |-> rate]
Used(agent, main, form) == [agent |-> agent, main |-> main, form |-> form]

\* Nothing; the original seed with usage of an unknown and a known main agent;
\* the current seed with a usage row nobody can date.
Left ==
  { [ids |-> {}, prices |-> << >>, usage |-> {}, stamp |-> << >>],
    [ids |-> {6, 7}, prices |-> Rated("sonnet_5", 2, "bare", 3) @@ Rated("synthetic", 2, "bare", 0),
     usage |-> {Used(None, TRUE, "zoned"), Used(None, FALSE, "none")}, stamp |-> <<0, 0>>],
    [ids |-> {6, 7, 8}, prices |-> Rated("claude_sonnet_5", 1, "bare", 3) @@ Rated("synthetic", 1, "bare", 0),
     usage |-> {Used("main", TRUE, "unreadable")}, stamp |-> <<0>>] }

Ask(x, at, form, rate) == [model |-> x, at |-> at, form |-> form, rate |-> rate]

\* The seed's own rate and another at its instant, one for a model that is
\* shipped later, one at another instant, one nobody can date.
Rates ==
  { Ask("claude_sonnet_5", 1, "zoned", 3), Ask("claude_sonnet_5", 1, "canonical", 7),
    Ask("claude_opus_5", 1, "bare", 7), Ask("claude_opus_5", 3, "zoned", 7),
    Ask("claude_sonnet_5", 3, "unreadable", 7) }

Boot == INSTANCE SchemaMigrations

ASSUME BootAssumption == Boot!Configured

TablesParked ==
  /\ applied = << >> /\ db = << >> /\ asked = {} /\ installed = None
  /\ proc = << >> /\ boots = 0 /\ edits = 0 /\ ingests = 0

StoredInit ==
  \/ subject = "statuses" /\ Init /\ TablesParked
  \/ subject = "boot" /\ Boot!Init /\ Init

StoredNext ==
  \/ subject = "statuses" /\ Next /\ UNCHANGED <<subject, tables>>
  \/ subject = "boot" /\ Boot!Next /\ UNCHANGED <<subject, vars>>

Statuses == subject = "statuses"
all == <<subject, vars, tables>>

StoredSpec ==
  /\ StoredInit /\ [][StoredNext]_all
  /\ WF_all(Statuses /\ ClockTicks /\ UNCHANGED <<subject, tables>>)
  /\ WF_all(Statuses /\ Sweep /\ UNCHANGED <<subject, tables>>)

\* An upgraded database is what a fresh install of its version would be.
UpgradedAsFresh == subject = "boot" => Boot!UpgradedAsFresh
=============================================================================
