--------------------------- MODULE SchemaMigrations ---------------------------
(***************************************************************************)
(* Migrations of the database at boot (db/migrations.ts).                  *)
(*                                                                         *)
(* A process opens the database, compares the checksum of every recorded   *)
(* migration with its own text, and applies the pending ones in order,     *)
(* each in one transaction with its record. The database may have been     *)
(* left by a build that kept no checksums, or seeded other prices, and all *)
(* along the operator edits the price table from the command line, sessions*)
(* are ingested, processes die, and a second one may boot beside the first.*)
(*                                                                         *)
(* The five buckets of a model are written alike and stand as one row. An  *)
(* instant is spelled as a bare date, with a zone, canonically, or so that *)
(* nobody can tell what it is.                                             *)
(***************************************************************************)
EXTENDS Integers, FiniteSets, Sequences, SequencesExt, FiniteSetsExt, Functions

CONSTANTS
  None,
  Processes,
  Builds,      \* a build: [ids |-> a set of ids, says |-> its text of each]
  Legacies,    \* what earlier builds left: [ids, prices, usage, stamp]
  Asks,        \* rates an operator may write: [model, at, form, rate]
  MaxBoots,    \* bounds the boots
  MaxEdits,    \* bounds the operator's edits
  MaxIngests   \* bounds the ingests

VARIABLES
  applied,   \* schema_version: migration -> its checksum, None if recorded before checksums
  db,        \* the tables: [prices, usage, stamp, clock, objects]
  asked,     \* history: the operator's rates that no migration has taken over
  installed, \* the build on disk
  proc,      \* process -> [pc, build, todo]
  boots, edits, ingests

vars == <<applied, db, asked, installed, proc, boots, edits, ingests>>

Off == [pc |-> "off", build |-> None, todo |-> {}]

-------------------------------------------------------------------------------
\* Instants and prices. A rate's row is keyed by its model and the spelling of
\* its instant.

Floor == 1      \* 2026-01-01, from which the shipped rates apply
Authored == 2   \* 2026-07-11, the instant of the original seed

Key(model, at, form) == [model |-> model, at |-> at, form |-> form]
Canonical(k) == [k EXCEPT !.form = "canonical"]
Readable(k) == k.form /= "unreadable"
SameInstant(k, l) == k.model = l.model /\ k.at = l.at /\ Readable(k) /\ Readable(l)

Seed == [claude_sonnet_5 |-> 3, synthetic |-> 0]
OriginalSeed == [sonnet_5 |-> 3, synthetic |-> 0]

Row(rates, at, form) ==
  [k \in {Key(x, at, form) : x \in DOMAIN rates} |-> rates[k.model]]

\* INSERT .. ON CONFLICT DO UPDATE: a row of the same spelling is replaced.
Upserted(prices, rows) ==
  [k \in DOMAIN prices \cup DOMAIN rows |-> IF k \in DOMAIN rows THEN rows[k] ELSE prices[k]]

\* The rates a migration ships; the text of 20 may have been edited.
Shipped(m, text) ==
  CASE m \in {7, 11} -> Seed
    [] m = 18 -> [claude_opus_5 |-> 5, claude_fable_5_1 |-> 10]
    [] m = 19 -> [claude_opus_5_5 |-> 4]
    [] m = 20 -> [claude_sonnet_5 |-> IF text = "edited" THEN 9 ELSE 2]
    [] m = 24 -> [claude_sonnet_5_5 |-> 2]
    [] OTHER -> << >>

-------------------------------------------------------------------------------
\* What each migration does to the tables t.

Seeded(t) == [t EXCEPT !.prices = Row(Seed, Floor, "bare")]

\* Main-transcript usage is handed to the session's main agent, if it is known.
Attributed(t) ==
  [t EXCEPT !.usage = { IF u.agent = None /\ u.main THEN [u EXCEPT !.agent = "main"] ELSE u
                        : u \in t.usage }]

\* The original seed goes, the current one is written over what is there.
Converged(t) ==
  LET original == {Key(x, Authored, "bare") : x \in DOMAIN OriginalSeed}
      kept == Restrict(t.prices, DOMAIN t.prices \ original)
  IN  [t EXCEPT !.prices = Upserted(kept, Row(Seed, Floor, "bare"))]

\* Rates are never guessed: a row nobody can date, or two rates for one instant
\* in two spellings, stop the migration.
PricesDatable(t) ==
  \A k \in DOMAIN t.prices :
     /\ Readable(k)
     /\ \A l \in DOMAIN t.prices : SameInstant(k, l) => t.prices[k] = t.prices[l]

PricesCanonical(t) ==
  [t EXCEPT !.prices =
     [k \in {Canonical(l) : l \in DOMAIN t.prices} |->
        t.prices[CHOOSE l \in DOMAIN t.prices : Canonical(l) = k]]]

UsageDatable(t) == \A u \in t.usage : u.form /= "unreadable"

UsageCanonical(t) ==
  [t EXCEPT !.usage = { IF u.form = "none" THEN u ELSE [u EXCEPT !.form = "canonical"]
                        : u \in t.usage }]

\* New models, or new rates for one, at the floor in its canonical spelling.
Priced(t, rates) == [t EXCEPT !.prices = Upserted(@, Row(rates, Floor, "canonical"))]

\* Every session gets its row number, and the clock starts at the largest.
Sequenced(t) ==
  [t EXCEPT !.stamp = [s \in DOMAIN @ |-> s], !.clock = Max({0} \cup DOMAIN t.stamp)]

Up(m, text, t) ==
  CASE m = 7 -> Seeded(t)
    [] m = 8 -> Attributed(t)
    [] m = 11 -> Converged(t)
    [] m = 14 -> PricesCanonical(t)
    [] m = 15 -> UsageCanonical(t)
    [] m \in {18, 19, 20, 24} -> Priced(t, Shipped(m, text))
    [] m = 22 -> Sequenced(t)
    [] OTHER -> t

\* Migrations that make tables, columns, indexes or triggers, which exist once.
CoreTables == 1..7
Checkpoints == {9, 10}
EdgeTables == {12, 13}
PriceTriggers == {14}
UsageTriggers == {15}
RollupTables == {16}
AgentColumns == {17}
SessionColumns == {21, 22}
AlertTables == {23}
Structural == UNION {CoreTables, Checkpoints, EdgeTables, PriceTriggers, UsageTriggers,
                     RollupTables, AgentColumns, SessionColumns, AlertTables}

Runs(m, t) ==
  /\ m \in Structural => m \notin t.objects
  /\ m = 14 => PricesDatable(t)
  /\ m = 15 => UsageDatable(t)

Migrated(m, text, t) ==
  [Up(m, text, t) EXCEPT !.objects = @ \cup ({m} \cap Structural)]

\* The instants whose rates a migration decides, whoever had written them.
TakenOver(m, text) ==
  {[model |-> x, at |-> Floor] : x \in DOMAIN Shipped(m, text)} \cup
  IF m = 11 THEN {[model |-> x, at |-> Authored] : x \in DOMAIN OriginalSeed} ELSE {}

\* Some row holds the rate for that model and instant.
Stands(w, prices) ==
  \E k \in DOMAIN prices :
     Readable(k) /\ k.model = w.model /\ k.at = w.at /\ prices[k] = w.rate

\* What an instance has to satisfy. The list of migrations only grows at its end
\* (assertOrdered), so what a build or a database has is a beginning of it; an
\* instance may leave out migrations, never those whose rows later ones rest on.
Listed == {7, 11, 14} \cup UNION {b.ids : b \in Builds}
Beginning(ids) ==
  ids \subseteq 1..24 /\ \A m \in ids : {n \in Listed : n < m} \subseteq ids

\* Migration 11, which repairs what the first builds had seeded, came with the
\* checksums: a build that kept none ended before it.
Configured ==
  /\ None /= "main"
  /\ \A b \in Builds : Beginning(b.ids) /\ \A m \in b.ids : b.says[m] /= None
  /\ \A l \in Legacies :
       /\ Beginning(l.ids) /\ l.ids \subseteq 1..10
       /\ l.prices \in IF 7 \in l.ids
                       THEN {Row(Seed, Floor, "bare"), Row(OriginalSeed, Authored, "bare")}
                       ELSE {<< >>}
       /\ \A u \in l.usage : /\ u = [agent |-> u.agent, main |-> u.main, form |-> u.form]
                             /\ 8 \in l.ids /\ u.main => u.agent /= None
       /\ l.stamp \in Seq({0})

-------------------------------------------------------------------------------
\* The runner.

\* A migration's checksum is of its text, without layout and comments.
MigrationChecksum(b, m) == b.says[m]

\* Boot: the table of versions is made or widened, its rows are read.
Boot(p) ==
  /\ proc[p].pc = "off" /\ boots < MaxBoots
  /\ boots' = boots + 1
  /\ proc' = [proc EXCEPT ![p] = [pc |-> "verify", build |-> installed,
                                  todo |-> {[id |-> m, checksum |-> applied[m]] : m \in DOMAIN applied}]]
  /\ UNCHANGED <<applied, db, asked, installed, edits, ingests>>

First(todo) == CHOOSE r \in todo : \A q \in todo : r.id <= q.id

\* The next row that was read: one from before checksums is trusted as it is.
Verify(p) ==
  LET r == First(proc[p].todo)
      b == proc[p].build
  IN  /\ proc[p].pc = "verify" /\ proc[p].todo /= {}
      /\ r.id \in b.ids => r.checksum \in {None, MigrationChecksum(b, r.id)}
      /\ applied' = IF r.id \in b.ids /\ r.checksum = None
                    THEN [applied EXCEPT ![r.id] = MigrationChecksum(b, r.id)]
                    ELSE applied
      /\ proc' = [proc EXCEPT ![p].todo = @ \ {r}]
      /\ UNCHANGED <<db, asked, installed, boots, edits, ingests>>

Refused(p) ==
  LET r == First(proc[p].todo)
      b == proc[p].build
  IN  /\ proc[p].pc = "verify" /\ proc[p].todo /= {}
      /\ r.id \in b.ids /\ r.checksum \notin {None, MigrationChecksum(b, r.id)}

\* The pending ones are those of the list that are not recorded by now.
Plan(p) ==
  /\ proc[p].pc = "verify" /\ proc[p].todo = {}
  /\ proc' = [proc EXCEPT ![p].pc = "apply", ![p].todo = proc[p].build.ids \ DOMAIN applied]
  /\ UNCHANGED <<applied, db, asked, installed, boots, edits, ingests>>

Pending(p) == Min(proc[p].todo)

\* One migration and its record, in one transaction.
ApplicableAgain(p) == Runs(Pending(p), db)   \* a mutant: the record is replaced

Applicable(p) == Pending(p) \notin DOMAIN applied /\ Runs(Pending(p), db)

Apply(p) ==
  LET b == proc[p].build
      m == Pending(p)
  IN  /\ proc[p].pc = "apply" /\ proc[p].todo /= {} /\ Applicable(p)
      /\ db' = Migrated(m, b.says[m], db)
      /\ applied' = [n \in DOMAIN applied \cup {m} |->
                      IF n = m THEN MigrationChecksum(b, m) ELSE applied[n]]
      /\ asked' = {a \in asked : [model |-> a.model, at |-> a.at] \in TakenOver(m, b.says[m])
                                    => Stands(a, db'.prices)}
      /\ proc' = [proc EXCEPT ![p].todo = @ \ {m}]
      /\ UNCHANGED <<installed, boots, edits, ingests>>

Serve(p) ==
  /\ proc[p].pc = "apply" /\ proc[p].todo = {}
  /\ proc' = [proc EXCEPT ![p].pc = "up"]
  /\ UNCHANGED <<applied, db, asked, installed, boots, edits, ingests>>

Gone(p) ==
  /\ proc' = [proc EXCEPT ![p] = Off]
  /\ UNCHANGED <<applied, db, asked, installed, boots, edits, ingests>>

\* A migration edited after it was applied, one that cannot run, and one that
\* another process has recorded meanwhile end the boot.
Throw(p) ==
  /\ \/ Refused(p)
     \/ proc[p].pc = "apply" /\ proc[p].todo /= {} /\ ~Applicable(p)
  /\ Gone(p)

\* A process ends anywhere; a transaction that is open is undone.
Die(p) == proc[p].pc /= "off" /\ Gone(p)

-------------------------------------------------------------------------------
\* The world.

\* Another build is checked out, while no process is between boot and service.
Install(b) ==
  /\ b /= installed
  /\ \A p \in Processes : proc[p].pc \in {"off", "up"}
  /\ installed' = b
  /\ UNCHANGED <<applied, db, asked, proc, boots, edits, ingests>>

\* A row as the price table's triggers leave it, once there are any.
Stored(k) == IF 14 \in db.objects THEN Canonical(k) ELSE k

\* The operator writes a rate: a new row, or a new rate in a row of that
\* spelling. The triggers abort what cannot be dated and what collides.
Write(a) ==
  LET k == Key(a.model, a.at, a.form)
      row == IF k \in DOMAIN db.prices THEN k ELSE Stored(k)
  IN
  /\ 7 \in db.objects /\ edits < MaxEdits
  /\ \/ k \in DOMAIN db.prices
     \/ /\ 14 \in db.objects => Readable(k)
        /\ Stored(k) \notin DOMAIN db.prices
  /\ edits' = edits + 1
  /\ db' = [db EXCEPT !.prices = Upserted(@, [l \in {row} |-> a.rate])]
  /\ asked' = {w \in asked \cup {[model |-> a.model, at |-> a.at, rate |-> a.rate]} :
                Stands(w, db'.prices)}
  /\ UNCHANGED <<applied, installed, proc, boots, ingests>>

\* The operator deletes a row that stops a migration.
Mend(k) ==
  /\ edits < MaxEdits
  /\ \/ ~Readable(k)
     \/ \E l \in DOMAIN db.prices : SameInstant(k, l) /\ db.prices[k] /= db.prices[l]
  /\ edits' = edits + 1
  /\ db' = [db EXCEPT !.prices = Restrict(@, DOMAIN @ \ {k})]
  /\ asked' = {w \in asked : Stands(w, db'.prices)}
  /\ UNCHANGED <<applied, installed, proc, boots, ingests>>

\* .. or spells out a usage row that does.
MendUsage(u) ==
  /\ edits < MaxEdits /\ u.form = "unreadable"
  /\ edits' = edits + 1
  /\ db' = [db EXCEPT !.usage = (@ \ {u}) \cup {[u EXCEPT !.form = "canonical"]}]
  /\ UNCHANGED <<applied, asked, installed, proc, boots, ingests>>

\* A serving process learns something of a session, old or new; the triggers
\* stamp it, once there are any.
Ingest(p, s) ==
  /\ proc[p].pc = "up" /\ ingests < MaxIngests
  /\ s \in 1 .. Len(db.stamp) + 1
  /\ ingests' = ingests + 1
  /\ LET stamped == 22 \in db.objects
         tick == IF stamped THEN db.clock + 1 ELSE db.clock
         stamp == IF stamped THEN tick ELSE 0
     IN  db' = [db EXCEPT !.clock = tick,
                          !.stamp = IF s \in DOMAIN @ THEN [@ EXCEPT ![s] = stamp] ELSE Append(@, stamp)]
  /\ UNCHANGED <<applied, asked, installed, proc, boots, edits>>

\* A new database, or one an earlier build has left.
Init ==
  /\ \E l \in Legacies :
       /\ applied = [m \in l.ids |-> None]
       /\ db = [prices |-> l.prices, usage |-> l.usage, stamp |-> l.stamp, clock |-> 0,
                objects |-> l.ids \cap Structural]
  /\ asked = {}
  /\ installed \in Builds
  /\ proc = [p \in Processes |-> Off]
  /\ boots = 0 /\ edits = 0 /\ ingests = 0

Next ==
  \/ \E p \in Processes : Boot(p) \/ Verify(p) \/ Plan(p) \/ Apply(p) \/ Serve(p) \/ Throw(p) \/ Die(p)
  \/ \E b \in Builds : Install(b)
  \/ \E a \in Asks : Write(a)
  \/ \E k \in DOMAIN db.prices : Mend(k)
  \/ \E u \in db.usage : MendUsage(u)
  \/ \E p \in Processes, s \in 1 .. Len(db.stamp) + 1 : Ingest(p, s)

Spec == Init /\ [][Next]_vars

-------------------------------------------------------------------------------
\* Correctness.

\* The migration that decided a model's rate at the floor, and the rate.
Pricing(x) == {m \in DOMAIN applied : x \in DOMAIN Shipped(m, applied[m])}
FloorRate(x) == LET m == Max(Pricing(x)) IN Shipped(m, applied[m])[x]

PricesKept ==
  LET standing(x) == {a.rate : a \in {w \in asked : w.model = x /\ w.at = Floor}}
      rows(x) == {k \in DOMAIN db.prices : Readable(k) /\ k.model = x /\ k.at = Floor}
  IN  /\ \A a \in asked : Stands(a, db.prices)
      /\ 11 \in DOMAIN applied =>
           \A x \in UNION {DOMAIN Shipped(m, None) : m \in DOMAIN applied} :
              /\ rows(x) /= {}
              /\ \A k \in rows(x) : db.prices[k] \in standing(x) \cup {FloorRate(x)}
      /\ 14 \in DOMAIN applied => \A k \in DOMAIN db.prices : k.form = "canonical"

UsageMended ==
  /\ 8 \in DOMAIN applied => \A u \in db.usage : u.main => u.agent /= None
  /\ 15 \in DOMAIN applied => \A u \in db.usage : u.form \in {"none", "canonical"}

NewestLast ==
  22 \in DOMAIN applied =>
     /\ \A s \in DOMAIN db.stamp : db.stamp[s] \in 1 .. db.clock
     /\ IsInjective(db.stamp)

\* However a database came to its version, through which builds, deaths, second
\* processes and edits by hand, it is what a fresh install of that version
\* would be: the shipped rates from the floor on except where the operator has
\* spoken since, one spelling of every instant, usage handed to its main
\* agent, a sequence that later changes extend; and a server is up only on
\* migrations that read as they did when they were applied
\* (runMigrations, migrations.ts 1890-1982).
UpgradedAsFresh ==
  /\ db.objects = DOMAIN applied \cap Structural
  /\ PricesKept
  /\ UsageMended
  /\ NewestLast
  /\ \A p \in Processes : proc[p].pc = "up" =>
       \A m \in proc[p].build.ids :
          m \in DOMAIN applied /\ applied[m] = MigrationChecksum(proc[p].build, m)

===============================================================================
