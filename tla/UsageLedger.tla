---------------------------- MODULE UsageLedger ----------------------------
(***************************************************************************)
(* The token ledger and the money read from it: the dedupe of streamed     *)
(* usage records, the halt gate that prices a session before it is         *)
(* written, the upsert of one row per message and bucket, the rollup that  *)
(* triggers maintain behind both the ledger and the price table, the       *)
(* retention delete, and the memoised cost summary of the read API.        *)
(*                                                                         *)
(* The server writes through one connection and every transaction runs to  *)
(* its end before another starts (better-sqlite3 is synchronous), so an    *)
(* ingest, a prune and a summary read are one action each. The operator's  *)
(* sqlite3 shell is a second connection: its commits fall between them.    *)
(*                                                                         *)
(* A text timestamp is a pair of the wall clock it spells and its zone.    *)
(* SQLite compares the spelling, core compares the instant; the two agree  *)
(* on the canonical spelling only, the one in zone 0.                      *)
(***************************************************************************)
EXTENDS Integers, Sequences, FiniteSets, SequencesExt, Selection

CONSTANTS
  Sessions,       \* session ids, one transcript each
  Messages,       \* message ids, global over the sessions
  Agents,         \* subagent ids
  Models,         \* model labels
  Scripts,        \* what the transcripts may come to hold: functions from
                  \* Sessions to sequences of usage records
  Stamps,         \* spellings an operator writes a rate's date in
  Edited,         \* the <<model, bucket>> slices the operator edits
  NewRates,       \* the rates he writes, one of them possibly unusable
  DayLength,      \* instants in one day
  Cutoffs,        \* the cutoffs a retention rule on token_usage may reach
  MaxRowsPerRun,  \* rows one retention run may remove
  MaxEdits,       \* bound: operator edits and retention runs of a behaviour
  None            \* no agent id, no rate in force, no cached summary

Buckets == {"input", "output", "cache_read", "cache_write_5m", "cache_write_1h"}

\* The buckets of dedupe's independent maximum; the other two move as a pair.
MaxBuckets == {"input", "output", "cache_read"}

ASSUME LedgerAssumption ==
  /\ DayLength \in Nat \ {0}
  /\ MaxRowsPerRun \in Nat
  /\ MaxEdits \in Nat
  /\ None \notin Int
  /\ NewRates \subseteq Int
  /\ Stamps \subseteq [wall : Int, zone : Int]
  /\ Scripts \subseteq [Sessions -> Seq([msg : Messages, agent : Agents \cup {None},
                                         model : Models, stamp : [wall : Nat, zone : Int],
                                         use : [Buckets -> Nat]])]

VARIABLES
  script,    \* what each transcript will hold once its session is over
  written,   \* records of it on disk
  prices,    \* model_pricing: a function from [model, bucket, from] to a rate
  ledger,    \* token_usage: a function from <<message, bucket>> to a row
  rowids,    \* the keys of ledger in the order their rows were inserted
  rollup,    \* token_usage_rollup: its key to the group's tokens and rows
  cache,     \* the memoised summary with the state key it was read under
  moved,     \* total_changes() or data_version has moved since the cache filled
  readTo,    \* history: records the last successful ingest of a session saw
  edits      \* operator edits and retention runs so far

vars == <<script, written, prices, ledger, rowids, rollup, cache, moved,
          readTo, edits>>

-----------------------------------------------------------------------------
(* Timestamps *)

Instant(st) == st.wall - st.zone

\* canonicalizeOccurredAt, and the triggers' strftime: the UTC spelling.
Canonical(st) == [wall |-> Instant(st), zone |-> 0]

-----------------------------------------------------------------------------
(* Dedupe by message id, over the records of one transcript *)

\* The lines of a transcript that record message m, by their numbers.
LinesOf(lines, m) == {i \in DOMAIN lines : lines[i].msg = m}

Greatest(S) == CHOOSE x \in S : \A y \in S : y <= x
First(at) == CHOOSE i \in at : \A j \in at : i <= j

PairTotal(r) == r.use["cache_write_5m"] + r.use["cache_write_1h"]

MaxUse(lines, at, b) == Greatest({lines[i].use[b] : i \in at})

\* Two agents, or two models tied at the greatest output: dedupe throws.
Conflicting(lines, at) ==
  \E i, j \in at :
    \/ lines[i].agent # lines[j].agent
    \/ /\ lines[i].model # lines[j].model
       /\ lines[i].use["output"] = MaxUse(lines, at, "output")
       /\ lines[j].use["output"] = MaxUse(lines, at, "output")

\* The cache-write pair comes from the last record with the largest total.
PairLine(lines, at) ==
  Greatest({i \in at : \A j \in at : PairTotal(lines[j]) <= PairTotal(lines[i])})

SettledLine(lines, at) ==
  CHOOSE i \in at : lines[i].use["output"] = MaxUse(lines, at, "output")

Collapsed(lines, at) ==
  [msg   |-> lines[First(at)].msg,
   agent |-> lines[First(at)].agent,
   model |-> lines[SettledLine(lines, at)].model,
   stamp |-> lines[First(at)].stamp,
   use   |-> [b \in Buckets |-> IF b \in MaxBuckets THEN MaxUse(lines, at, b)
                                ELSE lines[PairLine(lines, at)].use[b]]]

MessagesOf(lines) == {lines[i].msg : i \in DOMAIN lines}

DedupeUsageByMessageId(lines) ==
  {Collapsed(lines, LinesOf(lines, m)) : m \in MessagesOf(lines)}

OnDisk(s) == SubSeq(script[s], 1, written[s])

-----------------------------------------------------------------------------
(* Prices, resolved twice: by core over instants, by SQL over text *)

RatesOf(tbl, model, b) == {k \in DOMAIN tbl : k.model = model /\ k.bucket = b}

\* computeCostUsd's resolveRate; None when no rate is in force.
CoreRate(tbl, model, b, st) ==
  LET due == {k \in RatesOf(tbl, model, b) : Instant(k.from) <= Instant(st)}
  IN IF due = {} THEN None
     ELSE tbl[CHOOSE k \in due : \A l \in due : Instant(l.from) <= Instant(k.from)]

\* The priced CTE: the latest by text decides, an unusable rate prices nothing.
SqlRate(tbl, row, b) ==
  LET due == {k \in RatesOf(tbl, row.model, b) : k.from.wall <= row.at.wall}
      rate == tbl[CHOOSE k \in due : \A l \in due : l.from.wall <= k.from.wall]
  IN IF due = {} THEN None ELSE IF rate >= 0 THEN rate ELSE None

\* One unusable rate makes core refuse the table; an unknown model or a
\* counted bucket without a rate in force refuses the session.
Priceable(tbl, entry) ==
  /\ \A k \in DOMAIN tbl : tbl[k] >= 0
  /\ \E b \in Buckets : RatesOf(tbl, entry.model, b) # {}
  /\ \A b \in Buckets : entry.use[b] > 0 =>
       CoreRate(tbl, entry.model, b, entry.stamp) # None

Total(f) == FoldFunction(+, 0, f)

-----------------------------------------------------------------------------
(* The rollup and the triggers that keep it *)

Day(row) == Instant(row.at) \div DayLength

\* The winning rate's date, canonical on both sides; None for no rate.
WinningDate(tbl, p, row) ==
  LET due == {Instant(k.from) : k \in {l \in RatesOf(tbl, row.model, p[2]) :
                                         Instant(l.from) <= Instant(row.at)}}
  IN IF due = {} THEN None ELSE Greatest(due)

GroupKey(tbl, p, row) ==
  [session |-> row.session, model |-> row.model, bucket |-> p[2],
   day |-> Day(row), rate |-> WinningDate(tbl, p, row)]

\* The signed upsert of the trigger bodies.
Delta(roll, key, tokens, rows) ==
  IF key \in DOMAIN roll
  THEN [roll EXCEPT ![key] = [tokens |-> @.tokens + tokens, rows |-> @.rows + rows]]
  ELSE [k \in DOMAIN roll \cup {key} |->
          IF k = key THEN [tokens |-> tokens, rows |-> rows] ELSE roll[k]]

\* A group goes when its tokens do: a mutant.
EmptiedByTokens(roll, key) ==
  [k \in {l \in DOMAIN roll : l # key \/ roll[l].tokens # 0} |-> roll[k]]

\* Runs last in a body that subtracts: a group goes with its last row.
Emptied(roll, key) ==
  [k \in {l \in DOMAIN roll : l # key \/ roll[l].rows # 0} |-> roll[k]]

OnUsageInsert(tbl, roll, p, new) == Delta(roll, GroupKey(tbl, p, new), new.tokens, 1)

OnUsageDelete(tbl, roll, p, old) ==
  Emptied(Delta(roll, GroupKey(tbl, p, old), -old.tokens, -1), GroupKey(tbl, p, old))

OnUsageUpdate(tbl, roll, p, old, new) ==
  Emptied(Delta(Delta(roll, GroupKey(tbl, p, old), -old.tokens, -1),
                GroupKey(tbl, p, new), new.tokens, 1),
          GroupKey(tbl, p, old))

\* The grouped scan of the ledger that seeds the rollup and rebuilds a slice.
Grouped(tbl, led, ps) ==
  LET KeyOf(p) == GroupKey(tbl, p, led[p])
      Group(key) == {p \in ps : KeyOf(p) = key}
  IN [key \in {KeyOf(p) : p \in ps} |->
        [tokens |-> Total([p \in Group(key) |-> led[p].tokens]),
         rows   |-> Cardinality(Group(key))]]

\* The pricing triggers: the slice of one model and bucket is rebuilt whole.
Recompute(tbl, roll, model, b) ==
  LET kept    == {k \in DOMAIN roll : k.model # model \/ k.bucket # b}
      slice   == {p \in DOMAIN ledger : ledger[p].model = model /\ p[2] = b}
      rebuilt == Grouped(tbl, ledger, slice)
  IN [k \in kept \cup DOMAIN rebuilt |-> IF k \in kept THEN roll[k] ELSE rebuilt[k]]

-----------------------------------------------------------------------------
(* Ingest: parse, halt gate, projection *)

\* A message whose output row belongs to another session is not touched.
Owned(s, e) ==
  <<e.msg, "output">> \in DOMAIN ledger => ledger[<<e.msg, "output">>].session = s

Settles(e) ==
  <<e.msg, "output">> \in DOMAIN ledger =>
    e.use["output"] > ledger[<<e.msg, "output">>].tokens

Fresh(s, e, b) ==
  [session |-> s, agent |-> IF e.agent = None THEN s ELSE e.agent,
   model |-> e.model, tokens |-> e.use[b], at |-> Canonical(e.stamp)]

\* INSERT OR IGNORE, the first snapshot stands: a mutant.
UpsertedOnce(s, e, b) ==
  IF <<e.msg, b>> \in DOMAIN ledger THEN ledger[<<e.msg, b>>] ELSE Fresh(s, e, b)

\* One row of the upsert; it changes nothing when nothing would move.
Upserted(s, e, b) ==
  LET p == <<e.msg, b>>  new == Fresh(s, e, b)  old == ledger[p]
  IN IF p \notin DOMAIN ledger THEN new
     ELSE [session |-> old.session,
           agent   |-> new.agent,
           model   |-> IF Settles(e) THEN new.model ELSE old.model,
           tokens  |-> IF new.tokens > old.tokens THEN new.tokens ELSE old.tokens,
           at      |-> IF Settles(e) THEN new.at ELSE old.at]

\* The ledger after the write transaction of session s.
Written(s, entries) ==
  LET mine == {e \in entries : Owned(s, e)}
      pairs == {e.msg : e \in mine} \X Buckets
      entry(m) == CHOOSE e \in mine : e.msg = m
  IN [p \in DOMAIN ledger \cup pairs |->
        IF p \in pairs THEN Upserted(s, entry(p[1]), p[2]) ELSE ledger[p]]

\* The rollup after the row triggers of a write, in any order of its rows.
Triggered(new) ==
  LET changed == {p \in DOMAIN new : p \notin DOMAIN ledger \/ new[p] # ledger[p]}
      Fire(p, roll) ==
        IF p \in DOMAIN ledger THEN OnUsageUpdate(prices, roll, p, ledger[p], new[p])
        ELSE OnUsageInsert(prices, roll, p, new[p])
  IN FoldSet(Fire, rollup, changed)

\* Each message's five rows are inserted together, in the order of its
\* first record in the transcript.
InsertionOrder(lines, new) ==
  LET firsts == {i \in DOMAIN lines : \A j \in 1..(i - 1) : lines[j].msg # lines[i].msg}
      five   == <<"input", "output", "cache_read", "cache_write_5m", "cache_write_1h">>
      all    == [n \in 1..(5 * Cardinality(firsts)) |->
                   <<lines[Nth(firsts, 1 + ((n - 1) \div 5))].msg, five[1 + ((n - 1) % 5)]>>]
  IN Kept(all, {n \in DOMAIN all : all[n] \in DOMAIN new \ DOMAIN ledger})

\* ingestSession fails before its transaction and writes nothing.
Refused(s) ==
  \/ \E m \in MessagesOf(OnDisk(s)) : Conflicting(OnDisk(s), LinesOf(OnDisk(s), m))
  \/ \E e \in DedupeUsageByMessageId(OnDisk(s)) : ~Priceable(prices, e)

\* The session row is upserted on every pass, so the change counter moves.
IngestSession(s) ==
  LET entries == DedupeUsageByMessageId(OnDisk(s))
      new     == Written(s, entries)
  IN /\ written[s] > 0
     /\ ~Refused(s)
     /\ ledger' = new
     /\ rowids' = rowids \o InsertionOrder(OnDisk(s), new)
     /\ rollup' = Triggered(new)
     /\ moved' = (cache # None)
     /\ readTo' = [readTo EXCEPT ![s] = written[s]]
     /\ UNCHANGED <<script, written, prices, cache, edits>>

\* The CLI appends one record to a transcript.
AppendRecord(s) ==
  /\ written[s] < Len(script[s])
  /\ written' = [written EXCEPT ![s] = @ + 1]
  /\ UNCHANGED <<script, prices, ledger, rowids, rollup, cache, moved, readTo, edits>>

-----------------------------------------------------------------------------
(* Price table: the operator's shell, a connection of its own *)

RateKey(slice, st) == [model |-> slice[1], bucket |-> slice[2], from |-> st]

\* One edit of model_pricing with the rollup its triggers leave.
Repriced(tbl, roll) ==
  /\ edits < MaxEdits
  /\ edits' = edits + 1
  /\ prices' = tbl
  /\ rollup' = roll
  /\ moved' = (cache # None)
  /\ UNCHANGED <<script, written, ledger, rowids, cache, readTo>>

\* An INSERT. The row lands in the spelling it was written in; the trigger
\* that rewrites it and the trigger that rebuilds the slice run in an order
\* SQLite does not define, and the rewrite, an UPDATE, rebuilds it again.
\* A rewrite onto an existing instant fails the primary key.
InsertRate(slice, st, rate) ==
  LET raw   == RateKey(slice, st)
      key   == RateKey(slice, Canonical(st))
      inRaw == [k \in DOMAIN prices \cup {raw} |-> IF k = raw THEN rate ELSE prices[k]]
      inUtc == [k \in DOMAIN prices \cup {key} |-> IF k = key THEN rate ELSE prices[k]]
      once(tbl, roll) == Recompute(tbl, roll, slice[1], slice[2])
  IN /\ key \notin DOMAIN prices
     /\ \/ Repriced(inUtc, once(inUtc, once(inRaw, rollup)))
        \/ Repriced(inUtc, once(inUtc, once(inUtc, rollup)))

\* upsertPricingRate, and an UPDATE of usd_per_mtok: the grouping stands.
SetRate(slice, st, rate) ==
  LET key == RateKey(slice, Canonical(st))
  IN /\ key \in DOMAIN prices
     /\ prices[key] # rate
     /\ Repriced([prices EXCEPT ![key] = rate], rollup)

DeleteRate(slice, st) ==
  LET key == RateKey(slice, Canonical(st))
      tbl == [k \in DOMAIN prices \ {key} |-> prices[k]]
  IN /\ key \in DOMAIN prices
     /\ Repriced(tbl, Recompute(tbl, rollup, slice[1], slice[2]))

-----------------------------------------------------------------------------
(* Retention of token_usage, where a rule asks for it *)

\* The oldest rows by rowid, at most MaxRowsPerRun of those before the cutoff.
ExpiredWindow(cutoff) ==
  LET expired == {i \in DOMAIN rowids : ledger[rowids[i]].at.wall < cutoff}
  IN {rowids[i] : i \in {i \in expired :
                           Cardinality({j \in expired : j < i}) < MaxRowsPerRun}}

Prune(cutoff) ==
  LET gone == ExpiredWindow(cutoff)
  IN /\ edits < MaxEdits
     /\ edits' = edits + 1
     /\ gone # {}
     /\ ledger' = [p \in DOMAIN ledger \ gone |-> ledger[p]]
     /\ rowids' = Kept(rowids, {i \in DOMAIN rowids : rowids[i] \notin gone})
     /\ rollup' = FoldSet(LAMBDA p, roll : OnUsageDelete(prices, roll, p, ledger[p]),
                          rollup, gone)
     /\ moved' = (cache # None)
     /\ UNCHANGED <<script, written, prices, cache, readTo>>

-----------------------------------------------------------------------------
(* The cost summary *)

NoSpend == [tokens |-> 0, cost |-> 0, unpriced |-> 0]

\* The rate a group was rolled up under: a lookup on the stored date.
GroupRate(key) ==
  IF key.rate = None THEN None
  ELSE LET rate == prices[RateKey(<<key.model, key.bucket>>,
                                  [wall |-> key.rate, zone |-> 0])]
       IN IF rate >= 0 THEN rate ELSE None

Spend(tokens, rate) ==
  IF rate = None THEN [tokens |-> tokens, cost |-> 0, unpriced |-> tokens]
  ELSE [tokens |-> tokens, cost |-> tokens * rate, unpriced |-> 0]

Add(a, b) ==
  [tokens |-> a.tokens + b.tokens, cost |-> a.cost + b.cost,
   unpriced |-> a.unpriced + b.unpriced]

\* What a summary reads of a slice, a row of the rollup or of the ledger.
Slice(model, day, session, spend) ==
  [all |-> "all", model |-> model, day |-> day, session |-> session, spend |-> spend]

\* One row per label: the totals and the splits by model, day and session.
Regrouped(slices, label) ==
  [l \in {slices[i][label] : i \in DOMAIN slices} |->
     FoldSet(LAMBDA i, sum : Add(slices[i].spend, sum), NoSpend,
             {i \in DOMAIN slices : slices[i][label] = l})]

Summarised(slices) ==
  [totals |-> Regrouped(slices, "all"), models |-> Regrouped(slices, "model"),
   days |-> Regrouped(slices, "day"), tops |-> Regrouped(slices, "session")]

SummaryOfRollup ==
  Summarised([k \in DOMAIN rollup |->
    Slice(k.model, k.day, k.session, Spend(rollup[k].tokens, GroupRate(k)))])

\* The memo trusts the price table alone: a mutant.
HitByPrices == cache # None /\ cache.prices = prices

\* getCostSummary: the memo answers while its state key stands.
Hit == cache # None /\ ~moved /\ cache.prices = prices

Answer == IF Hit THEN cache.summary ELSE SummaryOfRollup

ReadSummary ==
  /\ ~Hit
  /\ cache' = [prices |-> prices, summary |-> Answer]
  /\ moved' = FALSE
  /\ UNCHANGED <<script, written, prices, ledger, rowids, rollup, readTo, edits>>

\* The process is restarted: the memo dies with its connection.
Restart ==
  /\ cache # None
  /\ cache' = None
  /\ moved' = FALSE
  /\ UNCHANGED <<script, written, prices, ledger, rowids, rollup, readTo, edits>>

-----------------------------------------------------------------------------

\* The seeded rates: every model and bucket from the coverage floor on.
Seed ==
  [k \in {RateKey(slice, [wall |-> 0, zone |-> 0]) : slice \in Models \X Buckets} |-> 1]

Init ==
  /\ script \in Scripts
  /\ written = [s \in Sessions |-> 0]
  /\ prices = Seed
  /\ ledger = <<>>
  /\ rowids = <<>>
  /\ rollup = <<>>
  /\ cache = None
  /\ moved = FALSE
  /\ readTo = [s \in Sessions |-> 0]
  /\ edits = 0

Next ==
  \/ \E s \in Sessions : AppendRecord(s) \/ IngestSession(s)
  \/ \E slice \in Edited, st \in Stamps :
       \/ DeleteRate(slice, st)
       \/ \E rate \in NewRates : InsertRate(slice, st, rate) \/ SetRate(slice, st, rate)
  \/ \E cutoff \in Cutoffs : Prune(cutoff)
  \/ ReadSummary
  \/ Restart

Spec == Init /\ [][Next]_vars

-----------------------------------------------------------------------------
(* Properties *)

\* The upsert converges: however many partial reads came before, and in
\* whatever order the sessions were read, a stored message is what dedupe
\* computes over all its owner's records the ingest has seen.
ReproducesDedupe ==
  \A p \in DOMAIN ledger :
    LET s == ledger[p].session
        seen == SubSeq(script[s], 1, readTo[s])
        at == LinesOf(seen, p[1])
    IN /\ at # {}
       /\ ledger[p] = Fresh(s, Collapsed(seen, at), p[2])

\* The rollup is the grouped scan of the ledger under the prices of now,
\* after every insert, correction, retention delete and price edit and in
\* either order of the triggers.
RollupExact == rollup = Grouped(prices, ledger, DOMAIN ledger)

\* The same summary from the ledger itself, row by row through the priced CTE.
SummaryOfLedger ==
  Summarised([p \in DOMAIN ledger |->
    LET row == ledger[p]
    IN Slice(row.model, Day(row), row.session, Spend(row.tokens, SqlRate(prices, row, p[2])))])

\* Whenever it is asked, the read API answers what a scan of the ledger gives
\* at that moment, from the memo or from the rollup, which is exact: no edit of
\* either connection, no retention run and no ingest leaves a stale figure.
SummaryFresh == RollupExact /\ Answer = SummaryOfLedger

=============================================================================
