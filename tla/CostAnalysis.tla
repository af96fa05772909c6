---------------------------- MODULE CostAnalysis ----------------------------
(***************************************************************************)
(* What a session's delegation saved and what its compactions cost, told   *)
(* from its transcripts on request, and for the whole corpus from the      *)
(* stored rows.  The route finds the transcripts by the slug the database  *)
(* remembers or by listing the corpus, while the user copies, removes and  *)
(* hides directories and sessions grow; ingest follows later.              *)
(*                                                                         *)
(* One session is modelled, in as many project directories as hold a copy. *)
(* A transcript is what its lines come to: who spawned whom, the messages  *)
(* with the tokens they billed, the compactions.  TranscriptReading tells  *)
(* how it is read, UsageLedger how rates follow dates and buckets.         *)
(***************************************************************************)
EXTENDS Integers, Sequences, FiniteSets, SequencesExt, Selection, TLC

CONSTANTS
  Slugs,      \* project directories, ordered as their names are
  Versions,   \* what the session's transcripts may hold
  Main,       \* the id of the session and of its main agent
  Models,     \* models that are priced
  Synthetic,  \* the pseudo-model of messages that were never sent
  Rate(_),    \* dollars per token of a model; None if it is not priced
  MaxChanges, \* bound: acts of the user, faults and sessions' growth
  None

\* What parsing a transcript leaves: every message once, of the main agent or of
\* one that has a row.
WellFormed(v) ==
  /\ Main \in DOMAIN v.agents /\ None \notin DOMAIN v.agents /\ IsFiniteSet(DOMAIN v.agents)
  /\ v.usage \in Seq([msg : Nat, agent : (DOMAIN v.agents \ {Main}) \cup {None},
                      model : {v.usage[i].model : i \in DOMAIN v.usage}, out : Nat, at : Nat])
  /\ \A i, j \in DOMAIN v.usage : v.usage[i].msg = v.usage[j].msg => i = j
  /\ v.resets \in Seq([agent : (DOMAIN v.agents \ {Main}) \cup {None}, at : Nat])
  /\ \A i \in DOMAIN v.usage : Rate(v.usage[i].model) \in Int \cup {None}

\* What an instance has to satisfy.
Configured ==
  /\ None \notin Int /\ None \notin Versions
  /\ \A v \in Versions : v.is \in {"empty", "poisoned", "whole"} /\ (v.is = "whole" => WellFormed(v))
  /\ \A m \in Models : Rate(m) \in Int \cup {None}

VARIABLES
  copies,   \* what the corpus holds: slug -> version
  hidden,   \* the one thing that cannot be seen: << >> the root, <<s>> all of
            \* a directory, <<s, "list">> its listing, <<s, "main">> a transcript
  row,      \* what is stored of the session, or None
  rejected, \* the watcher holds a rejection of the session
  request,  \* the lookup in progress: where it will read, or None
  answer,   \* the last answer, if nothing has moved since, or None
  lastRead, \* history: the version the row was written from last
  onlyGrew, \* history: every version ingested continued the one before it
  changes

vars == <<copies, hidden, row, rejected, request, answer, lastRead, onlyGrew, changes>>

-------------------------------------------------------------------------------
\* Prices. Messages are sequences of [msg, agent, model, out, at]; the main
\* agent's carry no agent (None) when parsed, its id when stored.

Total(f) == FoldFunction(+, 0, f)

\* computeCostUsd: a model that is not priced halts it.
Cost(usage) ==
  IF \E i \in DOMAIN usage : Rate(usage[i].model) = None THEN None
  ELSE Total([i \in DOMAIN usage |-> usage[i].out * Rate(usage[i].model)])

OfAgent(list, a) == Kept(list, {i \in DOMAIN list : list[i].agent = a})

\* settledModel: of the message with the largest output, the first of a tie.
SettledModel(usage) ==
  LET real == Kept(usage, {i \in DOMAIN usage : usage[i].model # Synthetic})
      largest == {i \in DOMAIN real : \A j \in DOMAIN real : real[j].out <= real[i].out}
  IN  IF real = << >> THEN None ELSE real[Min(largest)].model

\* deriveTopTierModel: of the nearest ancestor that has one.
TopTier(agents, usage, a) ==
  LET Key(p) == IF p = Main /\ Main \in DOMAIN agents THEN None ELSE p
      up[n \in 1..Cardinality(DOMAIN agents)] ==
        IF n = 1 THEN agents[a]
        ELSE IF up[n - 1] \in DOMAIN agents THEN agents[up[n - 1]] ELSE None
      told == {n \in DOMAIN up : /\ \A k \in 1..n : up[k] \notin {None, a}
                                 /\ SettledModel(OfAgent(usage, Key(up[n]))) # None}
  IN  IF told = {} THEN None ELSE SettledModel(OfAgent(usage, Key(up[Min(told)])))

\* computeDelegationSavings: per subagent what it cost and what it would have
\* cost on the model the caller names or its parents ran on; None if it halts.
Savings(agents, usage, named) ==
  LET subs == DOMAIN agents \ {Main}
      Model(a) == IF named = None THEN TopTier(agents, usage, a) ELSE named
      priced == {a \in subs : Model(a) # None}
      Inline(e, a) == IF e.model = Synthetic THEN e ELSE [e EXCEPT !.model = Model(a)]
      Actual(a) == Cost(OfAgent(usage, a))
      Otherwise(a) ==
        LET own == OfAgent(usage, a) IN Cost([i \in DOMAIN own |-> Inline(own[i], a)])
  IN  IF \E a \in priced : None \in {Actual(a), Otherwise(a)} THEN None
      ELSE [perAgent |-> [a \in priced |-> <<Actual(a), Otherwise(a), Model(a)>>],
            skipped |-> subs \ priced]

-------------------------------------------------------------------------------
\* Compactions. "resets" is a sequence of [agent, at], in file order.

SegmentStrict(resets, a, at) ==   \* a mutant: a message at a reset precedes it
  Cardinality({k \in DOMAIN resets : resets[k].agent = a /\ resets[k].at < at})

\* In the order of their instants, those of one instant as they are listed.
ByTime(list) ==
  LET Sooner(j, i) == list[j].at < list[i].at \/ (list[j].at = list[i].at /\ j < i)
  IN  [k \in DOMAIN list |->
         list[CHOOSE i \in DOMAIN list : Cardinality({j \in DOMAIN list : Sooner(j, i)}) = k - 1]]

\* computeCompactionAwareCost: up to the first reset, in their order, that is
\* later than the message.
Segment(resets, a, at) ==
  LET own == ByTime(OfAgent(resets, a))
      later == {k \in DOMAIN own : own[k].at > at}
  IN  IF later = {} THEN Len(own) ELSE Min(later) - 1

\* groupByTranscript, computeCompactionAwareCost: the cost of each segment of
\* each transcript, those without a message included; None if one halts.
Segments(v) ==
  LET groups == {v.usage[i].agent : i \in DOMAIN v.usage} \cup
                {v.resets[k].agent : k \in DOMAIN v.resets}
      Into(a, n) ==
        Kept(v.usage, {i \in DOMAIN v.usage :
               v.usage[i].agent = a /\ Segment(v.resets, a, v.usage[i].at) = n})
  IN  UNION {{[agent |-> a, index |-> n, messages |-> Into(a, n), usd |-> Cost(Into(a, n))] :
                n \in 0..Len(OfAgent(v.resets, a))} : a \in groups}

-------------------------------------------------------------------------------
\* The stored rows.

\* upsertAgent, insertTokenUsageRows: parents that are known stay, tokens grow.
\* A parent that was not read is not written; cycles are AgentTree's.
Upserted(was, v, slug) ==
  LET Parent(a) == IF v.agents[a] \in DOMAIN v.agents THEN v.agents[a] ELSE None
      Known(a) == IF a \in DOMAIN was.agents THEN was.agents[a] ELSE None
      named == {e.msg : e \in {v.usage[i] : i \in DOMAIN v.usage}}
      Entry(m) == v.usage[CHOOSE i \in DOMAIN v.usage : v.usage[i].msg = m]
      Row(m) ==
        LET e == Entry(m)
            agent == IF e.agent = None THEN Main ELSE e.agent
        IN  IF m \in DOMAIN was.usage /\ was.usage[m].out >= e.out
            THEN [was.usage[m] EXCEPT !.agent = agent]
            ELSE [agent |-> agent, model |-> e.model, out |-> e.out]
  IN  [slug |-> slug,
       agents |-> [a \in DOMAIN was.agents \cup DOMAIN v.agents |->
                     IF a \notin DOMAIN v.agents \/ Parent(a) = None THEN Known(a) ELSE Parent(a)],
       usage |-> [m \in DOMAIN was.usage \cup named |->
                    IF m \in named THEN Row(m) ELSE was.usage[m]]]

KeyOf(r, a) == IF a = Main /\ Main \in DOMAIN r.agents THEN None ELSE a

\* reconstructDelegatingSessions: messages in the order of their ids.
Reconstructed(r) ==
  LET Row(m) == [msg |-> m, agent |-> KeyOf(r, r.usage[m].agent),
                 model |-> r.usage[m].model, out |-> r.usage[m].out, at |-> 0]
  IN  [k \in 1..Cardinality(DOMAIN r.usage) |-> Row(Nth(DOMAIN r.usage, k))]

\* getAggregateDelegationSavings: this session's part of the sums.
Aggregate(r, named) == Savings(r.agents, Reconstructed(r), named)

-------------------------------------------------------------------------------
\* The corpus and the writer.

Disturb ==
  /\ changes < MaxChanges /\ changes' = changes + 1
  /\ answer' = None
  /\ request' = IF request = None THEN None ELSE [request EXCEPT !.rested = FALSE]
  /\ UNCHANGED <<row, rejected, lastRead, onlyGrew>>

Hold(to) == copies' = to /\ UNCHANGED hidden

Continues(v, w) ==
  /\ DOMAIN v.agents \subseteq DOMAIN w.agents
  /\ \A a \in DOMAIN v.agents : v.agents[a] # None => w.agents[a] = v.agents[a]
  /\ \A i \in DOMAIN v.usage : \E j \in DOMAIN w.usage :
       /\ w.usage[j].msg = v.usage[i].msg /\ w.usage[j].agent = v.usage[i].agent
       /\ w.usage[j].out >= v.usage[i].out
       /\ w.usage[j].out = v.usage[i].out => w.usage[j].model = v.usage[i].model

\* The session goes on in one of its copies; or begins.
Grow(s) ==
  /\ Disturb
  /\ s \in DOMAIN copies \/ copies = << >>
  /\ \E w \in Versions :
       /\ IF s \in DOMAIN copies THEN w # copies[s] /\ Continues(copies[s], w) ELSE w.is = "empty"
       /\ Hold([x \in DOMAIN copies \cup {s} |-> IF x = s THEN w ELSE copies[x]])

Copy(s, t) ==
  /\ Disturb
  /\ s \in DOMAIN copies /\ t \notin DOMAIN copies
  /\ Hold([x \in DOMAIN copies \cup {t} |-> IF x = t THEN copies[s] ELSE copies[x]])

RemoveCopy(s) ==
  /\ Disturb
  /\ s \in DOMAIN copies
  /\ Hold([x \in DOMAIN copies \ {s} |-> copies[x]])

Hide(x) == Disturb /\ hidden = {} /\ hidden' = {x} /\ UNCHANGED copies
Heal == Disturb /\ hidden # {} /\ hidden' = {} /\ UNCHANGED copies

-------------------------------------------------------------------------------
\* Finding the session.

Shut == {s \in Slugs : <<s>> \in hidden}
Unlistable == Shut \cup {s \in Slugs : <<s, "list">> \in hidden}
Unprobeable == {s \in DOMAIN copies : <<s, "main">> \in hidden}
Listed == DOMAIN copies \ (Unlistable \cup Unprobeable)
Readable == DOMAIN copies \ (Shut \cup Unprobeable)

VerdictPlain == "not found"   \* a mutant: what could not be listed is forgotten

\* verdictForUnlisted: what it means that no listed directory has the session.
Verdict == IF Unlistable \cup Unprobeable = {} THEN "not found" ELSE "unknown"

\* enumerateSessions, dedupeSessionRefs.
Enumerated ==
  IF << >> \in hidden THEN "unknown" ELSE IF Listed = {} THEN Verdict ELSE "listed"

\* resolveHintedRef: by the slug that is stored with the session.
Hinted ==
  IF row = None \/ row.slug \notin Slugs THEN "declined"
  ELSE IF row.slug \in Shut \cup Unprobeable THEN "unknown"
  ELSE IF row.slug \in DOMAIN copies THEN "hit"
  ELSE "declined"

Reply(is) == [is |-> is, figures |-> None, named |-> None]

Replies(a) == answer' = a /\ request' = None /\ UNCHANGED <<copies, hidden, row, rejected, lastRead, onlyGrew, changes>>
Reads(s, named) ==
  /\ request' = [slug |-> s, named |-> named, rested |-> TRUE]
  /\ answer' = None
  /\ UNCHANGED <<copies, hidden, row, rejected, lastRead, onlyGrew, changes>>

\* The route: a session that was never stored and is held as rejected is told
\* so; then the hint, then the listing.
Ask(named) ==
  /\ request = None /\ answer = None
  /\ \/ /\ row = None /\ rejected
        /\ Replies(Reply("rejected"))
     \/ /\ ~(row = None /\ rejected)
        /\ \/ Hinted = "hit" /\ Reads(row.slug, named)
           \/ Hinted = "unknown" /\ Replies(Reply("unknown"))
           \/ /\ Hinted = "declined"
              /\ \/ Enumerated = "listed" /\ Reads(Min(Listed), named)
                 \/ Enumerated = "unknown" /\ Replies(Reply("unknown"))
                 \/ /\ Enumerated = "not found"
                    /\ Replies(Reply(IF rejected THEN "rejected" ELSE "not found"))

\* What the route computes from what was read.
Figures(v, named) ==
  LET savings == Savings(v.agents, v.usage, named)
  IN  IF Cost(v.usage) = None \/ savings = None THEN None
      ELSE [naive |-> Cost(v.usage), segments |-> Segments(v), savings |-> savings]

\* buildSessionSubstrate, parseSession, and what the route answers. A file that
\* is gone or cannot be read by now leaves nothing to analyse.
Outcome(s, named) ==
  LET figures == Figures(copies[s], named)
      is == IF s \notin Readable \/ copies[s].is = "empty" THEN "empty"
            ELSE IF copies[s].is = "poisoned" THEN "unparsable"
            ELSE IF figures = None THEN "unpriceable" ELSE "figures"
  IN  [is |-> is, figures |-> IF is = "figures" THEN figures ELSE None, named |-> named]

Analyse ==
  /\ request # None
  /\ Replies(IF request.rested THEN Outcome(request.slug, request.named) ELSE None)

-------------------------------------------------------------------------------
\* A pass over the corpus: CorpusWatcher and TranscriptReading tell when and
\* how; a model that is not priced halts it as a poisoned transcript does.
Ingest ==
  /\ request = None
  /\ << >> \notin hidden /\ Listed # {}
  /\ LET s == Min(Listed)
         v == copies[s]
         was == IF row = None THEN [agents |-> << >>, usage |-> << >>] ELSE row
         refused == v.is = "poisoned" \/ Cost(v.usage) = None
     IN  /\ v.is # "empty"
         /\ rejected' = refused
         /\ IF refused THEN UNCHANGED <<row, lastRead, onlyGrew>>
            ELSE /\ row' = Upserted(was, v, s)
                 /\ lastRead' = v
                 /\ onlyGrew' = (onlyGrew /\ (lastRead = None \/ Continues(lastRead, v)))
  /\ answer' = None
  /\ UNCHANGED <<copies, hidden, request, changes>>

\* What has left the corpus is no longer held as rejected, unless it may be
\* there and cannot be seen.
Forget ==
  /\ request = None /\ rejected /\ hidden = {} /\ copies = << >>
  /\ rejected' = FALSE /\ answer' = None
  /\ UNCHANGED <<copies, hidden, row, request, lastRead, onlyGrew, changes>>

\* An answer has been shown.
Again ==
  /\ answer # None /\ answer' = None
  /\ UNCHANGED <<copies, hidden, row, rejected, request, lastRead, onlyGrew, changes>>

Init ==
  /\ copies = << >> /\ hidden = {}
  /\ row = None /\ rejected = FALSE
  /\ request = None /\ answer = None
  /\ lastRead = None /\ onlyGrew = TRUE /\ changes = 0

Next ==
  \/ \E s \in Slugs : Grow(s) \/ RemoveCopy(s) \/ \E t \in Slugs : Copy(s, t)
  \/ \E x \in {<< >>} \cup {<<s>> : s \in Slugs} \cup {<<s, "list">> : s \in Slugs} \cup {<<s, "main">> : s \in DOMAIN copies} : Hide(x)
  \/ Heal
  \/ \E named \in Models \cup {None} : Ask(named)
  \/ Analyse \/ Ingest \/ Forget \/ Again

Spec == Init /\ [][Next]_vars

-------------------------------------------------------------------------------
\* While nothing moves, an answer says what is so: a session is missing only
\* if no directory holds it and every one was looked into, and figures are
\* those of a copy that can be read (loadSession, the analysis route).
AnswerHonest ==
  answer # None =>
    LET copy(is) == \E s \in Readable : copies[s].is = is
    IN  /\ answer.is = "not found" => copies = << >> /\ ~rejected
        /\ answer.is = "unknown" => hidden # {}
        /\ answer.is = "rejected" => rejected
        /\ answer.is = "empty" => copy("empty")
        /\ answer.is = "unparsable" => copy("poisoned")
        /\ answer.is \in {"figures", "unpriceable"} =>
             \E s \in Readable : copies[s].is = "whole" /\ answer.figures = Figures(copies[s], answer.named)

\* The segments a session's compactions cut hold every message once, where the
\* resets of its own transcript put it, and cost together what the session
\* does (computeCompactionAwareCost, "deltaUsd MUST be ~0").
Reconciles ==
  answer # None /\ answer.figures # None =>
    \E s \in Readable :
      LET v == copies[s]
          parts == answer.figures.segments
          Passed(e) == {k \in DOMAIN v.resets : v.resets[k].agent = e.agent /\ v.resets[k].at <= e.at}
      IN  /\ Total([p \in parts |-> p.usd]) = answer.figures.naive
          /\ \A i \in DOMAIN v.usage :
               LET e == v.usage[i]
                   holding == {p \in parts : \E k \in DOMAIN p.messages : p.messages[k].msg = e.msg}
               IN  \E p \in parts : holding = {p} /\ p.agent = e.agent /\ p.index = Cardinality(Passed(e))

\* Two messages of one agent share its largest output and name two models.
Tied(v) ==
  \E i, j \in DOMAIN v.usage :
    /\ v.usage[i].agent = v.usage[j].agent
    /\ v.usage[i].out = v.usage[j].out /\ v.usage[i].model # v.usage[j].model

\* The sums over the stored rows say of a session that was ingested whole, and
\* has only grown, what its own analysis says.
Equivalent(v) == \A named \in Models \cup {None} :
                   Aggregate(row, named) = Savings(v.agents, v.usage, named)

SameFigures == lastRead # None /\ onlyGrew /\ ~Tied(lastRead) => Equivalent(lastRead)

\* substrate-provider.ts, loadSession: "the hint can only ever cost a lookup its
\* speed, never its answer".
HintIsSpeedOnly ==
  answer # None /\ row # None =>
    LET unhinted ==
          CASE Enumerated = "listed" -> Outcome(Min(Listed), answer.named)
            [] Enumerated = "not found" /\ rejected -> Reply("rejected")
            [] OTHER -> Reply(Enumerated)
    IN  answer.is = unhinted.is /\ answer.figures = unhinted.figures
=============================================================================
