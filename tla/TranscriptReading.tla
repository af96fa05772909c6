-------------------------- MODULE TranscriptReading --------------------------
(***************************************************************************)
(* From the files on disk to the rows of a session: which copy of a        *)
(* session is read, which of its files, which lines of them, and what is   *)
(* refused.  The writer appends, and the user copies and removes, between  *)
(* any two of the reader's file operations: a reading is no snapshot.      *)
(*                                                                         *)
(* Only complete lines are modelled: what splitTranscriptLines cuts off a  *)
(* file that is being written is the difference between its creation and   *)
(* its first line.  When sessions are read is CorpusWatcher's, who spawned *)
(* whom AgentTree's, what usage costs UsageLedger's.                       *)
(***************************************************************************)
EXTENDS Integers, Sequences, FiniteSets

CONSTANTS
  Slugs,        \* project directories, ordered as their names are
  Sessions,     \* session ids, and stems of transcripts
  Hexes,        \* ids of subagents
  Writes(_, _), \* the lines the writer may append to a part of a session
  Cap,          \* lines a file may have and be read
  MaxChanges,   \* bound: lines and files written, acts of the user, faults
  None

VARIABLES
  files,    \* what exists: path -> lines
  hidden,   \* paths and project directories that cannot be probed or read now
  reading,  \* the reading in progress
  stored,   \* per session: its row, its agents' rows and its ledger, or None
  verdict,  \* per stem: what the last reading came to
  fresh,    \* history: stems nothing happened to since their last reading began
  origin,   \* history: the stems whose files a session's rows came from
  growing,  \* history: so far files have only grown, and none was hidden
  changes

\* A line says when it was written, or 0, and its usage what it counts. The ids
\* of subagents are no session's, and no file beside theirs has one.
Configured ==
  /\ Slugs \subseteq Nat /\ (\E last \in Slugs : \A s \in Slugs : s <= last) /\ Cap \in Nat
  /\ Sessions # {} /\ None \notin Sessions /\ Hexes \cap (Sessions \cup {"main", "journal", "notes"}) = {}
  /\ \A u \in Sessions, p \in Hexes \cup {"main", "journal", "notes"} : \A l \in Writes(u, p) :
       /\ l.at \in Nat
       /\ l.use # None => l.use.flat \in Nat /\ l.use.split \in {<< >>} \cup (Nat \X Nat)

disk == <<files, hidden, growing, changes>>
vars == <<disk, reading, stored, verdict, fresh, origin>>

SetMin(S) == CHOOSE x \in S : \A y \in S : x <= y
SetMax(S) == CHOOSE x \in S : \A y \in S : x >= y

-------------------------------------------------------------------------------
\* The corpus.

\* classifyFile: under subagents/ lie agents' transcripts, a journal, and what
\* is no artifact; the main transcript is beside it.
Under == Hexes \cup {"journal", "notes"}
Parts == Under \cup {"main"}
Transcript(p) == p \in Hexes \cup {"main"}

Of(s, u) == {p \in Parts : <<s, u, p>> \in DOMAIN files}
Readable(s, u, p) == hidden \cap {<<s>>, <<s, u, p>>} = {}

\* Something happens to the files of these stems.
Changes(us) ==
  /\ changes < MaxChanges /\ changes' = changes + 1
  /\ fresh' = fresh \ us
  /\ UNCHANGED <<reading, stored, verdict, origin>>

\* A line, or a file whose first line is not complete yet.
Write(s, u, p) ==
  /\ Changes({u})
  /\ <<s, u, "main">> \in DOMAIN files
  /\ LET path == <<s, u, p>>
         With(ls) == files' = [x \in DOMAIN files \cup {path} |-> IF x = path THEN ls ELSE files[x]]
     IN  \/ path \notin DOMAIN files /\ With(<< >>)
         \/ \E line \in Writes(u, p) :
              With(Append(IF path \in DOMAIN files THEN files[path] ELSE << >>, line))
  /\ UNCHANGED <<hidden, growing>>

\* What the user does to files: directories and transcripts copied, removed.
Keeps(paths, From(_)) ==
  /\ files' = [x \in paths |-> files[IF x \in DOMAIN files THEN x ELSE From(x)]]
  /\ growing' = FALSE
  /\ UNCHANGED hidden

CopyProject(s, t) ==
  /\ Changes(Sessions) /\ s # t
  /\ \A x \in DOMAIN files : x[1] # t
  /\ Keeps(DOMAIN files \cup {<<t, x[2], x[3]>> : x \in {y \in DOMAIN files : y[1] = s}},
           LAMBDA x : <<s, x[2], x[3]>>)

CopyTranscript(s, u, v) ==
  /\ Changes({v}) /\ <<s, u, "main">> \in DOMAIN files /\ <<s, v, "main">> \notin DOMAIN files
  /\ Keeps(DOMAIN files \cup {<<s, v, "main">>}, LAMBDA x : <<s, u, "main">>)

RemoveProject(s) ==
  /\ Changes(Sessions) /\ \E x \in DOMAIN files : x[1] = s
  /\ Keeps({x \in DOMAIN files : x[1] # s}, LAMBDA x : x)

\* A directory or a file cannot be probed or read for a time.
Hide(x) ==
  /\ Changes(Sessions)
  /\ hidden = {} /\ hidden' = {x} /\ growing' = FALSE
  /\ UNCHANGED files

Heal ==
  /\ hidden # {} /\ hidden' = {} /\ fresh' = {}
  /\ UNCHANGED <<files, growing, changes, reading, stored, verdict, origin>>

-------------------------------------------------------------------------------
\* Reading.

\* enumerateSessions: the directories that hold a transcript of that name.
Listed(u) == {s \in Slugs : "main" \in Of(s, u) /\ Readable(s, u, "main")}

\* dedupeSessionRefs: one copy, whatever the order of the listing.
Winner(u) == SetMin(Listed(u))

Begin(u) ==
  /\ reading = None /\ Listed(u) # {}
  /\ reading' = [at |-> "main", slug |-> Winner(u), session |-> u,
                 left |-> {}, got |-> << >>, partial |-> FALSE]
  /\ fresh' = fresh \cup {u}
  /\ UNCHANGED <<disk, stored, verdict, origin>>

\* A pass that finds no session has nothing to do.
NoSession == reading = None /\ (\A u \in Sessions : Listed(u) = {}) /\ UNCHANGED vars

Now == <<reading.slug, reading.session>>
There(p) == p \in Of(Now[1], Now[2]) /\ Readable(Now[1], Now[2], p)
LinesOf(p) == files[<<Now[1], Now[2], p>>]
Oversize(p) == There(p) /\ Len(LinesOf(p)) > Cap

\* Not read: gone, unreadable, over the cap, no artifact, or a transcript
\* without a complete line, which would fail the session.
Takes(p) ==
  /\ There(p) /\ ~Oversize(p) /\ p # "notes"
  /\ Transcript(p) => LinesOf(p) # << >>

Adds(p) ==
  IF Takes(p) THEN Append(reading.got, [part |-> p, lines |-> LinesOf(p)]) ELSE reading.got

\* buildSessionSubstrate: the main transcript first. partialFor: the session is
\* partial if the cap refused it.
ReadMain ==
  /\ reading # None /\ reading.at = "main"
  /\ reading' = [reading EXCEPT !.at = "dir", !.got = Adds("main"), !.partial = Oversize("main")]
  /\ UNCHANGED <<disk, stored, verdict, fresh, origin>>

\* resolveSubagentsDir, readDirNames.
ListDir ==
  /\ reading # None /\ reading.at = "dir"
  /\ reading' = [reading EXCEPT !.at = "walk",
                                !.left = IF <<Now[1]>> \in hidden THEN {}
                                         ELSE Under \cap Of(Now[1], Now[2])]
  /\ UNCHANGED <<disk, stored, verdict, fresh, origin>>

\* walkArtifacts, in the order of the listing, which is any.
ReadPart(p) ==
  /\ reading # None /\ reading.at = "walk" /\ p \in reading.left
  /\ reading' = [reading EXCEPT !.left = @ \ {p}, !.got = Adds(p)]
  /\ UNCHANGED <<disk, stored, verdict, fresh, origin>>

-------------------------------------------------------------------------------
\* What the lines say. "got" is a sequence of parts with their lines.

RangeOf(seq) == {seq[i] : i \in DOMAIN seq}
AllLines(got) == UNION {RangeOf(f.lines) : f \in RangeOf(got)}
Transcripts(got) == {f \in RangeOf(got) : Transcript(f.part)}
Ids(got) == {l.says : l \in {x \in AllLines(got) : x.json}} \ {None}

\* peekSubstrateSessionId: the first id found, in the order of the files.
Declared(got) ==
  LET Says(f) == {i \in DOMAIN f.lines : f.lines[i].json /\ f.lines[i].says # None}
      speak == {k \in DOMAIN got : Says(got[k]) # {}}
  IN  IF speak = {} THEN None
      ELSE LET f == got[SetMin(speak)] IN f.lines[SetMin(Says(f))].says

MismatchedNever(got, u) == FALSE   \* a mutant
Mismatched(got, u) == Declared(got) \notin {None, u}

\* Lines with usage that name their message, and those that cannot be told apart.
Billed(f) == {i \in DOMAIN f.lines : f.lines[i].use # None /\ f.lines[i].use.msg # None}
Nameless(f) == {i \in DOMAIN f.lines : f.lines[i].use # None /\ f.lines[i].use.msg = None}
Bills(f, m) == {i \in Billed(f) : f.lines[i].use.msg = m}

\* parseSession, dedupeUsageByMessageId: what is refused whole.
Contradicts(got) ==
  \/ \E l \in AllLines(got) : ~l.json
  \/ \A id \in Ids(got) : Ids(got) # {id}
  \/ \E f \in Transcripts(got) : \A l \in RangeOf(f.lines) : l.at = 0
  \/ \E f \in RangeOf(got) : f.part \in Hexes /\ \E l \in RangeOf(f.lines) : l.agent \notin {None, f.part}
  \/ \E f, g \in Transcripts(got) : f # g /\ \E i \in Billed(f) : Bills(g, f.lines[i].use.msg) # {}

\* mapUsageBuckets: what the split leaves of the flat total goes unsplit.
Buckets(use) ==
  IF use.split = << >> THEN <<use.flat, 0>>
  ELSE LET unsplit == use.flat - use.split[1] - use.split[2]
       IN  <<use.split[1] + (IF unsplit > 0 THEN unsplit ELSE 0), use.split[2]>>

\* transcriptTimespan: file order is not the order of instants.
Span(f) ==
  LET instants == {l.at : l \in RangeOf(f.lines)} \ {0}
  IN  [from |-> SetMin(instants), to |-> SetMax(instants)]

\* dedupeUsageByMessageId: the buckets of the last line with the largest total.
Settled(f, m) ==
  LET of(i) == Buckets(f.lines[i].use)
      largest == {i \in Bills(f, m) : \A j \in Bills(f, m) : of(j)[1] + of(j)[2] <= of(i)[1] + of(i)[2]}
  IN  of(SetMax(largest))

Agent(f, u) == IF f.part = "main" THEN u ELSE f.part

Parsed(got, u) ==
  LET told == Transcripts(got)
      messages == UNION {{f.lines[i].use.msg : i \in Billed(f)} : f \in told}
  IN  [agents |-> [a \in {Agent(f, u) : f \in told} |->
                     Span(CHOOSE f \in told : Agent(f, u) = a)],
       tokens |-> [m \in messages |-> Settled(CHOOSE f \in told : Bills(f, m) # {}, m)],
       dropped |-> Cardinality({x \in told \X (1..Cap) : x[2] \in Nameless(x[1])})]

-------------------------------------------------------------------------------
\* Storing.

\* Functions over what is known, the one merged into the other.
Merged(f, g, Both(_, _)) ==
  [x \in DOMAIN f \cup DOMAIN g |->
     IF x \notin DOMAIN g THEN f[x] ELSE IF x \notin DOMAIN f THEN g[x] ELSE Both(f[x], g[x])]

Wider(a, b) == [from |-> SetMin({a.from, b.from}), to |-> SetMax({a.to, b.to})]
Larger(a, b) == <<SetMax({a[1], b[1]}), SetMax({a[2], b[2]})>>

Unknown == [agents |-> << >>, tokens |-> << >>, dropped |-> 0]

\* What a partial reading left out still is left out.
Dropped(was, new, partial) == IF partial THEN SetMax({was, new}) ELSE new

ProjectedAnew(was, new, slug, partial) ==   \* a mutant: the rows of the last reading
  [slug |-> slug, partial |-> partial, agents |-> new.agents, tokens |-> new.tokens,
   dropped |-> Dropped(was.dropped, new.dropped, partial)]

\* upsertSession, upsertAgent and insertTokenUsageRows, in one transaction.
Projected(was, new, slug, partial) ==
  [slug |-> slug, partial |-> partial,
   agents |-> Merged(was.agents, new.agents, Wider),
   tokens |-> Merged(was.tokens, new.tokens, Larger),
   dropped |-> Dropped(was.dropped, new.dropped, partial)]

Concludes(outcome) ==
  /\ reading # None /\ reading.at = "walk" /\ reading.left = {}
  /\ verdict' = [verdict EXCEPT ![reading.session] = outcome]
  /\ reading' = None
  /\ UNCHANGED <<disk, fresh>>

\* No transcript could be read: the session is skipped, not failed.
Nothing ==
  /\ Concludes("nothing") /\ Transcripts(reading.got) = {}
  /\ UNCHANGED <<stored, origin>>

Refuse ==
  /\ Concludes("refused") /\ Transcripts(reading.got) # {}
  /\ Mismatched(reading.got, reading.session) \/ Contradicts(reading.got)
  /\ UNCHANGED <<stored, origin>>

\* The rows are keyed on the id the lines carry, not on the file's name.
Store ==
  /\ Concludes("stored") /\ Transcripts(reading.got) # {}
  /\ ~Mismatched(reading.got, reading.session) /\ ~Contradicts(reading.got)
  /\ LET u == CHOOSE id \in Ids(reading.got) : TRUE
         was == IF stored[u] = None THEN Unknown ELSE stored[u]
     IN  /\ stored' = [stored EXCEPT ![u] =
                         Projected(was, Parsed(reading.got, u), reading.slug, reading.partial)]
         /\ origin' = [origin EXCEPT ![u] = @ \cup {reading.session}]

-------------------------------------------------------------------------------
\* One session has begun, in the directory that sorts last.
Init ==
  /\ LET u == CHOOSE u \in Sessions : TRUE
     IN  \E line \in Writes(u, "main") : files = [x \in {<<SetMax(Slugs), u, "main">>} |-> <<line>>]
  /\ hidden = {} /\ growing = TRUE /\ changes = 0
  /\ reading = None
  /\ stored = [u \in Sessions |-> None] /\ verdict = [u \in Sessions |-> "none"]
  /\ fresh = {} /\ origin = [u \in Sessions |-> {}]

Environment ==
  \/ \E s \in Slugs, u \in Sessions, p \in Parts : Write(s, u, p)
  \/ \E s, t \in Slugs : CopyProject(s, t)
  \/ \E s \in Slugs, u, v \in Sessions : CopyTranscript(s, u, v)
  \/ \E s \in Slugs : RemoveProject(s) \/ Hide(<<s>>)
  \/ \E x \in DOMAIN files : Hide(x)
  \/ Heal

Reader ==
  \/ NoSession \/ \E u \in Sessions : Begin(u)
  \/ ReadMain \/ ListDir \/ \E p \in Under : ReadPart(p)
  \/ Nothing \/ Refuse \/ Store

Next == Environment \/ Reader

Spec == Init /\ [][Next]_vars

-------------------------------------------------------------------------------
\* Rows of a session come only from files of its name: a transcript that is
\* copied, renamed or resumed under another name fuses onto nothing, in any
\* order of writing and reading (runCorpusIngest, the identity check).
NeverFused == \A u \in Sessions : origin[u] \subseteq {u}

\* The files of the copy that is read which can be read now.
Legible(u) ==
  LET s == Winner(u)
  IN  {[part |-> p, lines |-> files[<<s, u, p>>]] :
         p \in {q \in Of(s, u) \ {"notes"} :
                  /\ Readable(s, u, q)
                  /\ Len(files[<<s, u, q>>]) \in (IF Transcript(q) THEN 1 ELSE 0)..Cap}}

\* Lines that contradict themselves or the name of their file.
Poisoned(legible, u) ==
  LET told == {f \in legible : Transcript(f.part)}
      says == UNION {RangeOf(f.lines) : f \in legible}
  IN  \/ \E l \in says : ~l.json \/ l.says \notin {None, u}
      \/ \A l \in says : l.says = None
      \/ \E f \in told : \A l \in RangeOf(f.lines) : l.at = 0
      \/ \E f \in legible : f.part \in Hexes /\ \E l \in RangeOf(f.lines) : l.agent \notin {None, f.part}
      \/ \E f, g \in told : f # g /\ \E i \in Billed(f) : Bills(g, f.lines[i].use.msg) # {}

\* What is stored tells every line of these files.
Tells(row, legible, u) ==
  \A f \in {g \in legible : Transcript(g.part)}, i \in 1..Cap :
    i \in DOMAIN f.lines =>
      LET l == f.lines[i]
      IN  /\ Agent(f, u) \in DOMAIN row.agents
          /\ l.at # 0 => row.agents[Agent(f, u)].from <= l.at /\ l.at <= row.agents[Agent(f, u)].to
          /\ i \in Billed(f) =>
               row.tokens[l.use.msg][1] + row.tokens[l.use.msg][2] >= l.use.flat
          /\ i \in Nameless(f) => row.dropped > 0

TrulyRead(u) ==
  LET legible == Legible(u)
  IN  IF \A f \in legible : ~Transcript(f.part) THEN verdict[u] = "nothing"
      ELSE IF Poisoned(legible, u) THEN verdict[u] = "refused"
      ELSE /\ verdict[u] = "stored"
           /\ stored[u].slug = Winner(u)
           /\ Tells(stored[u], legible, u)
           /\ stored[u].partial = (Len(files[<<Winner(u), u, "main">>]) > Cap
                                    /\ Readable(Winner(u), u, "main"))

\* A session whose files rested since its last reading began is stored as they
\* are, refused because they contradict themselves, or has nothing to read: a
\* file that cannot be read, is too long or has just been created costs its own
\* lines and no others (parseSession, buildSessionSubstrate, partialFor).
ReadTruly ==
  \A u \in fresh : (reading = None \/ reading.session # u) => TrulyRead(u)

StillTold(u) ==
  stored[u] # None =>
    /\ stored'[u] # None
    /\ Merged(stored[u].agents, stored'[u].agents, Wider) = stored'[u].agents
    /\ Merged(stored[u].tokens, stored'[u].tokens, Larger) = stored'[u].tokens
    /\ (growing /\ \A x \in DOMAIN files : x[3] \in Hexes => Len(files[x]) <= Cap)
         => stored'[u].dropped >= stored[u].dropped

\* No reading takes back what an earlier one established, whichever copy it
\* found and whatever it could not read; nor, while no file is copied, hidden
\* or, an agent's, over the cap, does it count fewer lines as left out
\* (upsertSession, upsertAgent).
NothingTakenBack == [][\A u \in Sessions : StillTold(u)]_stored
=============================================================================
