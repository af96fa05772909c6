------------------------------ MODULE ChangeFeed ------------------------------
(* GET /api/changes and the ingest sequence behind it.  A window (since, until]
   is over the instants at which work happened, so what is ingested late falls
   into no later window; the triggers of migration 22 therefore stamp a session
   with the next number of a clock whenever the database learns something new
   about it, and an answer names the sessions stamped past the client's cursor
   that its window does not hold.  The client is the one the schema describes:
   it pages a window, then asks again with since = until and with the cursor it
   was handed.

   Instants are 1..MaxTime.  A session without a readable instant is Undated:
   it is in no window. *)
EXTENDS Naturals, FiniteSets, FiniteSetsExt

CONSTANTS Sessions, Rank,   \* Rank numbers the sessions in the order of their ids
          Limit,            \* the page size, of the window and of the late list
          MaxTime, MaxSeq, MaxRestores

Undated == 0

ASSUME FeedAssumption ==
  /\ Rank \in [Sessions -> Nat]
  /\ \A s, t \in Sessions : Rank[s] = Rank[t] => s = t
  /\ Limit \in Nat \ {0}
  /\ {MaxTime, MaxSeq, MaxRestores} \subseteq Nat

VARIABLES
  at,        \* when each session last changed, by its own records
  seq,       \* sessions.ingest_seq, 0 while the session is not in the database
  clock,     \* ingest_clock.seq
  newest,    \* the newest instant of agents and token_usage
  saved,     \* a backup of the four
  restores,
  client,    \* what the client remembers between two requests
  told       \* history: the sessions the client was named under the stamp they
             \* carry, and those a restore hides from it

vars == <<at, seq, clock, newest, saved, restores, client, told>>

Known == {s \in Sessions : seq[s] > 0}

Init ==
  /\ at = [s \in Sessions |-> Undated]
  /\ seq = [s \in Sessions |-> 0]
  /\ clock = 0 /\ newest = 0
  /\ saved = <<at, seq, clock, newest>>
  /\ restores = 0
  /\ \E since \in 0..MaxTime :
       client = [since |-> since, after |-> 0, chained |-> FALSE,
                 until |-> since, next |-> 0, offset |-> 0, rewound |-> FALSE]
  /\ told = {}

-----------------------------------------------------------------------------
(* The database learns. *)

\* The triggers: the clock moves and the session takes its value.
Stamped(s) ==
  /\ clock' = clock + 1
  /\ seq' = [seq EXCEPT ![s] = clock + 1]

\* The cursor the client asks for the next list with.
Cursor == IF client.offset > 0 THEN client.next ELSE client.after

\* What is stamped after a restore and before the client's next list, at or
\* below the cursor it still holds, is named to nobody: counted as told here.
Hidden(stamp) == client.rewound /\ stamp <= Cursor

\* A pass, a hook or the watchdog inserts or materially changes the session or
\* one of its agents, usage rows or edges.  The last activity only moves
\* forward; agents and usage may be of any instant.  A replay that changes no
\* value fires no trigger and is no step.
Learn(s, t, u) ==
  /\ clock < MaxSeq
  /\ t >= at[s] /\ at' = [at EXCEPT ![s] = t]
  /\ newest' = Max({newest, u})
  /\ Stamped(s)
  /\ told' = IF Hidden(clock + 1) THEN told \cup {s} ELSE told \ {s}
  /\ UNCHANGED <<saved, restores, client>>

\* Retention may take the whole ledger; the sessions and their stamps stay.
Prune ==
  /\ newest > 0 /\ newest' = 0
  /\ UNCHANGED <<at, seq, clock, saved, restores, client, told>>

Backup ==
  /\ restores < MaxRestores /\ saved[3] = 0
  /\ saved' = <<at, seq, clock, newest>>
  /\ UNCHANGED <<at, seq, clock, newest, restores, client, told>>

Restore ==
  /\ restores < MaxRestores
  /\ restores' = restores + 1
  /\ at' = saved[1] /\ seq' = saved[2] /\ clock' = saved[3] /\ newest' = saved[4]
  /\ client' = [client EXCEPT !.rewound = TRUE]
  /\ told' = {s \in Sessions : saved[2][s] \in 1..Cursor}
  /\ UNCHANGED saved

-----------------------------------------------------------------------------
(* One answer: computeChanges, in one read transaction. *)

\* changesBoundary: the newest instant of the three tables, never before since.
ChangesBoundary(since) == Max({since, newest} \cup {at[s] : s \in Known})

\* SESSION_WINDOW, the half-open interval over the session's key.
Window(since, until) == {s \in Known : since < at[s] /\ at[s] <= until}

\* The page of a window: recent first, then by id.
Before(s, t) == at[s] > at[t] \/ (at[s] = at[t] /\ Rank[s] < Rank[t])
Place(window, s) == Cardinality({t \in window : Before(t, s)})
Page(window, offset) ==
  {s \in window : offset <= Place(window, s) /\ Place(window, s) < offset + Limit}

\* lateIngested: stamped past the cursor, and not in this window.
Late(window, after) == {s \in Known : after < seq[s] /\ seq[s] <= clock} \ window
LatePage(late) == {s \in late : Cardinality({t \in late : seq[t] < seq[s]}) < Limit}

\* The list resumes one number too early, a mutant
NextOneEarly(late, after) ==
  IF Cardinality(late) > Limit THEN Max({seq[s] : s \in LatePage(late)}) - 1 ELSE clock

\* The cursor to send next: the last stamp of a capped list, else the clock -
\* also when the client's own was larger, after a restore.
NextCursor(late, after) ==
  IF Cardinality(late) > Limit THEN Max({seq[s] : s \in LatePage(late)}) ELSE clock

-----------------------------------------------------------------------------
(* The client. *)

\* The first request of a window; the very first of all carries no cursor, gets
\* no late list, and is promised only what its window holds.
Ask ==
  /\ client.offset = 0
  /\ LET until == ChangesBoundary(client.since)
         window == Window(client.since, until)
         late == IF client.chained THEN Late(window, client.after) ELSE {}
         next == IF client.chained THEN NextCursor(late, client.after) ELSE clock
         page == Page(window, 0)
         named == page \cup (IF client.chained THEN LatePage(late) ELSE Known \ window)
     IN  /\ told' = told \cup named
         /\ client' =
              IF Cardinality(window) <= Limit
              THEN [client EXCEPT !.since = until, !.after = next, !.chained = TRUE,
                                  !.until = until, !.next = next, !.rewound = FALSE]
              ELSE [client EXCEPT !.until = until, !.next = next, !.offset = Limit,
                                  !.rewound = FALSE]
  /\ UNCHANGED <<at, seq, clock, newest, saved, restores>>

\* The following pages.  Rows moved meanwhile, and so did the boundary; the
\* client goes on from the boundary and the cursor of its first page.
Turn ==
  /\ client.offset > 0
  /\ LET window == Window(client.since, ChangesBoundary(client.since))
         page == Page(window, client.offset)
     IN  /\ told' = told \cup page
         /\ client' =
              IF client.offset + Limit >= Cardinality(window)
              THEN [client EXCEPT !.since = client.until, !.after = client.next,
                                  !.chained = TRUE, !.offset = 0]
              ELSE [client EXCEPT !.offset = @ + Limit]
  /\ UNCHANGED <<at, seq, clock, newest, saved, restores>>

Next ==
  \/ \E s \in Sessions, t, u \in 0..MaxTime : Learn(s, t, u)
  \/ Prune \/ Backup \/ Restore
  \/ Ask \/ Turn

\* A client that chains keeps asking.
Spec == Init /\ [][Next]_vars /\ WF_vars(Ask \/ Turn)

-----------------------------------------------------------------------------
(* Properties. *)

\* Once the database learns nothing more, a client that keeps asking has been
\* told of everything it ever learned since the client's first request, however
\* the lists were capped and whatever clock a restore brought back.
ToldAtLast == []<>(Known \subseteq told)
=============================================================================
