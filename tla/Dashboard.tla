----------------------------- MODULE Dashboard -----------------------------
(***************************************************************************)
(* The page around the views: the token kept in session storage, the entry *)
(* screen that proves it, and the shell that probes the server, follows    *)
(* its event stream and mounts one view that fetches once.                 *)
(*                                                                         *)
(* The page has one thread. An event handler, an effect and the code after *)
(* an await each run whole; what they interleave with is the user, the     *)
(* server at the other end of a request, which may crash and come back     *)
(* into a startup replay with another token, the stream, and a storage     *)
(* that may start refusing, or silently ignoring, what it is asked.        *)
(*                                                                         *)
(* A request is answered by the server at one moment and lands in the page *)
(* at a later one. An aborted request leaves the page at once: the code    *)
(* after its await returns on the aborted signal before anything else.     *)
(***************************************************************************)
EXTENDS Naturals, FiniteSets

CONSTANTS
  Tokens,     \* what may be typed, stored, or asked for by a server
  None,       \* no token, no notice, no answer yet; the empty field
  MaxBoots,   \* bound: starts of the server
  MaxMoves,   \* bound: acts of the user
  MaxTurns,   \* bound: changes of what the storage allows
  MaxFaults   \* bound: answers lost or unreadable, drops of a healthy stream,
              \* streams refused for another reason than their token

ASSUME PageAssumption ==
  /\ Tokens # {}
  /\ None \notin {"refused", "locked", "rejected"} /\ {None, "refused"} \cap Tokens = {}
  /\ {MaxBoots, MaxMoves, MaxTurns, MaxFaults} \subseteq Nat

VARIABLES
  server,   \* its phase, the number of its start, the token it accepts
  store,    \* the session storage: what it holds and what it allows
  session,  \* App's state
  screen,   \* the entry screen's state and its waitRef
  submits,  \* handleSubmit calls that have not returned
  shell,    \* the Shell's state and refs
  probes,   \* health probes of the shell, not aborted
  figures,  \* what the mounted view shows
  reads,    \* reads of the mounted view, not aborted
  heard,    \* history: the starts whose replay this shell was told of
  moves, turns, faults

vars == <<server, store, session, screen, submits, shell, probes, figures, reads,
          heard, moves, turns, faults>>

page == <<session, screen, submits, shell, probes, figures, reads, heard>>

-----------------------------------------------------------------------------
(* Session storage *)

\* readToken: a token, None for an empty slot, or a refusal.
ReadToken(st) == IF st.reads THEN st.held ELSE "refused"

\* storeToken: the write, then a read back unless the write threw.
StoreToken(st, token) ==
  LET after == [st EXCEPT !.held = IF st.writes = "works" THEN token ELSE @]
  IN [store |-> after,
      outcome |-> IF st.writes # "throws" /\ ReadToken(after) \in Tokens
                  THEN "persisted" ELSE "refused"]

\* A storage that refuses to delete never stored: a mutant.
TrustedClear(st) ==
  [store |-> [st EXCEPT !.held = IF st.removes THEN None ELSE @], outcome |-> "persisted"]

\* clearToken: delete, overwrite if the slot does not read as empty, read back.
ClearToken(st) ==
  LET removed == [st EXCEPT !.held = IF st.removes THEN None ELSE @]
      blanked == [removed EXCEPT !.held = IF st.writes = "works" THEN None ELSE @]
      after   == IF ReadToken(removed) = None THEN removed ELSE blanked
  IN [store |-> after,
      outcome |-> IF ReadToken(after) = None THEN "persisted" ELSE "refused"]

-----------------------------------------------------------------------------
(* Mounting and unmounting *)

NoScreen == [field |-> None, busy |-> FALSE, failed |-> FALSE, replaying |-> FALSE,
             wait |-> 0]

NoShell == [health |-> "checking", stream |-> "connecting", opened |-> FALSE,
            replaying |-> FALSE, timer |-> FALSE]

Request(token) == [token |-> token, answer |-> None]

\* A superseded request still lands: a mutant.
StillLanding(reqs) == reqs

\* What survives an effect's cleanup of the requests it started.
Superseded(reqs) == {}

\* What a view shows that has no figures.
Showing(kind) == [kind |-> kind, boot |-> 0]

EntryScreen ==
  /\ screen' = NoScreen
  /\ submits' = {}
  /\ shell' = NoShell
  /\ probes' = Superseded(probes)
  /\ reads' = Superseded(reads)
  /\ figures' = Showing("none")
  /\ heard' = {}

\* The first probe and the first read of the view leave with the mount.
MountedShell(token) ==
  /\ screen' = NoScreen
  /\ submits' = {}
  /\ shell' = NoShell
  /\ probes' = probes \cup {Request(token)}
  /\ reads' = reads \cup {Request(token)}
  /\ figures' = Showing("loading")
  /\ heard' = {}

\* endSession, by Lock or by a 401.
EndSession(why) ==
  LET cleared == ClearToken(store)
  IN /\ store' = cleared.store
     /\ session' = [session EXCEPT !.token = None, !.notice = why,
                                   !.notErased = (cleared.outcome = "refused")]
     /\ EntryScreen

HandleSuccess(token) ==
  LET stored == StoreToken(store, token)
  IN /\ store' = stored.store
     /\ session' = [token |-> token, notice |-> None,
                    notRemembered |-> stored.outcome = "refused", notErased |-> FALSE]
     /\ MountedShell(token)

\* App's state initialiser, on a load of the page.
Loaded(st) ==
  [token |-> IF ReadToken(st) \in Tokens THEN ReadToken(st) ELSE None,
   notice |-> None, notRemembered |-> ReadToken(st) = "refused", notErased |-> FALSE]

-----------------------------------------------------------------------------
(* The server, as the page meets it *)

Crash ==
  /\ server.phase # "down"
  /\ server.boot < MaxBoots
  /\ server' = [server EXCEPT !.phase = "down"]
  /\ UNCHANGED <<page, store, moves, turns, faults>>

\* It listens before its startup replay; its token may have been changed.
Boot ==
  /\ server.phase = "down"
  /\ \E token \in Tokens :
       server' = [phase |-> "replaying", boot |-> server.boot + 1, accepts |-> token]
  /\ UNCHANGED <<page, store, moves, turns, faults>>

Drained ==
  /\ server.phase = "replaying"
  /\ server' = [server EXCEPT !.phase = "ok"]
  /\ UNCHANGED <<page, store, moves, turns, faults>>

Failed == [kind |-> "unreachable", boot |-> 0]

\* What a request is answered: checkHealth's verdict, and for a read whether
\* the corpus was still being replayed under it.
Verdict(token) ==
  IF server.phase = "down" THEN Failed
  ELSE [kind |-> IF token = server.accepts THEN server.phase ELSE "unauthorized",
        boot |-> server.boot]

Answered(reqs, r, answer) == (reqs \ {r}) \cup {[r EXCEPT !.answer = answer]}

\* One outstanding request gets its answer, or loses it to a fault.
Answer ==
  /\ \E answer \in {"verdict", "fault"} :
       LET Got(token) == IF answer = "fault" THEN Failed ELSE Verdict(token)
       IN /\ answer = "fault" => faults < MaxFaults
          /\ faults' = IF answer = "fault" THEN faults + 1 ELSE faults
          /\ \/ \E r \in {q \in probes : q.answer = None} :
                  /\ probes' = Answered(probes, r, Got(r.token))
                  /\ UNCHANGED <<reads, submits>>
             \/ \E r \in {q \in reads : q.answer = None} :
                  /\ reads' = Answered(reads, r, Got(r.token))
                  /\ UNCHANGED <<probes, submits>>
             \/ \E r \in {q \in submits : q.asking /\ q.answer = None} :
                  /\ submits' = Answered(submits, r, Got(r.token))
                  /\ UNCHANGED <<probes, reads>>
  /\ UNCHANGED <<server, store, session, screen, shell, figures, heard, moves, turns>>

-----------------------------------------------------------------------------
(* The entry screen *)

\* Submit: nothing while busy; an empty field is answered without a request.
Submit ==
  /\ session.token = None
  /\ ~screen.busy
  /\ moves < MaxMoves
  /\ moves' = moves + 1
  /\ IF screen.field = None
     THEN /\ screen' = [screen EXCEPT !.failed = TRUE]
          /\ UNCHANGED submits
     ELSE /\ screen' = [screen EXCEPT !.busy = TRUE, !.failed = FALSE]
          /\ submits' = submits \cup
               {[token |-> screen.field, wait |-> screen.wait, asking |-> TRUE,
                 answer |-> None]}
  /\ UNCHANGED <<server, store, session, shell, probes, figures, reads, heard, turns,
                 faults>>

\* onChange: it withdraws the verdict, and abandons a wait that is shown.
Edit(value) ==
  /\ session.token = None
  /\ value # screen.field
  /\ moves < MaxMoves
  /\ moves' = moves + 1
  /\ IF screen.replaying
     THEN /\ screen' = [screen EXCEPT !.field = value, !.failed = FALSE, !.busy = FALSE,
                                      !.replaying = FALSE, !.wait = @ + 1]
          /\ submits' = {c \in submits : c.asking}
     ELSE /\ screen' = [screen EXCEPT !.field = value, !.failed = FALSE]
          /\ UNCHANGED submits
  /\ UNCHANGED <<server, store, session, shell, probes, figures, reads, heard, turns,
                 faults>>

Abandoned(c) == c.wait # screen.wait

\* The wait starts for whatever was submitted: a mutant.
WaitRegardless(c) == TRUE

\* The check before a wait is shown: the field still holds what was asked.
StillAsked(c) == screen.field = c.token

\* The code after the await of checkHealth in handleSubmit.
SubmitLands(c) ==
  /\ c.answer # None
  /\ UNCHANGED <<server, moves, turns, faults>>
  /\ \/ /\ Abandoned(c)
        /\ submits' = submits \ {c}
        /\ UNCHANGED <<store, session, screen, shell, probes, figures, reads, heard>>
     \/ /\ ~Abandoned(c) /\ c.answer.kind = "replaying"
        /\ IF StillAsked(c)
           THEN /\ screen' = [screen EXCEPT !.replaying = TRUE]
                /\ submits' = (submits \ {c}) \cup
                     {[c EXCEPT !.asking = FALSE, !.answer = None]}
           ELSE /\ screen' = [screen EXCEPT !.busy = FALSE]
                /\ submits' = submits \ {c}
        /\ UNCHANGED <<store, session, shell, probes, figures, reads, heard>>
     \/ /\ ~Abandoned(c) /\ c.answer.kind = "ok"
        /\ HandleSuccess(c.token)
     \/ /\ ~Abandoned(c) /\ c.answer.kind \in {"unauthorized", "unreachable"}
        /\ screen' = [screen EXCEPT !.replaying = FALSE, !.busy = FALSE, !.failed = TRUE]
        /\ submits' = submits \ {c}
        /\ UNCHANGED <<store, session, shell, probes, figures, reads, heard>>

\* The poll interval of a wait is over: the server is asked again.
SubmitWakes(c) ==
  /\ ~c.asking
  /\ submits' = (submits \ {c}) \cup {[c EXCEPT !.asking = TRUE]}
  /\ UNCHANGED <<server, store, session, screen, shell, probes, figures, reads, heard,
                 moves, turns, faults>>

-----------------------------------------------------------------------------
(* The shell: probe, stream, chip *)

\* The probe effect runs again: its timer is cleared, its request superseded.
Reprobed(sh) ==
  /\ shell' = [sh EXCEPT !.timer = FALSE]
  /\ probes' = Superseded(probes) \cup {Request(session.token)}

\* Nobody asks again after a failed check: a mutant.
AskedNoMore(kind) ==
  LET waits == kind = "replaying" \/ (kind = "unreachable" /\ shell.replaying)
  IN [shell EXCEPT !.health = IF waits THEN "replaying" ELSE kind,
                   !.replaying = waits, !.timer = (kind = "replaying")]

\* The health state after an answer: a failed check during a replay leaves it
\* standing, with the next check scheduled.
HealthAfter(kind) ==
  LET waits == kind = "replaying" \/ (kind = "unreachable" /\ shell.replaying)
  IN [shell EXCEPT !.health = IF waits THEN "replaying" ELSE kind,
                   !.replaying = waits, !.timer = waits]

\* `ok` after `replaying` moves the epoch: the view reads again, and keeps
\* what it shows until the new answer lands.
ReplayEnded(kind) == kind = "ok" /\ shell.replaying

ProbeLands(r) ==
  /\ r.answer # None
  /\ \/ /\ r.answer.kind = "unauthorized"
        /\ EndSession("rejected")
     \/ /\ r.answer.kind # "unauthorized"
        /\ shell' = HealthAfter(r.answer.kind)
        /\ probes' = probes \ {r}
        /\ reads' = IF ReplayEnded(r.answer.kind)
                    THEN Superseded(reads) \cup {Request(session.token)} ELSE reads
        /\ heard' = IF r.answer.kind = "replaying" THEN heard \cup {r.answer.boot} ELSE heard
        /\ UNCHANGED <<store, session, screen, submits, figures>>
  /\ UNCHANGED <<server, moves, turns, faults>>

\* The re-probe of a replaying server.
TimerFires ==
  /\ shell.timer
  /\ Reprobed(shell)
  /\ UNCHANGED <<server, store, session, screen, submits, figures, reads, heard, moves,
                 turns, faults>>

\* The button offered beside an unreachable server.
Recheck ==
  /\ shell.health = "unreachable"
  /\ moves < MaxMoves
  /\ moves' = moves + 1
  /\ Reprobed([shell EXCEPT !.health = "checking"])
  /\ UNCHANGED <<server, store, session, screen, submits, figures, reads, heard, turns,
                 faults>>

\* A stream that comes back asks health again; the first open does not.
StreamOpens ==
  /\ session.token # None
  /\ shell.stream \in {"connecting", "reconnecting"}
  /\ server.phase # "down" /\ server.accepts = session.token
  /\ LET open == [shell EXCEPT !.stream = "open", !.opened = TRUE]
     IN IF shell.opened THEN Reprobed(open) ELSE shell' = open /\ UNCHANGED probes
  /\ UNCHANGED <<server, store, session, screen, submits, figures, reads, heard, moves,
                 turns, faults>>

\* A failure EventSource retries by itself; how many there were is wording.
StreamFails ==
  /\ session.token # None
  /\ shell.stream # "closed"
  /\ server.phase # "down" => faults < MaxFaults
  /\ faults' = IF server.phase # "down" THEN faults + 1 ELSE faults
  /\ shell' = [shell EXCEPT !.stream = "reconnecting"]
  /\ UNCHANGED <<server, store, session, screen, submits, probes, figures, reads, heard,
                 moves, turns>>

TokenRefused == server.phase # "down" /\ server.accepts # session.token

\* A connection attempt answered by anything but 200: the 401 of a changed token,
\* or a fault, the refusal of an origin or what a proxy says of a server it
\* cannot reach.
StreamFatal ==
  /\ session.token # None
  /\ shell.stream \in {"connecting", "reconnecting"}
  /\ \/ TokenRefused /\ UNCHANGED faults
     \/ faults < MaxFaults /\ faults' = faults + 1
  /\ shell' = [shell EXCEPT !.stream = "closed"]
  /\ UNCHANGED <<server, store, session, screen, submits, probes, figures, reads, heard,
                 moves, turns>>

Chip(word, closed) == [word |-> word, closed |-> closed]

\* chipFor: its word, and whether it says that the stream will not come back.
ChipFor(sh) ==
  CASE sh.stream = "open" -> Chip("live", FALSE)
    [] sh.stream # "open" /\ sh.health = "unreachable" ->
         Chip("unreachable", sh.stream = "closed")
    [] sh.stream = "closed" /\ sh.health # "unreachable" -> Chip("stream closed", TRUE)
    [] sh.stream \in {"connecting", "reconnecting"} /\ sh.health = "checking" ->
         Chip("checking", FALSE)
    [] OTHER -> Chip(IF sh.opened THEN sh.stream ELSE "connecting", FALSE)

-----------------------------------------------------------------------------
(* A view that fetches once: cost, DAG, the list of sessions *)

ReadLands(r) ==
  /\ r.answer # None
  /\ \/ /\ r.answer.kind = "unauthorized"
        /\ EndSession("rejected")
     \/ /\ r.answer.kind # "unauthorized"
        /\ figures' = IF r.answer.kind = "unreachable" THEN Showing("error") ELSE r.answer
        /\ reads' = reads \ {r}
        /\ UNCHANGED <<store, session, screen, submits, shell, probes, heard>>
  /\ UNCHANGED <<server, moves, turns, faults>>

\* Navigation mounts another view; Refresh and Retry read again under it.
ViewReads ==
  /\ session.token # None
  /\ moves < MaxMoves
  /\ moves' = moves + 1
  /\ figures' \in {Showing("loading"), figures}
  /\ reads' = Superseded(reads) \cup {Request(session.token)}
  /\ UNCHANGED <<server, store, session, screen, submits, shell, probes, heard, turns,
                 faults>>

-----------------------------------------------------------------------------
(* The rest of what the user and the browser do *)

Lock ==
  /\ session.token # None
  /\ moves < MaxMoves
  /\ moves' = moves + 1
  /\ EndSession("locked")
  /\ UNCHANGED <<server, turns, faults>>

\* The page is loaded again: everything but the storage starts over.
Reload ==
  /\ moves < MaxMoves
  /\ moves' = moves + 1
  /\ session' = Loaded(store)
  /\ screen' = NoScreen
  /\ submits' = {}
  /\ shell' = NoShell
  /\ heard' = {}
  /\ LET sent == IF session'.token = None THEN {} ELSE {Request(session'.token)}
     IN probes' = sent /\ reads' = sent
  /\ figures' = Showing(IF session'.token = None THEN "none" ELSE "loading")
  /\ UNCHANGED <<server, store, turns, faults>>

\* A setting, a quota or an extension changes what the storage allows.
StoreTurns ==
  /\ turns < MaxTurns
  /\ turns' = turns + 1
  /\ \E r \in BOOLEAN, d \in BOOLEAN, w \in {"works", "ignores", "throws"} :
       store' = [store EXCEPT !.reads = r, !.removes = d, !.writes = w]
  /\ UNCHANGED <<page, server, moves, faults>>

-----------------------------------------------------------------------------

\* Tokens differ in nothing but their names: the first start has any one.
First == CHOOSE token \in Tokens : TRUE

Init ==
  /\ server \in [phase : {"replaying", "ok"}, boot : {1}, accepts : {First}]
  /\ store = [held |-> None, reads |-> TRUE, removes |-> TRUE, writes |-> "works"]
  /\ session = Loaded(store)
  /\ screen = NoScreen
  /\ submits = {}
  /\ shell = NoShell
  /\ probes = {}
  /\ reads = {}
  /\ figures = Showing("none")
  /\ heard = {}
  /\ moves = 0
  /\ turns = 0
  /\ faults = 0

PageSteps ==
  \/ \E c \in submits : SubmitLands(c) \/ SubmitWakes(c)
  \/ \E r \in probes : ProbeLands(r)
  \/ \E r \in reads : ReadLands(r)
  \/ TimerFires

Next ==
  \/ Crash
  \/ Boot
  \/ Drained
  \/ Answer
  \/ PageSteps
  \/ Submit
  \/ \E value \in Tokens \cup {None} : Edit(value)
  \/ Recheck
  \/ StreamOpens
  \/ StreamFails
  \/ StreamFatal
  \/ ViewReads
  \/ Lock
  \/ Reload
  \/ StoreTurns

\* A server that is down is started again, a replay ends, every request is
\* answered or fails, and the page's own continuations and timers run.
Spec ==
  /\ Init /\ [][Next]_vars
  /\ WF_vars(Boot) /\ WF_vars(Drained) /\ WF_vars(Answer) /\ WF_vars(PageSteps)

-----------------------------------------------------------------------------
(* Properties *)

Verdicts == [kind : {"ok", "replaying", "unauthorized", "unreachable"}, boot : Nat]
Requests == [token : Tokens, answer : Verdicts \cup {None}]
Calls == [token : Tokens, wait : Nat, asking : BOOLEAN, answer : Verdicts \cup {None}]
Stores == [held : Tokens \cup {None}, reads : BOOLEAN, removes : BOOLEAN,
           writes : {"works", "ignores", "throws"}]
Sessions == [token : Tokens \cup {None}, notice : {None, "locked", "rejected"},
             notRemembered : BOOLEAN, notErased : BOOLEAN]
Screens == [field : Tokens \cup {None}, busy : BOOLEAN, failed : BOOLEAN,
            replaying : BOOLEAN, wait : Nat]
Shells == [health : {"checking", "ok", "replaying", "unreachable"},
           stream : {"connecting", "open", "reconnecting", "closed"},
           opened : BOOLEAN, replaying : BOOLEAN, timer : BOOLEAN]
Figures == [kind : {"none", "loading", "error", "ok", "replaying"}, boot : Nat]

TypeOK ==
  /\ server \in [phase : {"down", "replaying", "ok"}, boot : Nat, accepts : Tokens]
  /\ store \in Stores /\ session \in Sessions
  /\ screen \in Screens /\ submits \subseteq Calls
  /\ shell \in Shells /\ probes \subseteq Requests
  /\ figures \in Figures /\ reads \subseteq Requests
  /\ heard \subseteq Nat
  /\ {moves, turns, faults} \subseteq Nat

\* Once a session was ended on this page, a token that is still in the storage
\* is announced on the entry screen, whatever the storage refused, ignored or
\* started to refuse in between.
EraseTold ==
  session.token = None /\ session.notice # None /\ store.held # None =>
    session.notErased

\* Nobody is put out of a session by an answer to an earlier one: the notice
\* of a rejected token follows a 401 to a request that carried this token.
EndedForCause ==
  [][ session.token # None /\ session'.notice = "rejected" =>
        \E r \in probes \cup reads :
          /\ r.token = session.token
          /\ r.answer # None /\ r.answer.kind = "unauthorized" ]_vars

\* A wait that is shown is a wait for what the field holds; the entry screen is
\* busy exactly while a call of handleSubmit can still change it, and there is
\* never a second one, whatever was edited while a check was in flight.
WaitForField ==
  LET live == {c \in submits : ~Abandoned(c)}
  IN /\ \A c, d \in live : c = d
     /\ session.token = None => (screen.busy <=> live # {})
     /\ screen.replaying => \A c \in live : c.token = screen.field

\* Whatever the probes answer and in whatever order, an unfinished replay and
\* a stream that will not come back stay on screen.
NothingHidden ==
  session.token # None =>
    /\ ChipFor(shell).closed <=> shell.stream = "closed"
    /\ ChipFor(shell).word = "reconnecting" => shell.opened
    /\ (shell.health # "replaying" /\ figures.kind = "replaying" /\ figures.boot \in heard) =>
         reads # {}

\* The three together: what the page shows of a wait, a replay, the stream and
\* a token that was to be erased is so.
ScreenTruthful == WaitForField /\ NothingHidden /\ EraseTold

\* A wait for a replay ends: the entry screen lets go of the field and the
\* shell takes its notice down.
WaitEnds ==
  (screen.replaying \/ shell.health = "replaying") ~>
    ~(screen.replaying \/ shell.health = "replaying")
=============================================================================
