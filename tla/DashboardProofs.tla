-------------------------- MODULE DashboardProofs --------------------------
(***************************************************************************)
(* Proofs about Dashboard, for any tokens and any bounds.  The argument is *)
(* in layers, each inductive given those before it: the types; which       *)
(* requests belong to which page (Pages); what the storage was last told   *)
(* (EraseTold); which call of handleSubmit is live (Waits); and which      *)
(* replays are over at the server when the page stops speaking of them     *)
(* (Replays).                                                              *)
(***************************************************************************)
EXTENDS Dashboard, TLAPS

\* A request and a call belong to the page that is mounted, and ask for its
\* token; what a screen that is not mounted keeps is nothing.
Pages ==
  /\ session.token = None => probes = {} /\ reads = {} /\ shell = NoShell
  /\ session.token # None => submits = {} /\ ~screen.busy /\ ~screen.replaying
  /\ \A r \in probes \cup reads : r.token = session.token

\* The steps, in groups that change the same part of the state.
ServerMoves == Crash \/ Boot \/ Drained
ShellMoves == TimerFires \/ Recheck \/ StreamOpens \/ StreamFails \/ StreamFatal
ScreenMoves ==
  \/ Submit
  \/ \E value \in Tokens \cup {None} : Edit(value)
  \/ \E c \in submits : SubmitWakes(c)

-----------------------------------------------------------------------------
(* Storage *)

\* storeToken and clearToken change what is held and nothing else; a slot that
\* clearToken leaves filled is reported.
LEMMA Storing ==
  ASSUME TypeOK, NEW token \in Tokens
  PROVE  StoreToken(store, token).store \in Stores
BY DEF TypeOK, StoreToken, Stores

LEMMA Clearing ==
  ASSUME TypeOK
  PROVE  /\ ClearToken(store).store \in Stores
         /\ ClearToken(store).store.held # None => ClearToken(store).outcome = "refused"
BY PageAssumption DEF TypeOK, ClearToken, ReadToken, Stores

-----------------------------------------------------------------------------
(* Types *)

LEMMA Judging ==
  ASSUME TypeOK, NEW kind \in {"ok", "replaying", "unreachable"}
  PROVE  HealthAfter(kind) \in Shells
BY DEF TypeOK, HealthAfter, Shells

LEMMA EndTyped ==
  ASSUME TypeOK, NEW why \in {"locked", "rejected"}, EndSession(why),
         UNCHANGED <<server, turns, faults>>, moves' \in Nat
  PROVE  TypeOK' /\ Pages'
<1>1. store' \in Stores
  BY Clearing DEF EndSession
<1>2. session' \in Sessions
      /\ session'.token = None
  BY DEF EndSession, TypeOK, Sessions
<1> QED
  BY <1>1, <1>2, PageAssumption
     DEF EndSession, EntryScreen, TypeOK, Pages, NoScreen, NoShell, Showing, Superseded, Screens, Shells,
         Figures

LEMMA SuccessTyped ==
  ASSUME TypeOK, Pages, NEW token \in Tokens, session.token = None, HandleSuccess(token),
         UNCHANGED <<server, moves, turns, faults>>
  PROVE  TypeOK' /\ Pages'
<1>1. store' \in Stores
  BY Storing DEF HandleSuccess
<1>2. session' \in Sessions
      /\ session'.token = token
  BY DEF HandleSuccess, TypeOK, Sessions
<1>3. probes' = {Request(token)} /\ reads' = {Request(token)}
  BY DEF HandleSuccess, MountedShell, Pages
<1>4. Request(token) \in Requests /\ Request(token).token = token
  BY DEF Request, Requests
<1> QED
  BY <1>1, <1>2, <1>3, <1>4, PageAssumption
     DEF HandleSuccess, MountedShell, TypeOK, Pages, NoScreen, NoShell, Showing, Screens,
         Shells, Figures

Typed == TypeOK /\ Pages

\* The answer of a request is a verdict, and a request stays its page's.
LEMMA AnswerTyped ==
  ASSUME Typed, Answer
  PROVE  Typed'
<1>1. \A token : Verdict(token) \in Verdicts
  BY DEF Verdict, Failed, Verdicts, Typed, TypeOK
<1>2. Failed \in Verdicts
  BY DEF Failed, Verdicts
<1>3. PICK answer \in {"verdict", "fault"} :
        LET Got(token) == IF answer = "fault" THEN Failed ELSE Verdict(token)
        IN /\ faults' = IF answer = "fault" THEN faults + 1 ELSE faults
           /\ \/ \E r \in {q \in probes : q.answer = None} :
                   /\ probes' = Answered(probes, r, Got(r.token))
                   /\ UNCHANGED <<reads, submits>>
              \/ \E r \in {q \in reads : q.answer = None} :
                   /\ reads' = Answered(reads, r, Got(r.token))
                   /\ UNCHANGED <<probes, submits>>
              \/ \E r \in {q \in submits : q.asking /\ q.answer = None} :
                   /\ submits' = Answered(submits, r, Got(r.token))
                   /\ UNCHANGED <<probes, reads>>
  BY DEF Answer
<1> DEFINE Got(token) == IF answer = "fault" THEN Failed ELSE Verdict(token)
<1>4. \A token : Got(token) \in Verdicts
  BY <1>1, <1>2
<1> HIDE DEF Got
<1>5. faults' \in Nat
  BY <1>3 DEF Typed, TypeOK
<1>6. UNCHANGED <<server, store, session, screen, shell, figures, heard, moves, turns>>
  BY DEF Answer
<1>7. CASE \E r \in probes : /\ probes' = Answered(probes, r, Got(r.token))
                             /\ UNCHANGED <<reads, submits>>
  <2>1. PICK r \in probes : /\ probes' = Answered(probes, r, Got(r.token))
                            /\ UNCHANGED <<reads, submits>>
    BY <1>7
  <2>2. /\ [r EXCEPT !.answer = Got(r.token)] \in Requests
        /\ [r EXCEPT !.answer = Got(r.token)].token = r.token
    BY <1>4 DEF Typed, TypeOK, Requests
  <2>3. TypeOK'
    BY <1>5, <1>6, <2>1, <2>2 DEF Typed, TypeOK, Answered
  <2>4. Pages'
    BY <1>6, <2>1, <2>2 DEF Typed, Pages, Answered
  <2> QED BY <2>3, <2>4 DEF Typed
<1>8. CASE \E r \in reads : /\ reads' = Answered(reads, r, Got(r.token))
                            /\ UNCHANGED <<probes, submits>>
  <2>1. PICK r \in reads : /\ reads' = Answered(reads, r, Got(r.token))
                           /\ UNCHANGED <<probes, submits>>
    BY <1>8
  <2>2. /\ [r EXCEPT !.answer = Got(r.token)] \in Requests
        /\ [r EXCEPT !.answer = Got(r.token)].token = r.token
    BY <1>4 DEF Typed, TypeOK, Requests
  <2>3. TypeOK'
    BY <1>5, <1>6, <2>1, <2>2 DEF Typed, TypeOK, Answered
  <2>4. Pages'
    BY <1>6, <2>1, <2>2 DEF Typed, Pages, Answered
  <2> QED BY <2>3, <2>4 DEF Typed
<1>9. CASE \E r \in submits : /\ submits' = Answered(submits, r, Got(r.token))
                              /\ UNCHANGED <<probes, reads>>
  <2>1. PICK r \in submits : /\ submits' = Answered(submits, r, Got(r.token))
                             /\ UNCHANGED <<probes, reads>>
    BY <1>9
  <2>2. [r EXCEPT !.answer = Got(r.token)] \in Calls
    BY <1>4 DEF Typed, TypeOK, Calls
  <2> QED BY <1>5, <1>6, <2>1, <2>2 DEF Typed, TypeOK, Pages, Answered
<1> QED BY <1>3, <1>7, <1>8, <1>9 DEF Got

LEMMA SubmitTyped ==
  ASSUME Typed, NEW c \in submits, SubmitLands(c)
  PROVE  Typed'
<1> USE DEF Typed
<1>0. /\ session.token = None /\ c.token \in Tokens
      /\ UNCHANGED <<server, moves, turns, faults>>
  BY DEF SubmitLands, Pages, TypeOK, Calls
<1>1. CASE UNCHANGED <<store, session, shell, probes, figures, reads, heard>>
  <2>1. ~HandleSuccess(c.token)
    BY <1>0, <1>1, PageAssumption DEF HandleSuccess
  <2>0. screen' \in {screen, [screen EXCEPT !.replaying = TRUE], [screen EXCEPT !.busy = FALSE],
                     [screen EXCEPT !.replaying = FALSE, !.busy = FALSE, !.failed = TRUE]}
    BY <2>1, Zenon DEF SubmitLands
  <2>2. screen' \in Screens
    BY <2>0 DEF TypeOK, Screens
  <2>3. \/ submits' = submits \ {c}
        \/ submits' = (submits \ {c}) \cup {[c EXCEPT !.asking = FALSE, !.answer = None]}
    BY <2>1, Zenon DEF SubmitLands
  <2>4. c \in Calls
    BY DEF TypeOK
  <2>6. [c EXCEPT !.asking = FALSE, !.answer = None] \in Calls
    BY <2>4 DEF Calls
  <2>5. submits' \subseteq Calls
    BY <2>3, <2>6 DEF TypeOK
  <2> QED BY <1>0, <1>1, <2>2, <2>5 DEF TypeOK, Pages
<1>2. CASE HandleSuccess(c.token)
  BY <1>0, <1>2, SuccessTyped
<1> QED BY <1>1, <1>2 DEF SubmitLands

LEMMA ProbeTyped ==
  ASSUME Typed, NEW r \in probes, ProbeLands(r)
  PROVE  Typed'
<1> USE DEF Typed
<1>1. CASE EndSession("rejected")
  BY <1>1, EndTyped DEF ProbeLands, TypeOK
<1>2. CASE ~EndSession("rejected")
  <2>1. /\ r.answer \in Verdicts /\ r.answer.kind \in {"ok", "replaying", "unreachable"}
        /\ session.token \in Tokens
    BY <1>2 DEF ProbeLands, TypeOK, Requests, Verdicts, Pages
  <2>2. /\ shell' = HealthAfter(r.answer.kind) /\ probes' = probes \ {r}
        /\ reads' \in {reads, Superseded(reads) \cup {Request(session.token)}}
        /\ heard' \in {heard, heard \cup {r.answer.boot}}
        /\ UNCHANGED <<store, session, screen, submits, figures, server, moves, turns, faults>>
    BY <1>2 DEF ProbeLands
  <2>3. /\ Request(session.token) \in Requests
        /\ Request(session.token).token = session.token
    BY <2>1 DEF Request, Requests
  <2>4. heard' \subseteq Nat
    BY <2>1, <2>2 DEF Verdicts, TypeOK
  <2>5. shell' \in Shells
    BY <2>1, <2>2, Judging
  <2> QED BY <2>1, <2>2, <2>3, <2>4, <2>5, PageAssumption DEF TypeOK, Pages, Superseded
<1> QED BY <1>1, <1>2

LEMMA ReadTyped ==
  ASSUME Typed, NEW r \in reads, ReadLands(r)
  PROVE  Typed'
<1> USE DEF Typed
<1>1. CASE EndSession("rejected")
  BY <1>1, EndTyped DEF ReadLands, TypeOK
<1>2. CASE ~EndSession("rejected")
  <2>1. /\ r.answer \in Verdicts /\ r.answer.kind \in {"ok", "replaying", "unreachable"}
    BY <1>2 DEF ReadLands, TypeOK, Requests, Verdicts
  <2>2. figures' \in Figures
    BY <1>2, <2>1 DEF ReadLands, Showing, Verdicts, Figures
  <2>3. /\ reads' = reads \ {r}
        /\ UNCHANGED <<store, session, screen, submits, shell, probes, heard, server, moves,
                       turns, faults>>
    BY <1>2 DEF ReadLands
  <2> QED BY <2>2, <2>3 DEF TypeOK, Pages
<1> QED BY <1>1, <1>2

LEMMA ShellTyped ==
  ASSUME Typed, ShellMoves
  PROVE  Typed'
<1> USE DEF Typed
<1>1. /\ UNCHANGED <<server, store, session, screen, submits, figures, reads, heard, turns>>
      /\ moves' \in Nat /\ faults' \in Nat
  BY DEF ShellMoves, TimerFires, Recheck, StreamOpens, StreamFails, StreamFatal, TypeOK
<1>2. shell' \in Shells
  <2>1. ASSUME NEW sh \in Shells, Reprobed(sh) PROVE shell' \in Shells
    BY <2>1 DEF Reprobed, Shells
  <2>2. shell \in Shells
    BY DEF TypeOK
  <2>3. /\ [shell EXCEPT !.health = "checking"] \in Shells
        /\ [shell EXCEPT !.stream = "reconnecting"] \in Shells
        /\ [shell EXCEPT !.stream = "closed"] \in Shells
    BY <2>2 DEF Shells
  <2>4. [shell EXCEPT !.stream = "open", !.opened = TRUE] \in Shells
    BY <2>2 DEF Shells
  <2>5. \/ shell' \in {[shell EXCEPT !.stream = "reconnecting"], [shell EXCEPT !.stream = "closed"],
                       [shell EXCEPT !.stream = "open", !.opened = TRUE]}
        \/ Reprobed(shell)
        \/ Reprobed([shell EXCEPT !.health = "checking"])
        \/ Reprobed([shell EXCEPT !.stream = "open", !.opened = TRUE])
    BY Zenon DEF ShellMoves, TimerFires, Recheck, StreamOpens, StreamFails, StreamFatal
  <2> QED BY <2>1, <2>2, <2>3, <2>4, <2>5
<1>0. session.token # None
  <2>1. shell # NoShell \/ session.token # None
    BY DEF ShellMoves, TimerFires, Recheck, StreamOpens, StreamFails, StreamFatal, NoShell
  <2> QED BY <2>1 DEF Pages
<1>3. /\ session.token \in Tokens
      /\ \/ probes' = probes
         \/ probes' = {Request(session.token)}
  <2>1. session.token \in Tokens
    BY <1>0 DEF TypeOK, Sessions
  <2>2. ASSUME NEW sh, Reprobed(sh) PROVE probes' = {Request(session.token)}
    BY <2>2 DEF Reprobed, Superseded
  <2>3. \/ probes' = probes
        \/ Reprobed(shell)
        \/ Reprobed([shell EXCEPT !.health = "checking"])
        \/ Reprobed([shell EXCEPT !.stream = "open", !.opened = TRUE])
    BY Zenon DEF ShellMoves, TimerFires, Recheck, StreamOpens, StreamFails, StreamFatal
  <2> QED BY <2>1, <2>2, <2>3
<1>4. /\ Request(session.token) \in Requests
      /\ Request(session.token).token = session.token
  BY <1>3 DEF Request, Requests
<1> QED BY <1>0, <1>1, <1>2, <1>3, <1>4 DEF TypeOK, Pages

LEMMA ScreenTyped ==
  ASSUME Typed, ScreenMoves
  PROVE  Typed'
<1> USE DEF Typed
<1>1. /\ UNCHANGED <<server, store, session, shell, probes, figures, reads, heard, turns, faults>>
      /\ moves' \in Nat
  <2>1. moves' \in {moves, moves + 1}
    BY DEF ScreenMoves, Submit, Edit, SubmitWakes
  <2>2. UNCHANGED <<server, store, session, shell, probes, figures, reads, heard, turns, faults>>
    BY DEF ScreenMoves, Submit, Edit, SubmitWakes
  <2> QED BY <2>1, <2>2 DEF TypeOK
<1>2. CASE Submit
  <2>1. session.token = None
    BY <1>2 DEF Submit
  <2>2. /\ screen' \in {[screen EXCEPT !.failed = TRUE],
                        [screen EXCEPT !.busy = TRUE, !.failed = FALSE]}
        /\ submits' = submits \/ /\ screen.field # None
                                 /\ submits' = submits \cup
                                      {[token |-> screen.field, wait |-> screen.wait,
                                        asking |-> TRUE, answer |-> None]}
    <3>1. CASE screen.field = None
      BY <1>2, <3>1 DEF Submit
    <3>2. CASE screen.field # None
      BY <1>2, <3>2 DEF Submit
    <3> QED BY <3>1, <3>2
  <2>3. screen' \in Screens
    BY <2>2 DEF TypeOK, Screens
  <2>4. submits' \subseteq Calls
    <3>1. /\ screen.field \in Tokens \cup {None} /\ screen.wait \in Nat
          /\ submits \subseteq Calls
      BY DEF TypeOK, Screens
    <3>2. screen.field # None =>
            [token |-> screen.field, wait |-> screen.wait, asking |-> TRUE, answer |-> None]
              \in Calls
      BY <3>1 DEF Calls
    <3> QED BY <2>2, <3>1, <3>2
  <2> QED BY <1>1, <2>1, <2>3, <2>4 DEF TypeOK, Pages
<1>3. CASE \E value \in Tokens \cup {None} : Edit(value)
  <2>1. PICK value \in Tokens \cup {None} : Edit(value)
    BY <1>3
  <2>2. session.token = None
    BY <2>1 DEF Edit
  <2>3. /\ screen' \in {[screen EXCEPT !.field = value, !.failed = FALSE, !.busy = FALSE,
                                       !.replaying = FALSE, !.wait = @ + 1],
                        [screen EXCEPT !.field = value, !.failed = FALSE]}
        /\ submits' \subseteq submits
    <3>1. CASE screen.replaying
      BY <2>1, <3>1 DEF Edit
    <3>2. CASE ~screen.replaying
      BY <2>1, <3>2 DEF Edit
    <3> QED BY <3>1, <3>2
  <2>4. screen' \in Screens
    <3>1. screen \in Screens
      BY DEF TypeOK
    <3>2. [screen EXCEPT !.field = value, !.failed = FALSE] \in Screens
      BY <3>1 DEF Screens
    <3>3. [screen EXCEPT !.field = value, !.failed = FALSE, !.busy = FALSE,
                         !.replaying = FALSE, !.wait = @ + 1] \in Screens
      <4>1. screen.wait + 1 \in Nat
        BY <3>1 DEF Screens
      <4>2. [screen EXCEPT !.field = value, !.failed = FALSE, !.busy = FALSE,
                           !.replaying = FALSE, !.wait = screen.wait + 1] \in Screens
        <5>1. [screen EXCEPT !.field = value, !.failed = FALSE, !.busy = FALSE,
                             !.replaying = FALSE] \in Screens
          BY <3>2 DEF Screens
        <5> QED BY <4>1, <5>1 DEF Screens
      <4> QED BY <4>2
    <3> QED BY <2>3, <3>2, <3>3
  <2> QED BY <1>1, <2>2, <2>3, <2>4 DEF TypeOK, Pages
<1>4. CASE \E c \in submits : SubmitWakes(c)
  <2>1. PICK c \in submits : SubmitWakes(c)
    BY <1>4
  <2>2. session.token = None
    BY <2>1 DEF Pages
  <2>3. c \in Calls
    BY DEF TypeOK
  <2>4. [c EXCEPT !.asking = TRUE] \in Calls
    BY <2>3 DEF Calls
  <2>5. UNCHANGED screen /\ submits' = (submits \ {c}) \cup {[c EXCEPT !.asking = TRUE]}
    BY <2>1 DEF SubmitWakes
  <2> QED BY <1>1, <2>2, <2>4, <2>5 DEF TypeOK, Pages
<1> QED BY <1>2, <1>3, <1>4 DEF ScreenMoves

LEMMA ReloadTyped ==
  ASSUME Typed, Reload
  PROVE  Typed'
<1> USE DEF Typed
<1>1. session' = Loaded(store) /\ session' \in Sessions
  BY DEF Reload, Loaded, Sessions, TypeOK, Stores
<1>2. /\ screen' = NoScreen /\ submits' = {} /\ shell' = NoShell /\ heard' = {}
      /\ UNCHANGED <<server, store, turns, faults>> /\ moves' \in Nat
      /\ figures' = Showing(IF session'.token = None THEN "none" ELSE "loading")
  BY DEF Reload, TypeOK
<1>3. /\ probes' = IF session'.token = None THEN {} ELSE {Request(session'.token)}
      /\ reads' = probes'
  BY DEF Reload
<1>4. session'.token # None => /\ Request(session'.token) \in Requests
                               /\ Request(session'.token).token = session'.token
  BY <1>1 DEF Request, Requests, Sessions
<1>5. screen' \in Screens /\ shell' \in Shells /\ figures' \in Figures
  BY <1>2, PageAssumption DEF NoScreen, NoShell, Showing, Screens, Shells, Figures
<1>6. TypeOK'
  BY <1>1, <1>2, <1>3, <1>4, <1>5 DEF TypeOK
<1>7. Pages'
  BY <1>2, <1>3, <1>4 DEF Pages, NoScreen
<1> QED BY <1>6, <1>7

\* The page's state keeps its type, and a request its page, over every step.
LEMMA TypedStep ==
  ASSUME Typed, [Next]_vars
  PROVE  Typed'
<1> USE DEF Typed
<1>1. CASE ServerMoves
  <2>1. server' \in [phase : {"down", "replaying", "ok"}, boot : Nat, accepts : Tokens]
    BY <1>1 DEF ServerMoves, Crash, Boot, Drained, TypeOK
  <2>2. UNCHANGED <<page, store, moves, turns, faults>>
    BY <1>1 DEF ServerMoves, Crash, Boot, Drained
  <2> QED BY <2>1, <2>2 DEF TypeOK, Pages, page
<1>2. CASE Answer
  BY <1>2, AnswerTyped
<1>3. CASE \E c \in submits : SubmitLands(c)
  BY <1>3, SubmitTyped
<1>4. CASE \E r \in probes : ProbeLands(r)
  BY <1>4, ProbeTyped
<1>5. CASE \E r \in reads : ReadLands(r)
  BY <1>5, ReadTyped
<1>6. CASE ShellMoves
  BY <1>6, ShellTyped
<1>7. CASE ScreenMoves
  BY <1>7, ScreenTyped
<1>8. CASE ViewReads
  <2>1. session.token \in Tokens
    BY <1>8 DEF ViewReads, TypeOK, Sessions
  <2>2. /\ Request(session.token) \in Requests
        /\ Request(session.token).token = session.token
    BY <2>1 DEF Request, Requests
  <2>3. /\ figures' \in Figures /\ moves' \in Nat /\ reads' = {Request(session.token)}
        /\ UNCHANGED <<server, store, session, screen, submits, shell, probes, heard, turns, faults>>
    BY <1>8 DEF ViewReads, TypeOK, Figures, Showing, Superseded
  <2> QED BY <1>8, <2>2, <2>3 DEF TypeOK, Pages, ViewReads
<1>9. CASE Lock
  BY <1>9, EndTyped DEF Lock, TypeOK
<1>10. CASE Reload
  BY <1>10, ReloadTyped
<1>11. CASE StoreTurns
  <2>1. store' \in Stores /\ turns' \in Nat
    <3>1. PICK r \in BOOLEAN, d \in BOOLEAN, w \in {"works", "ignores", "throws"} :
            store' = [store EXCEPT !.reads = r, !.removes = d, !.writes = w]
      BY <1>11 DEF StoreTurns
    <3>2. store' \in Stores
      BY <3>1 DEF TypeOK, Stores
    <3> QED BY <1>11, <3>2 DEF StoreTurns, TypeOK
  <2> QED BY <1>11, <2>1 DEF StoreTurns, TypeOK, Pages, page
<1>12. CASE UNCHANGED vars
  BY <1>12 DEF vars, TypeOK, Pages
<1> QED
  BY <1>1, <1>2, <1>3, <1>4, <1>5, <1>6, <1>7, <1>8, <1>9, <1>10, <1>11, <1>12
     DEF Next, PageSteps, ServerMoves, ShellMoves, ScreenMoves

LEMMA TypedInit ==
  ASSUME Init
  PROVE  Typed
<1>0. First \in Tokens
  <2>1. \E token \in Tokens : TRUE
    BY PageAssumption
  <2> QED BY <2>1, Zenon DEF First
<1>1. server \in [phase : {"down", "replaying", "ok"}, boot : Nat, accepts : Tokens]
  BY <1>0 DEF Init
<1>2. session = [token |-> None, notice |-> None, notRemembered |-> FALSE, notErased |-> FALSE]
  BY PageAssumption DEF Init, Loaded, ReadToken
<1>3. store \in Stores /\ session \in Sessions
  <2>1. store \in Stores
    BY DEF Init, Stores
  <2>2. session \in Sessions
    BY <1>2 DEF Sessions
  <2> QED BY <2>1, <2>2
<1>4. screen \in Screens /\ shell \in Shells /\ figures \in Figures
  BY DEF Init, Screens, Shells, Figures, NoScreen, NoShell, Showing
<1>5. TypeOK
  BY <1>1, <1>3, <1>4 DEF Init, TypeOK
<1>6. Pages
  BY <1>2 DEF Init, Pages, NoScreen
<1> QED BY <1>5, <1>6 DEF Typed

-----------------------------------------------------------------------------
(* The storage and the end of a session *)

\* A session has no notice, and what was left behind is announced.
Notices == EraseTold /\ (session.token # None => session.notice = None)

LEMMA EndNotices ==
  ASSUME Typed, NEW why \in {"locked", "rejected"}, EndSession(why)
  PROVE  Notices'
<1>1. /\ store' = ClearToken(store).store
      /\ session' = [session EXCEPT !.token = None, !.notice = why,
                                    !.notErased = (ClearToken(store).outcome = "refused")]
  BY DEF EndSession
<1>2. /\ session'.token = None
      /\ session'.notErased = (ClearToken(store).outcome = "refused")
  BY <1>1 DEF Typed, TypeOK, Sessions
<1> QED BY <1>1, <1>2, Clearing DEF Notices, EraseTold, Typed

LEMMA NoticesStep ==
  ASSUME Typed, Notices, [Next]_vars
  PROVE  Notices'
<1>1. CASE UNCHANGED <<store, session>>
  BY <1>1 DEF Notices, EraseTold
<1>2. CASE \E why \in {"locked", "rejected"} : EndSession(why)
  BY <1>2, EndNotices
<1>3. CASE \E c \in submits : HandleSuccess(c.token)
  <2>1. PICK c \in submits : HandleSuccess(c.token)
    BY <1>3
  <2>2. c.token \in Tokens
    BY DEF Typed, TypeOK, Calls
  <2> QED BY <2>1, <2>2, PageAssumption DEF Notices, EraseTold, HandleSuccess
<1>4. CASE Reload
  BY <1>4 DEF Reload, Loaded, Notices, EraseTold
<1>5. CASE StoreTurns
  <2>1. UNCHANGED session /\ store'.held = store.held
    BY <1>5 DEF StoreTurns, page, Typed, TypeOK, Stores
  <2> QED BY <2>1 DEF Notices, EraseTold
<1>6. \/ UNCHANGED <<store, session>>
      \/ \E why \in {"locked", "rejected"} : EndSession(why)
      \/ \E c \in submits : HandleSuccess(c.token)
      \/ Reload \/ StoreTurns
  BY DEF Next, PageSteps, Crash, Boot, Drained, Answer, SubmitLands, SubmitWakes, ProbeLands,
         ReadLands, TimerFires, Submit, Edit, Recheck, StreamOpens, StreamFails, StreamFatal,
         ViewReads, Lock, page, vars
<1> QED BY <1>1, <1>2, <1>3, <1>4, <1>5, <1>6

\* A session that ends as rejected ends by a 401 to a request for its token.
LEMMA CauseStep ==
  ASSUME Typed, Notices, [Next]_vars, session.token # None, session'.notice = "rejected"
  PROVE  \E r \in probes \cup reads :
           /\ r.token = session.token
           /\ r.answer # None /\ r.answer.kind = "unauthorized"
<1>1. session'.notice # session.notice
  BY PageAssumption DEF Notices
<1>2. ~ \E c \in submits : SubmitLands(c)
  BY DEF Typed, Pages
<1>3. ~Reload
  BY PageAssumption DEF Reload, Loaded
<1>4. ASSUME Lock PROVE FALSE
  BY <1>4 DEF Lock, EndSession, Typed, TypeOK, Sessions
<1>5. \/ \E r \in probes : ProbeLands(r) /\ EndSession("rejected")
      \/ \E r \in reads : ReadLands(r) /\ EndSession("rejected")
  BY <1>1, <1>2, <1>3, <1>4
     DEF Next, PageSteps, Crash, Boot, Drained, Answer, SubmitWakes, ProbeLands,
         ReadLands, TimerFires, Submit, Edit, Recheck, StreamOpens, StreamFails, StreamFatal,
         ViewReads, StoreTurns, page, vars
<1>6. CASE \E r \in probes : ProbeLands(r) /\ EndSession("rejected")
  <2>1. PICK r \in probes : ProbeLands(r) /\ EndSession("rejected")
    BY <1>6
  <2>2. session' # session
    BY <1>1
  <2> QED BY <2>1, <2>2 DEF ProbeLands, Typed, Pages
<1>7. CASE \E r \in reads : ReadLands(r) /\ EndSession("rejected")
  <2>1. PICK r \in reads : ReadLands(r) /\ EndSession("rejected")
    BY <1>7
  <2>2. session' # session
    BY <1>1
  <2> QED BY <2>1, <2>2 DEF ReadLands, Typed, Pages
<1> QED BY <1>5, <1>6, <1>7

-----------------------------------------------------------------------------
(* The wait of the entry screen *)

\* No call has started after the wait of the screen, and WaitForField.
Waits ==
  /\ WaitForField
  /\ \A c \in submits : c.wait <= screen.wait

\* A call that is asked or answered stays the call it is.
LEMMA CallMoves ==
  ASSUME Typed, Waits, NEW c \in submits, NEW d, d.wait = c.wait, d.token = c.token,
         submits' = (submits \ {c}) \cup {d}, UNCHANGED <<session, screen>>
  PROVE  Waits'
<1>1. \A p \in submits' : \E q \in submits :
        /\ q.wait = p.wait /\ q.token = p.token
        /\ IF p = d THEN q = c ELSE q = p
  OBVIOUS
<1>2. \A p \in submits : \E q \in submits' : q.wait = p.wait
  OBVIOUS
<1>3. (\A p, q \in {b \in submits : ~Abandoned(b)} : p = q)'
  BY <1>1 DEF Waits, WaitForField, Abandoned
<1>4. {b \in submits : ~Abandoned(b)} # {} <=> {b \in submits : ~Abandoned(b)}' # {}
  BY <1>1, <1>2 DEF Abandoned
<1>5. screen.replaying => \A p \in submits' : p.wait = screen.wait => p.token = screen.field
  BY <1>1 DEF Waits, WaitForField, Abandoned
<1>6. \A p \in submits' : p.wait <= screen.wait
  BY <1>1 DEF Waits
<1> QED BY <1>3, <1>4, <1>5, <1>6 DEF Waits, WaitForField, Abandoned

LEMMA WaitsStep ==
  ASSUME Typed, Waits, [Next]_vars
  PROVE  Waits'
<1> USE DEF Typed, Waits
<1>0. submits \subseteq Calls /\ screen \in Screens
  BY DEF TypeOK
<1>1. CASE UNCHANGED <<session, screen, submits>>
  BY <1>1 DEF WaitForField, Abandoned
<1>2. CASE submits' = {} /\ screen' = NoScreen
  BY <1>2 DEF WaitForField, NoScreen
<1>3. CASE UNCHANGED <<session, screen>> /\ Answer
  <2>1. CASE UNCHANGED submits
    BY <1>3, <2>1, <1>1
  <2>2. CASE \E c \in submits : \E a : submits' = Answered(submits, c, a)
    <3>0. PICK c \in submits : \E a : submits' = Answered(submits, c, a)
      BY <2>2
    <3>1. PICK a : submits' = Answered(submits, c, a)
      BY <3>0
    <3>2. /\ [c EXCEPT !.answer = a].wait = c.wait
          /\ [c EXCEPT !.answer = a].token = c.token
      BY <1>0 DEF Calls
    <3> QED BY <1>3, <3>1, <3>2, CallMoves DEF Answered
  <2> QED BY <1>3, <2>1, <2>2 DEF Answer
<1>4. CASE \E c \in submits : SubmitLands(c)
  <2>1. PICK c \in submits : SubmitLands(c)
    BY <1>4
  <2>2. CASE HandleSuccess(c.token)
    BY <2>2, <1>2 DEF HandleSuccess, MountedShell
  <2>3. CASE ~HandleSuccess(c.token) /\ Abandoned(c)
    <3>1. UNCHANGED <<session, screen>> /\ submits' = submits \ {c}
      BY <2>1, <2>3 DEF SubmitLands
    <3> QED BY <2>3, <3>1 DEF WaitForField, Abandoned
  <2>4. CASE ~HandleSuccess(c.token) /\ ~Abandoned(c)
    <3>1. session.token = None /\ UNCHANGED session
      BY <2>1, <2>4 DEF SubmitLands, Pages
    <3>2. \A d \in submits : ~Abandoned(d) => d = c
      BY <2>4 DEF WaitForField
    <3>3. CASE /\ screen' = [screen EXCEPT !.replaying = TRUE] /\ StillAsked(c)
               /\ submits' = (submits \ {c}) \cup {[c EXCEPT !.asking = FALSE, !.answer = None]}
      <4>1. c \in Calls
        BY <1>0
      <4>2. /\ [c EXCEPT !.asking = FALSE, !.answer = None].wait = c.wait
            /\ [c EXCEPT !.asking = FALSE, !.answer = None].token = c.token
        BY <4>1 DEF Calls
      <4>3. /\ screen'.wait = screen.wait /\ screen'.field = screen.field
            /\ screen'.busy = screen.busy
        BY <3>3, <1>0 DEF Screens
      <4> QED BY <2>4, <3>1, <3>2, <3>3, <4>2, <4>3 DEF WaitForField, Abandoned, StillAsked
    <3>4. CASE ~screen'.replaying /\ ~screen'.busy /\ screen'.wait = screen.wait
               /\ submits' = submits \ {c}
      BY <3>1, <3>2, <3>4 DEF WaitForField, Abandoned
    <3>5. CASE screen' = [screen EXCEPT !.busy = FALSE] /\ submits' = submits \ {c}
               /\ ~StillAsked(c)
      <4>1. ~screen.replaying
        BY <2>4, <3>5 DEF WaitForField, StillAsked
      <4> QED BY <3>4, <3>5, <4>1, <1>0 DEF Screens
    <3>6. CASE /\ screen' = [screen EXCEPT !.replaying = FALSE, !.busy = FALSE, !.failed = TRUE]
               /\ submits' = submits \ {c}
      BY <3>4, <3>6, <1>0 DEF Screens
    <3> QED BY <2>1, <2>4, <3>3, <3>5, <3>6, Zenon DEF SubmitLands
  <2> QED BY <2>2, <2>3, <2>4
<1>5. CASE Submit
  <2>1. session.token = None /\ UNCHANGED session /\ ~screen.busy
    BY <1>5 DEF Submit
  <2>2. \A c \in submits : Abandoned(c)
    BY <2>1 DEF WaitForField
  <2>3. CASE screen.field = None
    <3>1. screen' = [screen EXCEPT !.failed = TRUE] /\ UNCHANGED submits
      BY <1>5, <2>3 DEF Submit
    <3>2. /\ screen'.wait = screen.wait /\ screen'.busy = screen.busy
          /\ screen'.replaying = screen.replaying /\ screen'.field = screen.field
      BY <3>1, <1>0 DEF Screens
    <3> QED BY <2>1, <2>2, <3>1, <3>2 DEF WaitForField, Abandoned
  <2>4. CASE screen.field # None
    <3> DEFINE call == [token |-> screen.field, wait |-> screen.wait, asking |-> TRUE,
                        answer |-> None]
    <3>1. /\ screen' = [screen EXCEPT !.busy = TRUE, !.failed = FALSE]
          /\ submits' = submits \cup {call}
      BY <1>5, <2>4 DEF Submit
    <3>2. /\ screen'.wait = screen.wait /\ screen'.busy
          /\ screen'.replaying = screen.replaying /\ screen'.field = screen.field
          /\ screen.wait \in Nat
      BY <3>1, <1>0 DEF Screens
    <3>3. call.wait = screen.wait /\ call.token = screen.field
      OBVIOUS
    <3> HIDE DEF call
    <3> QED BY <2>1, <2>2, <3>1, <3>2, <3>3 DEF WaitForField, Abandoned
  <2> QED BY <2>3, <2>4
<1>6. CASE \E value \in Tokens \cup {None} : Edit(value)
  <2>1. PICK value \in Tokens \cup {None} : Edit(value)
    BY <1>6
  <2>2. CASE screen.replaying
    <3>1. /\ submits' \subseteq submits /\ UNCHANGED session
          /\ screen' = [screen EXCEPT !.field = value, !.failed = FALSE, !.busy = FALSE,
                                      !.replaying = FALSE, !.wait = @ + 1]
      BY <2>1, <2>2 DEF Edit
    <3>2. ~screen'.busy /\ ~screen'.replaying /\ screen'.wait = screen.wait + 1
      BY <3>1, <1>0 DEF Screens
    <3>3. \A c \in submits : c.wait \in Nat /\ c.wait <= screen.wait /\ screen.wait \in Nat
      BY <1>0 DEF Screens, Calls
    <3> QED BY <3>1, <3>2, <3>3 DEF WaitForField, Abandoned
  <2>3. CASE ~screen.replaying
    <3>1. /\ UNCHANGED <<submits, session>>
          /\ screen' = [screen EXCEPT !.field = value, !.failed = FALSE]
      BY <2>1, <2>3 DEF Edit
    <3>2. /\ screen'.busy = screen.busy /\ ~screen'.replaying /\ screen'.wait = screen.wait
      BY <2>3, <3>1, <1>0 DEF Screens
    <3> QED BY <3>1, <3>2 DEF WaitForField, Abandoned
  <2> QED BY <2>2, <2>3
<1>7. CASE \E c \in submits : SubmitWakes(c)
  <2>1. PICK c \in submits : SubmitWakes(c)
    BY <1>7
  <2>2. c \in Calls
    BY <1>0
  <2>3. /\ [c EXCEPT !.asking = TRUE].wait = c.wait /\ [c EXCEPT !.asking = TRUE].token = c.token
    BY <2>2 DEF Calls
  <2>4. /\ UNCHANGED <<session, screen>>
        /\ submits' = (submits \ {c}) \cup {[c EXCEPT !.asking = TRUE]}
    BY <2>1 DEF SubmitWakes
  <2> QED BY <2>3, <2>4, CallMoves
<1> QED
  BY <1>1, <1>2, <1>3, <1>4, <1>5, <1>6, <1>7
     DEF Next, PageSteps, Crash, Boot, Drained, Answer, ProbeLands, ReadLands, TimerFires,
         Recheck, StreamOpens, StreamFails, StreamFatal, ViewReads, Lock, Reload, StoreTurns,
         EndSession, EntryScreen, page, vars

-----------------------------------------------------------------------------
(* The notice of a replay and the figures read under it *)

\* The replay of this start of the server has ended.
Over(boot) == boot < server.boot \/ server.phase # "replaying"

\* What the shell knows of replays: it waits in one word and one flag; a replay
\* it heard of is over when it no longer waits, and when an `ok` is on its way;
\* a read that saw one it heard of is on its way only while it waits.
Replays ==
  /\ shell.replaying <=> shell.health = "replaying"
  /\ \A b \in heard : b <= server.boot
  /\ \A r, q \in probes : r = q
  /\ \A r \in probes : r.answer # None => r.answer.boot <= server.boot
  /\ shell.health # "replaying" => \A b \in heard : Over(b)
  /\ \A r \in probes : r.answer # None /\ r.answer.kind = "ok" => \A b \in heard : Over(b)
  /\ \A r \in reads :
       r.answer # None /\ r.answer.kind = "replaying" /\ r.answer.boot \in heard
         => shell.health = "replaying"
  /\ shell.health # "replaying" /\ figures.kind = "replaying" /\ figures.boot \in heard
       => reads # {}

LEMMA ReplaysServer ==
  ASSUME Typed, Replays, ServerMoves
  PROVE  Replays'
<1>1. UNCHANGED <<shell, heard, probes, reads, figures>>
  BY DEF ServerMoves, Crash, Boot, Drained, page
<1>2. /\ server.boot \in Nat /\ server'.boot \in Nat /\ server.boot <= server'.boot
      /\ \A b \in Nat : b <= server.boot /\ Over(b) => (Over(b))'
  BY DEF ServerMoves, Crash, Boot, Drained, Over, Typed, TypeOK
<1>3. \A b \in heard : b \in Nat /\ b <= server.boot
  BY DEF Replays, Typed, TypeOK
<1>4. \A r \in probes : r.answer # None => r.answer.boot \in Nat
  BY DEF Typed, TypeOK, Requests, Verdicts
<1> QED BY <1>1, <1>2, <1>3, <1>4 DEF Replays

\* A verdict is of the present start, `ok` only once its replay is over.
LEMMA VerdictNow ==
  ASSUME Typed, Replays, NEW token \in Tokens, NEW answer \in {Failed, Verdict(token)}
  PROVE  /\ answer.boot \in Nat /\ answer.boot <= server.boot
         /\ answer.kind = "ok" => \A b \in heard : Over(b)
         /\ answer.kind = "replaying" => ~Over(answer.boot)
<1>1. server.boot \in Nat
  BY DEF Typed, TypeOK
<1> QED BY <1>1 DEF Verdict, Failed, Over

LEMMA ReplaysAnswer ==
  ASSUME Typed, Replays, Answer
  PROVE  Replays'
<1>1. UNCHANGED <<server, shell, heard, figures>>
  BY DEF Answer
<1>2. CASE UNCHANGED <<probes, reads>>
  BY <1>1, <1>2 DEF Replays, Over
<1>3. CASE \E r \in probes : \E a \in {Failed, Verdict(r.token)} :
             probes' = Answered(probes, r, a) /\ UNCHANGED reads
  <2>0. PICK r \in probes : \E a \in {Failed, Verdict(r.token)} :
          probes' = Answered(probes, r, a) /\ UNCHANGED reads
    BY <1>3
  <2>1. PICK a \in {Failed, Verdict(r.token)} :
          probes' = Answered(probes, r, a) /\ UNCHANGED reads
    BY <2>0
  <2>2. r \in Requests
    BY DEF Typed, TypeOK
  <2>3. r.token \in Tokens /\ [r EXCEPT !.answer = a].answer = a
    BY <2>2 DEF Requests
  <2>4. probes' = {[r EXCEPT !.answer = a]}
    BY <2>1 DEF Answered, Replays
  <2>5. a.boot <= server.boot /\ (a.kind = "ok" => \A b \in heard : Over(b))
    BY <2>1, <2>3, VerdictNow
  <2> QED BY <1>1, <2>1, <2>3, <2>4, <2>5 DEF Replays, Over
<1>4. CASE \E r \in reads : \E a \in {Failed, Verdict(r.token)} :
             reads' = Answered(reads, r, a) /\ UNCHANGED probes
  <2>0. PICK r \in reads : \E a \in {Failed, Verdict(r.token)} :
          reads' = Answered(reads, r, a) /\ UNCHANGED probes
    BY <1>4
  <2>1. PICK a \in {Failed, Verdict(r.token)} :
          reads' = Answered(reads, r, a) /\ UNCHANGED probes
    BY <2>0
  <2>2. r \in Requests
    BY DEF Typed, TypeOK
  <2>3. r.token \in Tokens /\ [r EXCEPT !.answer = a].answer = a
    BY <2>2 DEF Requests
  <2>4. a.kind = "replaying" /\ a.boot \in heard => shell.health = "replaying"
    BY <2>1, <2>3, VerdictNow DEF Replays
  <2>5. reads' # {} /\ \A q \in reads' : q \in reads \/ q.answer = a
    BY <2>1, <2>3 DEF Answered
  <2> QED BY <1>1, <2>1, <2>4, <2>5 DEF Replays, Over
<1> QED BY <1>2, <1>3, <1>4 DEF Answer

LEMMA ReplaysProbe ==
  ASSUME Typed, Replays, NEW r \in probes, ProbeLands(r), r.answer.kind # "unauthorized"
  PROVE  Replays'
<1>1. /\ r.answer # None /\ r.answer.kind \in {"ok", "replaying", "unreachable"}
      /\ r.answer.boot <= server.boot
  BY DEF ProbeLands, Replays, Typed, TypeOK, Requests, Verdicts
<1>2. probes' = {}
  BY DEF ProbeLands, Replays
<1>3. UNCHANGED <<server, figures>> /\ shell' = HealthAfter(r.answer.kind)
  BY DEF ProbeLands
<1>4. shell \in Shells
  BY DEF Typed, TypeOK
<1>5. CASE r.answer.kind = "replaying"
  <2>1. shell'.health = "replaying" /\ shell'.replaying
    BY <1>3, <1>4, <1>5 DEF HealthAfter, Shells
  <2>2. reads' = reads /\ heard' = heard \cup {r.answer.boot}
    BY <1>5 DEF ProbeLands, ReplayEnded
  <2> QED BY <1>1, <1>2, <1>3, <2>1, <2>2 DEF Replays
<1>6. CASE r.answer.kind = "unreachable" /\ shell.replaying
  <2>1. shell'.health = "replaying" /\ shell'.replaying
    BY <1>3, <1>4, <1>6 DEF HealthAfter, Shells
  <2>2. reads' = reads /\ heard' = heard
    BY <1>6 DEF ProbeLands, ReplayEnded
  <2> QED BY <1>2, <1>3, <2>1, <2>2 DEF Replays
<1>7. CASE r.answer.kind = "unreachable" /\ ~shell.replaying
  <2>1. shell'.health = "unreachable" /\ ~shell'.replaying
    BY <1>3, <1>4, <1>7 DEF HealthAfter, Shells
  <2>2. reads' = reads /\ heard' = heard
    BY <1>7 DEF ProbeLands, ReplayEnded
  <2> QED BY <1>2, <1>3, <1>7, <2>1, <2>2 DEF Replays, Over
<1>8. CASE r.answer.kind = "ok"
  <2>1. shell'.health = "ok" /\ ~shell'.replaying
    BY <1>3, <1>4, <1>8 DEF HealthAfter, Shells
  <2>2. heard' = heard /\ \A b \in heard : Over(b)
    BY <1>1, <1>8 DEF ProbeLands, Replays
  <2>3. CASE shell.replaying
    <3>1. reads' = {Request(session.token)} /\ Request(session.token).answer = None
      BY <1>8, <2>3 DEF ProbeLands, ReplayEnded, Superseded, Request
    <3> QED BY <1>2, <1>3, <2>1, <2>2, <3>1 DEF Replays, Over
  <2>4. CASE ~shell.replaying
    <3>1. reads' = reads
      BY <1>8, <2>4 DEF ProbeLands, ReplayEnded
    <3> QED BY <1>2, <1>3, <2>1, <2>2, <2>4, <3>1 DEF Replays, Over
  <2> QED BY <2>3, <2>4
<1> QED BY <1>1, <1>5, <1>6, <1>7, <1>8

\* A page that has just been mounted has heard of nothing.
LEMMA ReplaysFresh ==
  ASSUME heard' = {}, shell' = NoShell, \A r, q \in probes' : r = q,
         \A r \in probes' : r.answer = None
  PROVE  Replays'
BY DEF Replays, NoShell

LEMMA ReplaysStep ==
  ASSUME Typed, Replays, [Next]_vars
  PROVE  Replays'
<1> USE DEF Typed
<1>1. CASE ServerMoves
  BY <1>1, ReplaysServer
<1>2. CASE Answer
  BY <1>2, ReplaysAnswer
<1>3. CASE \E r \in probes : ProbeLands(r) /\ r.answer.kind # "unauthorized"
  BY <1>3, ReplaysProbe
<1>4. CASE \E why \in {"locked", "rejected"} : EndSession(why)
  BY <1>4, ReplaysFresh DEF EndSession, EntryScreen, Superseded
<1>5. CASE \E c \in submits : HandleSuccess(c.token)
  <2>1. PICK c \in submits : HandleSuccess(c.token)
    BY <1>5
  <2>2. probes = {}
    BY <2>1 DEF Pages
  <2>3. probes' = {Request(c.token)} /\ Request(c.token).answer = None
    BY <2>1, <2>2 DEF HandleSuccess, MountedShell, Request
  <2> QED BY <2>1, <2>3, ReplaysFresh DEF HandleSuccess, MountedShell
<1>6. CASE Reload
  <2>1. /\ \A r \in probes' : r = Request(session'.token)
        /\ Request(session'.token).answer = None
    BY <1>6 DEF Reload, Request
  <2> QED BY <1>6, <2>1, ReplaysFresh DEF Reload
<1>7. CASE \E r \in reads : ReadLands(r) /\ r.answer.kind # "unauthorized"
  <2>1. PICK r \in reads : ReadLands(r) /\ r.answer.kind # "unauthorized"
    BY <1>7
  <2>2. /\ UNCHANGED <<server, shell, probes, heard>> /\ reads' = reads \ {r} /\ r.answer # None
        /\ figures' = IF r.answer.kind = "unreachable" THEN Showing("error") ELSE r.answer
    BY <2>1 DEF ReadLands
  <2>3. figures'.kind = "replaying" => figures' = r.answer
    BY <2>2 DEF Showing
  <2> QED BY <2>2, <2>3 DEF Replays, Over
<1>8. CASE ViewReads
  <2>1. /\ UNCHANGED <<server, shell, probes, heard>>
        /\ reads' = {Request(session.token)} /\ Request(session.token).answer = None
    BY <1>8 DEF ViewReads, Superseded, Request
  <2> QED BY <2>1 DEF Replays, Over
<1>9. CASE ShellMoves
  <2>1. UNCHANGED <<server, reads, figures, heard>>
    BY <1>9 DEF ShellMoves, TimerFires, Recheck, StreamOpens, StreamFails, StreamFatal
  <2>2. shell \in Shells
    BY DEF TypeOK
  <2>3. ASSUME NEW sh \in Shells, Reprobed(sh)
        PROVE  /\ shell'.health = sh.health /\ shell'.replaying = sh.replaying
               /\ probes' = {Request(session.token)} /\ Request(session.token).answer = None
    BY <2>3 DEF Reprobed, Shells, Superseded, Request
  <2>4. /\ shell'.replaying = shell.replaying
        /\ (shell'.health = "replaying") <=> (shell.health = "replaying")
        /\ \/ probes' = probes
           \/ probes' = {Request(session.token)} /\ Request(session.token).answer = None
    <3>1. CASE TimerFires
      BY <3>1, <2>2, <2>3 DEF TimerFires
    <3>2. CASE Recheck
      <4>1. [shell EXCEPT !.health = "checking"] \in Shells
            /\ [shell EXCEPT !.health = "checking"].health = "checking"
            /\ [shell EXCEPT !.health = "checking"].replaying = shell.replaying
        BY <2>2 DEF Shells
      <4> QED BY <3>2, <4>1, <2>3 DEF Recheck
    <3>3. CASE StreamOpens
      <4> DEFINE open == [shell EXCEPT !.stream = "open", !.opened = TRUE]
      <4>1. /\ open \in Shells /\ open.health = shell.health /\ open.replaying = shell.replaying
        BY <2>2 DEF Shells
      <4>2. Reprobed(open) \/ (shell' = open /\ UNCHANGED probes)
        BY <3>3 DEF StreamOpens
      <4> HIDE DEF open
      <4> QED BY <4>1, <4>2, <2>3
    <3>4. CASE StreamFails
      BY <3>4, <2>2 DEF StreamFails, Shells
    <3>5. CASE StreamFatal
      BY <3>5, <2>2 DEF StreamFatal, Shells
    <3> QED BY <1>9, <3>1, <3>2, <3>3, <3>4, <3>5 DEF ShellMoves
  <2> QED BY <2>1, <2>4 DEF Replays, Over
<1>10. CASE UNCHANGED <<server, shell, probes, reads, figures, heard>>
  BY <1>10 DEF Replays, Over
<1> QED
  BY <1>1, <1>2, <1>3, <1>4, <1>5, <1>6, <1>7, <1>8, <1>9, <1>10
     DEF Next, PageSteps, ServerMoves, ShellMoves, ProbeLands, ReadLands, SubmitLands,
         SubmitWakes, Submit, Edit, Lock, StoreTurns, page, vars

\* chipFor: a closed stream is on the chip, and `reconnecting` claims a
\* connection only when there was one.
LEMMA ChipTold ==
  ASSUME Typed
  PROVE  /\ ChipFor(shell).closed <=> shell.stream = "closed"
         /\ ChipFor(shell).word = "reconnecting" => shell.opened
<1>1. shell \in Shells
  BY DEF Typed, TypeOK
<1> QED BY <1>1 DEF ChipFor, Chip, Shells

-----------------------------------------------------------------------------
(* The theorems *)

Inv == Typed /\ Notices /\ Waits /\ Replays

\* The layers together are inductive.
THEOREM PageInductive == Spec => []Inv
<1>1. Init => Inv
  <2>1. ASSUME Init PROVE Notices /\ Waits /\ Replays
    BY <2>1 DEF Init, Loaded, NoScreen, NoShell, Showing, Notices, EraseTold, Waits,
                WaitForField, Replays
  <2> QED BY <2>1, TypedInit DEF Inv
<1>2. Inv /\ [Next]_vars => Inv'
  BY TypedStep, NoticesStep, WaitsStep, ReplaysStep DEF Inv
<1> QED BY <1>1, <1>2, PTL DEF Spec

\* Type correctness of the page.
THEOREM PageTypeCorrect == Spec => []TypeOK
<1>1. Inv => TypeOK
  BY DEF Inv, Typed
<1> QED BY <1>1, PageInductive, PTL

\* clearToken and endSession: a token left in the storage after a session was
\* ended is announced, whatever the storage refuses.
THEOREM ErasureIsTold == Spec => []EraseTold
<1>1. Inv => EraseTold
  BY DEF Inv, Notices
<1> QED BY <1>1, PageInductive, PTL

\* A session ends as rejected only by a 401 to a request for its own token.
THEOREM EndsForCause == Spec => EndedForCause
<1>1. Inv /\ [Next]_vars =>
        [session.token # None /\ session'.notice = "rejected" =>
           \E r \in probes \cup reads :
             /\ r.token = session.token
             /\ r.answer # None /\ r.answer.kind = "unauthorized"]_vars
  BY CauseStep DEF Inv
<1> QED BY <1>1, PageInductive, PTL DEF Spec, EndedForCause

\* handleSubmit and onChange: one live call, and a wait for what the field holds.
THEOREM WaitsForField == Spec => []WaitForField
<1>1. Inv => WaitForField
  BY DEF Inv, Waits
<1> QED BY <1>1, PageInductive, PTL

\* The probe and stream effects: the chip hides no dead stream, and no figures
\* read under a replay outlive its notice without being read again.
THEOREM NothingIsHidden == Spec => []NothingHidden
<1>1. Inv => NothingHidden
  BY ChipTold DEF Inv, Replays, NothingHidden
<1> QED BY <1>1, PageInductive, PTL

\* All three: what the page shows of a wait, a replay, the stream and a token
\* that was to be erased is so.
THEOREM ScreenIsTruthful == Spec => []ScreenTruthful
BY WaitsForField, NothingIsHidden, ErasureIsTold, PTL DEF ScreenTruthful
=============================================================================
