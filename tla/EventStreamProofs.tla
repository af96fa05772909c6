------------------------- MODULE EventStreamProofs -------------------------
(* Type correctness, the backlog bound, and that the hub, the stream route    *)
(* and the tab together implement FrameFeed, for every number of connections  *)
(* and every capacity.                                                        *)
EXTENDS EventStream, TLAPS

(* A stream that frames are written to holds frames of this process only.     *)
WithinHub ==
    \A s \in subscribers :
        /\ stream[s].sent <= stream[s].written
        /\ stream[s].written <= newest

(* The stream the tab reads: unless its process is gone, what is left of it   *)
(* was published here and comes after everything heard.                       *)
LinkAhead ==
    /\ outlived \cap subscribers = {}
    /\ link \in outlived => heard = 0
    /\ link \in Streams \ outlived =>
         /\ stream[link].sent <= newest
         /\ stream[link].next > heard

(* The number the browser would resume from is the one last heard, whenever   *)
(* this process was heard at all.                                             *)
HeardIsKnown ==
    /\ heard # 0 => heard = known
    /\ heard <= newest

Inv == TypeOK /\ BacklogBounded /\ WithinHub /\ LinkAhead /\ HeardIsKnown

----------------------------------------------------------------------------
LEMMA ReplayRange ==
    ASSUME StreamAssumption, newest \in Nat, NEW number \in Nat
    PROVE  /\ ReplayAfter(number) \in 0..newest
           /\ number # 0 /\ number <= newest => ReplayAfter(number) >= number
BY DEF StreamAssumption, ReplayAfter, Later

LEMMA DestroyedHoldsNothing ==
    ASSUME NEW s \in Stream
    PROVE  /\ Destroyed(s) \in Stream
           /\ Load(Destroyed(s)) = 0
           /\ Destroyed(s).sent = s.sent
           /\ Destroyed(s).next = s.next
<1>1. Destroyed(s) \in Stream
      BY DEF Stream, Destroyed
<1>2. /\ Destroyed(s).sent = s.sent
      /\ Destroyed(s).written = s.sent
      /\ Destroyed(s).beats = 0
      /\ Destroyed(s).next = s.next
      BY DEF Stream, Destroyed
<1>3. s.sent \in Nat
      BY DEF Stream
<1> QED BY <1>1, <1>2, <1>3 DEF Load

LEMMA UnusedHoldsNothing == Unused \in Stream /\ Load(Unused) = 0
<1>1. Unused \in Stream
      BY DEF Unused, Stream
<1>2. Unused.written = 0 /\ Unused.sent = 0 /\ Unused.beats = 0
      BY DEF Unused
<1> QED BY <1>1, <1>2 DEF Load

(* A new stream starts where its replay does.                                 *)
LEMMA ReplayedFields ==
    ASSUME NEW from \in Nat, newest \in Nat
    PROVE  /\ Replayed(from) \in Stream
           /\ Replayed(from).sent = from
           /\ Replayed(from).written = newest
           /\ Replayed(from).next = from + 1
BY DEF Replayed, Stream

(* The initial state satisfies the invariant.                                 *)
LEMMA InitInv == StreamAssumption /\ Init => Inv
<1> SUFFICES ASSUME StreamAssumption, Init PROVE Inv
    OBVIOUS
<1>1. Unused \in Stream /\ Load(Unused) = 0
      BY UnusedHoldsNothing
<1>2. \A s \in Streams : stream[s] = Unused
      BY DEF Init
<1>3. TypeOK
      BY <1>1 DEF Init, TypeOK
<1>4. BacklogBounded
      BY <1>1, <1>2 DEF Init, BacklogBounded
<1> QED BY <1>3, <1>4 DEF Inv, Init, WithinHub, LinkAhead, HeardIsKnown

LEMMA PublishInv == StreamAssumption /\ Inv /\ Publish => Inv'
<1> SUFFICES ASSUME StreamAssumption, Inv, Publish PROVE Inv'
    OBVIOUS
<1> USE DEF Inv
<1> DEFINE written(s) == [stream[s] EXCEPT !.written = newest + 1]
           reaped == {s \in subscribers : Overloaded(written(s))}
<1>1. /\ newest' = newest + 1
      /\ stream' = [s \in Streams |->
                      IF s \in reaped THEN Destroyed(written(s))
                      ELSE IF s \in subscribers THEN written(s) ELSE stream[s]]
      /\ subscribers' = subscribers \ reaped
      /\ UNCHANGED <<tabVars, historyVars, faults, restarts>>
      BY DEF Publish
<1> HIDE DEF reaped
<1>2. /\ subscribers \subseteq Streams
      /\ reaped \subseteq subscribers
      /\ newest \in Nat
      BY DEF TypeOK, reaped
<1>3. \A s \in Streams :
        /\ stream[s] \in Stream
        /\ written(s) \in Stream
        /\ written(s).sent = stream[s].sent
        /\ written(s).next = stream[s].next
        /\ written(s).written = newest + 1
      BY <1>2 DEF TypeOK, Stream
<1> HIDE DEF written
<1>4. \A s \in Streams :
        /\ stream'[s] \in Stream
        /\ stream'[s].sent = stream[s].sent
        /\ stream'[s].next = stream[s].next
      BY <1>1, <1>3, DestroyedHoldsNothing
<1>5. TypeOK'
      BY <1>1, <1>2, <1>4 DEF TypeOK, tabVars, historyVars
<1>6. BacklogBounded'
      <2> SUFFICES ASSUME NEW s \in Streams
                   PROVE  Load(stream'[s]) <= IF s \in subscribers' THEN MaxBacklog ELSE 0
          BY DEF BacklogBounded, Load
      <2>1. CASE s \in reaped
            BY <2>1, <1>1, <1>2, <1>3, DestroyedHoldsNothing
      <2>2. CASE s \in subscribers \ reaped
            <3>1. Load(written(s)) \in Int /\ ~(Load(written(s)) > MaxBacklog)
                  BY <2>2, <1>3 DEF reaped, Overloaded, Load, Stream
            <3> QED BY <3>1, <2>2, <1>1, <1>2 DEF StreamAssumption
      <2>3. CASE s \notin subscribers
            BY <2>3, <1>1, <1>2 DEF BacklogBounded
      <2> QED BY <2>1, <2>2, <2>3
<1>7. WithinHub'
      <2> SUFFICES ASSUME NEW s \in subscribers'
                   PROVE  stream'[s].sent <= stream'[s].written /\ stream'[s].written <= newest'
          BY DEF WithinHub
      <2>1. s \in subscribers /\ s \notin reaped /\ s \in Streams
            BY <1>1, <1>2
      <2>2. stream'[s] = written(s)
            BY <2>1, <1>1
      <2> QED BY <2>1, <2>2, <1>1, <1>2, <1>3 DEF WithinHub, Stream
<1>8. LinkAhead'
      BY <1>1, <1>2, <1>3, <1>4 DEF LinkAhead, TypeOK, tabVars, historyVars, Stream
<1>9. HeardIsKnown'
      BY <1>1, <1>2 DEF HeardIsKnown, TypeOK, tabVars, historyVars
<1> QED BY <1>5, <1>6, <1>7, <1>8, <1>9

LEMMA HeartbeatInv ==
    ASSUME StreamAssumption, Inv, NEW s \in Streams, Heartbeat(s)
    PROVE  Inv'
<1> USE DEF Inv
<1> DEFINE beaten == Beaten(stream[s])
<1>1. stream[s] \in Stream
      BY DEF TypeOK
<1>2. /\ beaten \in Stream
      /\ beaten.sent = stream[s].sent
      /\ beaten.written = stream[s].written
      /\ beaten.next = stream[s].next
      BY <1>1 DEF Beaten, Stream
<1>3. UNCHANGED <<newest, tabVars, historyVars, faults, restarts>> /\ s \in subscribers
      BY DEF Heartbeat
<1>4. CASE UNCHANGED <<stream, subscribers>>
      BY <1>3, <1>4 DEF TypeOK, BacklogBounded, WithinHub, LinkAhead, HeardIsKnown,
                        tabVars, historyVars
<1>5. CASE ~Overloaded(beaten) /\ stream' = [stream EXCEPT ![s] = beaten] /\ UNCHANGED subscribers
      <2> HIDE DEF beaten
      <2>1. Load(beaten) <= MaxBacklog
            BY <1>2, <1>5 DEF Overloaded, Load, Stream, StreamAssumption
      <2> QED BY <2>1, <1>1, <1>2, <1>3, <1>5
              DEF TypeOK, BacklogBounded, WithinHub, LinkAhead, HeardIsKnown, tabVars, historyVars
<1>6. CASE stream' = [stream EXCEPT ![s] = Destroyed(beaten)] /\ subscribers' = subscribers \ {s}
      <2> HIDE DEF beaten
      <2>1. /\ Destroyed(beaten) \in Stream
            /\ Load(Destroyed(beaten)) = 0
            /\ Destroyed(beaten).sent = stream[s].sent
            /\ Destroyed(beaten).next = stream[s].next
            BY <1>2, DestroyedHoldsNothing
      <2> QED BY <2>1, <1>1, <1>3, <1>6
              DEF TypeOK, BacklogBounded, WithinHub, LinkAhead, HeardIsKnown, tabVars, historyVars
<1> QED BY <1>4, <1>5, <1>6 DEF Heartbeat

LEMMA FlushInv ==
    ASSUME StreamAssumption, Inv, NEW s \in Streams, Flush(s)
    PROVE  Inv'
<1> USE DEF Inv
<1>1. PICK sent \in stream[s].sent..stream[s].written :
         stream' = [stream EXCEPT ![s].sent = sent, ![s].beats = 0]
      BY DEF Flush
<1>2. /\ s \in subscribers
      /\ UNCHANGED <<newest, subscribers, tabVars, historyVars, faults, restarts>>
      /\ stream[s] \in Stream
      BY DEF Flush, TypeOK
<1> DEFINE flushed == [stream[s] EXCEPT !.sent = sent, !.beats = 0]
<1>a. sent \in Nat
      BY <1>1, <1>2 DEF Stream
<1>b. flushed \in Stream
      BY <1>2, <1>a DEF Stream
<1>c. /\ flushed.sent = sent
      /\ flushed.written = stream[s].written
      /\ flushed.next = stream[s].next
      /\ flushed.beats = 0
      BY <1>2, <1>a DEF Stream
<1>d. stream' = [stream EXCEPT ![s] = flushed]
      BY <1>1
<1> HIDE DEF flushed
<1>3. /\ stream'[s] \in Stream
      /\ stream'[s].sent = sent
      /\ stream'[s].written = stream[s].written
      /\ stream'[s].next = stream[s].next
      /\ stream'[s].beats = 0
      /\ \A r \in Streams \ {s} : stream'[r] = stream[r]
      BY <1>b, <1>c, <1>d DEF TypeOK
<1>4. Load(stream'[s]) <= Load(stream[s])
      BY <1>1, <1>2, <1>3 DEF Load, Stream
<1>5. TypeOK'
      BY <1>1, <1>2, <1>3 DEF TypeOK, tabVars, historyVars
<1>6. BacklogBounded'
      <2> SUFFICES ASSUME NEW r \in Streams
                   PROVE  Load(stream'[r]) <= IF r \in subscribers' THEN MaxBacklog ELSE 0
          BY DEF BacklogBounded, Load
      <2>1. CASE r = s
            <3>1. Load(stream[s]) <= MaxBacklog
                  BY <1>2 DEF BacklogBounded
            <3>2. Load(stream[s]) \in Int /\ Load(stream'[s]) \in Int
                  BY <1>2, <1>3 DEF Load, Stream
            <3> QED BY <2>1, <3>1, <3>2, <1>2, <1>4 DEF StreamAssumption
      <2>2. CASE r # s
            BY <2>2, <1>2, <1>3 DEF BacklogBounded
      <2> QED BY <2>1, <2>2
<1>7. WithinHub'
      BY <1>1, <1>2, <1>3 DEF WithinHub, TypeOK, Stream
<1>8. LinkAhead'
      BY <1>1, <1>2, <1>3 DEF LinkAhead, WithinHub, TypeOK, Stream, tabVars, historyVars
<1>9. HeardIsKnown'
      BY <1>2 DEF HeardIsKnown, tabVars, historyVars
<1> QED BY <1>5, <1>6, <1>7, <1>8, <1>9

LEMMA HangUpInv ==
    ASSUME StreamAssumption, Inv, NEW s \in Streams, HangUp(s)
    PROVE  Inv'
<1> USE DEF Inv
<1>1. stream[s] \in Stream
      BY DEF TypeOK
<1>2. /\ Destroyed(stream[s]) \in Stream
      /\ Load(Destroyed(stream[s])) = 0
      /\ Destroyed(stream[s]).sent = stream[s].sent
      /\ Destroyed(stream[s]).next = stream[s].next
      BY <1>1, DestroyedHoldsNothing
<1> QED BY <1>1, <1>2
        DEF HangUp, TypeOK, BacklogBounded, WithinHub, LinkAhead, HeardIsKnown,
            tabVars, historyVars

LEMMA RestartInv == StreamAssumption /\ Inv /\ Restart => Inv'
<1> SUFFICES ASSUME StreamAssumption, Inv, Restart PROVE Inv'
    OBVIOUS
<1> USE DEF Inv
<1>1. PICK ended \in SUBSET subscribers :
         stream' = [s \in Streams |->
                      IF s \in ended
                      THEN [stream[s] EXCEPT !.sent = stream[s].written, !.beats = 0]
                      ELSE Destroyed(stream[s])]
      BY DEF Restart
<1>2. \A s \in Streams : stream[s] \in Stream
      BY DEF TypeOK
<1>3. \A s \in Streams : stream'[s] \in Stream /\ Load(stream'[s]) = 0
      <2> SUFFICES ASSUME NEW s \in Streams
                   PROVE  stream'[s] \in Stream /\ Load(stream'[s]) = 0
          OBVIOUS
      <2>1. CASE s \in ended
            <3> DEFINE ended1 == [stream[s] EXCEPT !.sent = stream[s].written, !.beats = 0]
            <3>1. stream'[s] = ended1
                  BY <2>1, <1>1
            <3>2. ended1 \in Stream
                  BY <1>2 DEF Stream
            <3>3. /\ ended1.sent = stream[s].written
                  /\ ended1.written = stream[s].written
                  /\ ended1.beats = 0
                  /\ stream[s].written \in Nat
                  BY <1>2 DEF Stream
            <3> HIDE DEF ended1
            <3> QED BY <3>1, <3>2, <3>3 DEF Load
      <2>2. CASE s \notin ended
            BY <2>2, <1>1, <1>2, DestroyedHoldsNothing
      <2> QED BY <2>1, <2>2
<1>4. TypeOK'
      <2>1. stream' \in [Streams -> Stream]
            BY <1>1, <1>3
      <2>2. /\ newest' = 0 /\ subscribers' = {} /\ outlived' \subseteq Streams
            /\ heard' = 0 /\ received' = {} /\ reported' = {}
            /\ restarts' = restarts + 1
            /\ UNCHANGED <<link, client, known, faults>>
            BY DEF Restart
      <2> QED BY <2>1, <2>2 DEF TypeOK
<1>5. subscribers' = {} /\ heard' = 0 /\ newest' = 0 /\ outlived' \subseteq {link'} /\ (link' \in Streams => link' \in outlived')
      BY DEF Restart
<1>6. BacklogBounded'
      BY <1>3, <1>5 DEF BacklogBounded, Load
<1>7. WithinHub' /\ LinkAhead' /\ HeardIsKnown'
      BY <1>5 DEF WithinHub, LinkAhead, HeardIsKnown
<1> QED BY <1>4, <1>6, <1>7

LEMMA SubscribeInv ==
    ASSUME StreamAssumption, Inv, NEW s \in Streams, Subscribe(s)
    PROVE  Inv'
<1> USE DEF Inv
<1> DEFINE from == ReplayAfter(known)
           replayed == Replayed(from)
<1>1. from \in 0..newest /\ (heard # 0 => from >= heard) /\ newest \in Nat /\ heard \in Nat
      BY ReplayRange DEF HeardIsKnown, TypeOK
<1> HIDE DEF from
<1>2. /\ replayed \in Stream
      /\ replayed.sent = from
      /\ replayed.written = newest
      /\ replayed.next = from + 1
      <2>1. from \in Nat
            BY <1>1
      <2> QED BY <2>1, <1>1, ReplayedFields
<1>3. /\ link' = s
      /\ outlived' = {}
      /\ UNCHANGED <<newest, client, known, historyVars, faults, restarts>>
      BY DEF Subscribe
<1>4. CASE ~Overloaded(replayed) /\ stream' = [stream EXCEPT ![s] = replayed]
           /\ subscribers' = subscribers \cup {s}
      <2> HIDE DEF replayed
      <2>1. Load(replayed) <= MaxBacklog
            BY <1>2, <1>4 DEF Overloaded, Load, Stream, StreamAssumption
      <2> QED BY <2>1, <1>1, <1>2, <1>3, <1>4
              DEF TypeOK, BacklogBounded, WithinHub, LinkAhead, HeardIsKnown, historyVars
<1>5. CASE stream' = [stream EXCEPT ![s] = Destroyed(replayed)] /\ UNCHANGED subscribers
      <2> HIDE DEF replayed
      <2>1. /\ Destroyed(replayed) \in Stream
            /\ Load(Destroyed(replayed)) = 0
            /\ Destroyed(replayed).sent = from
            /\ Destroyed(replayed).next = from + 1
            BY <1>2, DestroyedHoldsNothing
      <2>2. s \notin subscribers
            BY DEF Subscribe
      <2> QED BY <2>1, <2>2, <1>1, <1>3, <1>5
              DEF TypeOK, BacklogBounded, WithinHub, LinkAhead, HeardIsKnown, historyVars
<1> QED BY <1>4, <1>5 DEF Subscribe, from

LEMMA TakeInv == StreamAssumption /\ Inv /\ Take => Inv'
<1> SUFFICES ASSUME StreamAssumption, Inv, Take PROVE Inv'
    OBVIOUS
<1> USE DEF Inv
<1> DEFINE id == stream[link].next
<1>1. /\ link \in Streams
      /\ stream[link] \in Stream
      /\ id <= stream[link].sent
      /\ stream' = [stream EXCEPT ![link].next = id + 1]
      /\ known' = id
      /\ UNCHANGED <<newest, subscribers, link, client, outlived, faults, restarts>>
      BY DEF Take, TypeOK
<1>2. /\ stream'[link] \in Stream
      /\ stream'[link].sent = stream[link].sent
      /\ stream'[link].written = stream[link].written
      /\ stream'[link].beats = stream[link].beats
      /\ stream'[link].next = id + 1
      /\ \A s \in Streams \ {link} : stream'[s] = stream[s]
      BY <1>1 DEF TypeOK, Stream
<1>3. BacklogBounded' /\ WithinHub'
      BY <1>1, <1>2 DEF BacklogBounded, WithinHub, Load, TypeOK
<1>4. CASE link \in outlived
      <2>1. UNCHANGED historyVars
            BY <1>4 DEF Take
      <2>2. id \in Nat
            BY <1>1 DEF Stream
      <2>3. TypeOK'
            BY <1>1, <1>2, <2>1, <2>2 DEF TypeOK, historyVars
      <2>4. heard = 0
            BY <1>1, <1>4 DEF LinkAhead
      <2> QED BY <1>1, <1>3, <1>4, <2>1, <2>3, <2>4
              DEF LinkAhead, HeardIsKnown, TypeOK, historyVars
<1>5. CASE link \notin outlived
      <2>1. /\ heard' = id
            /\ received' = received \cup {id}
            /\ reported' = reported \cup MissedBefore(id)
            BY <1>5 DEF Take
      <2>2. id \in Nat /\ id <= newest /\ id > heard
            BY <1>1, <1>5 DEF LinkAhead, Stream, TypeOK, StreamAssumption
      <2>3. MissedBefore(id) \subseteq Nat
            BY <2>2 DEF MissedBefore, TypeOK
      <2>4. TypeOK'
            BY <1>1, <1>2, <2>1, <2>2, <2>3 DEF TypeOK
      <2> QED BY <1>1, <1>2, <1>3, <1>5, <2>1, <2>2, <2>4
              DEF LinkAhead, HeardIsKnown, TypeOK, Stream
<1> QED BY <1>4, <1>5

(* The steps that move the link or its peer and nothing else.                 *)
LEMMA PeerInv ==
    ASSUME StreamAssumption, Inv, Opened \/ ConnectFails \/ Breaks \/ Stalls \/ Resumes
    PROVE  Inv'
<1> USE DEF Inv
<1>1. CASE Opened \/ ConnectFails
      BY <1>1 DEF Opened, ConnectFails, hubVars, historyVars, TypeOK, BacklogBounded,
                  WithinHub, LinkAhead, HeardIsKnown
<1>2. ASSUME NEW peer \in {"reads", "stalls", "gone"}, link \in Streams,
             stream' = [stream EXCEPT ![link].peer = peer],
             UNCHANGED <<newest, subscribers, known, historyVars, restarts>>,
             \/ UNCHANGED <<link, client, outlived>>
             \/ link' = NoStream /\ client' = "reconnecting" /\ outlived' = {},
             faults' \in Nat
      PROVE  Inv'
      <2>1. /\ stream[link] \in Stream
            /\ stream' \in [Streams -> Stream]
            /\ \A s \in Streams : /\ stream'[s].sent = stream[s].sent
                                  /\ stream'[s].written = stream[s].written
                                  /\ stream'[s].next = stream[s].next
                                  /\ stream'[s].beats = stream[s].beats
            BY <1>2 DEF TypeOK, Stream
      <2>2. TypeOK'
            BY <1>2, <2>1 DEF TypeOK, historyVars
      <2>3. BacklogBounded' /\ WithinHub'
            BY <1>2, <2>1 DEF TypeOK, BacklogBounded, WithinHub, Load
      <2>4. LinkAhead' /\ HeardIsKnown'
            BY <1>2, <2>1 DEF TypeOK, LinkAhead, HeardIsKnown, historyVars, StreamAssumption
      <2> QED BY <2>2, <2>3, <2>4
<1>3. CASE Stalls
      BY <1>2, <1>3 DEF Stalls, tabVars, TypeOK
<1>4. CASE Resumes
      BY <1>2, <1>4 DEF Resumes, tabVars, TypeOK
<1>5. CASE Breaks /\ link \in subscribers
      BY <1>2, <1>5 DEF Breaks, TypeOK
<1>6. CASE Breaks /\ link \notin subscribers
      <2>1. /\ Unused \in Stream /\ Load(Unused) = 0
            /\ stream' = [stream EXCEPT ![link] = Unused]
            /\ link \in Streams /\ link' = NoStream /\ outlived' = {}
            /\ client' = "reconnecting"
            /\ UNCHANGED <<newest, subscribers, known, historyVars, faults, restarts>>
            BY <1>6 DEF Breaks, TypeOK, Unused, Stream, Load
      <2> QED BY <2>1, <1>6 DEF TypeOK, BacklogBounded, WithinHub, LinkAhead, HeardIsKnown,
                                historyVars, StreamAssumption
<1> QED BY <1>1, <1>3, <1>4, <1>5, <1>6

LEMMA NextInv == StreamAssumption /\ Inv /\ [Next]_vars => Inv'
<1> SUFFICES ASSUME StreamAssumption, Inv, [Next]_vars PROVE Inv'
    OBVIOUS
<1>1. CASE UNCHANGED vars
      BY <1>1 DEF vars, hubVars, tabVars, historyVars, Inv, TypeOK, BacklogBounded,
                  WithinHub, LinkAhead, HeardIsKnown
<1> QED BY <1>1, PublishInv, HeartbeatInv, FlushInv, HangUpInv, RestartInv,
           SubscribeInv, TakeInv, PeerInv DEF Next

(* Types, the backlog bound and the order of what the tab reads are inductive *)
(* together.                                                                  *)
THEOREM StreamInductive == StreamAssumption => (Spec => []Inv)
<1> SUFFICES ASSUME StreamAssumption PROVE Spec => []Inv
    OBVIOUS
<1>1. Init => Inv
      BY InitInv
<1>2. Inv /\ [Next]_vars => Inv'
      BY NextInv
<1> QED BY <1>1, <1>2, PTL DEF Spec

(* Every variable keeps its type.                                             *)
THEOREM StreamTypeCorrect == StreamAssumption => (Spec => []TypeOK)
<1> SUFFICES ASSUME StreamAssumption PROVE Spec => []TypeOK
    OBVIOUS
<1>1. Inv => TypeOK
      BY DEF Inv
<1> QED BY <1>1, StreamInductive, PTL

(* No peer makes the server hold more than the bound, and a stream that was   *)
(* torn down, from inside its own replay included, holds nothing.             *)
THEOREM BacklogIsBounded == StreamAssumption => (Spec => []BacklogBounded)
<1> SUFFICES ASSUME StreamAssumption PROVE Spec => []BacklogBounded
    OBVIOUS
<1>1. Inv => BacklogBounded
      BY DEF Inv
<1> QED BY <1>1, StreamInductive, PTL

----------------------------------------------------------------------------
(* Refinement.                                                                *)

(* A frame taken on a stream of this process is heard as FrameFeed allows,    *)
(* and what is reported with it is what was passed over.                      *)
LEMMA TakeHears ==
    ASSUME StreamAssumption, Inv, Take, link \notin outlived
    PROVE  \E frame \in 1..newest : \E first \in 1..frame : Feed!Hear(frame, first)
<1> DEFINE id == stream[link].next
           first == IF known = 0 \/ id <= known THEN id ELSE known + 1
<1> USE DEF Inv
<1>1. /\ link \in Streams
      /\ id \in Nat /\ stream[link].sent \in Nat
      /\ id <= stream[link].sent
      /\ heard' = id
      /\ received' = received \cup {id}
      /\ reported' = reported \cup MissedBefore(id)
      /\ newest' = newest
      BY DEF Take, TypeOK, Stream
<1>2. /\ heard < id /\ id <= newest
      /\ heard \in Nat /\ known \in Nat /\ newest \in Nat
      /\ heard # 0 => heard = known
      BY <1>1 DEF LinkAhead, HeardIsKnown, TypeOK
<1> HIDE DEF id
<1>3. /\ first \in (heard + 1)..id
      /\ heard # 0 => first = heard + 1
      /\ MissedBefore(id) = first..(id - 1)
      BY <1>1, <1>2 DEF MissedBefore
<1> HIDE DEF first
<1>4. Feed!Hear(id, first)
      BY <1>1, <1>2, <1>3 DEF Feed!Hear
<1>5. id \in 1..newest /\ first \in 1..id
      BY <1>1, <1>2, <1>3
<1> QED BY <1>4, <1>5

LEMMA StepMaps ==
    ASSUME StreamAssumption, Inv, [Next]_vars
    PROVE  [Feed!Next]_(Feed!feedVars)
<1> USE DEF Feed!feedVars
<1>1. CASE UNCHANGED vars
      BY <1>1 DEF vars, hubVars, historyVars
<1>2. CASE Publish
      BY <1>2 DEF Publish, historyVars, Feed!Next, Feed!Publish
<1>3. CASE Restart
      BY <1>3 DEF Restart, Feed!Next, Feed!Renumber
<1>4. CASE Take /\ link \notin outlived
      BY <1>4, TakeHears DEF Feed!Next
<1>5. CASE Take /\ link \in outlived
      BY <1>5 DEF Take, historyVars
<1>6. ASSUME NEW s \in Streams, Heartbeat(s) \/ Flush(s) \/ HangUp(s) \/ Subscribe(s)
      PROVE  UNCHANGED <<newest, historyVars>>
      BY <1>6 DEF Heartbeat, Flush, HangUp, Subscribe
<1>7. CASE Opened \/ ConnectFails \/ Breaks \/ Stalls \/ Resumes
      BY <1>7 DEF Opened, ConnectFails, Breaks, Stalls, Resumes, hubVars, historyVars
<1> QED BY <1>1, <1>2, <1>3, <1>4, <1>5, <1>6, <1>7 DEF Next, historyVars

(* The hub, the stream route and the tab implement the feed: in order, at     *)
(* most once, and nothing passed over in silence after the first frame heard. *)
THEOREM StreamKeepsFeed == StreamAssumption => (Spec => KeepsFeed)
<1> SUFFICES ASSUME StreamAssumption PROVE Spec => KeepsFeed
    OBVIOUS
<1>1. Init => Feed!Init
      BY DEF Init, Feed!Init
<1>2. Inv /\ [Next]_vars => [Feed!Next]_(Feed!feedVars)
      BY StepMaps
<1> QED BY <1>1, <1>2, StreamInductive, PTL DEF Spec, KeepsFeed, Feed!Spec

(* What the feed promises is worth having: its reports are exact.  `Counted`  *)
(* is the part of Exact that is not inductive on its own.                     *)
Counted ==
    /\ newest \in Nat
    /\ heard \in Nat
    /\ Feed!Exact

LEMMA HearCounted ==
    ASSUME Counted, NEW frame \in 1..newest, NEW first \in 1..frame, Feed!Hear(frame, first)
    PROVE  Counted'
<1> USE DEF Counted
<1>1. /\ frame \in (heard + 1)..newest
      /\ first \in (heard + 1)..frame
      /\ heard # 0 => first = heard + 1
      /\ heard' = frame
      /\ received' = received \cup {frame}
      /\ reported' = reported \cup first..(frame - 1)
      /\ newest' = newest
      BY DEF Feed!Hear
<1>2. PICK start \in 1..(heard + 1) : received \cup reported = start..heard
      BY DEF Feed!Exact
<1>3. received \cap reported = {}
      BY DEF Feed!Exact
<1>4. \A f \in received \cup reported : f \in Int /\ f <= heard
      BY <1>2
<1>5. received' \cap reported' = {}
      BY <1>1, <1>3, <1>4
<1>6. CASE heard = 0
      <2>1. received = {} /\ reported = {}
            BY <1>2, <1>6
      <2>2. received' \cup reported' = first..frame
            BY <1>1, <2>1
      <2> QED BY <1>1, <1>5, <2>2 DEF Feed!Exact
<1>7. CASE heard # 0
      <2>1. received' \cup reported' = (start..heard) \cup ((heard + 1)..(frame - 1)) \cup {frame}
            BY <1>1, <1>2, <1>7
      <2>2. received' \cup reported' = start..frame
            BY <1>1, <1>2, <2>1
      <2>3. start \in 1..(heard' + 1)
            BY <1>1, <1>2
      <2> QED BY <1>1, <1>5, <2>2, <2>3 DEF Feed!Exact
<1> QED BY <1>6, <1>7

(* No frame reported missing is ever heard, and from the first frame heard or *)
(* reported of a process to the last there is none unaccounted for.           *)
THEOREM ReportsAreExact == StreamAssumption => (Spec => []Feed!Exact)
<1> SUFFICES ASSUME StreamAssumption PROVE Spec => []Feed!Exact
    OBVIOUS
<1>1. Feed!Init => Counted
      BY DEF Feed!Init, Counted, Feed!Exact
<1>2. Counted /\ [Feed!Next]_(Feed!feedVars) => Counted'
      <2> SUFFICES ASSUME Counted, [Feed!Next]_(Feed!feedVars) PROVE Counted'
          OBVIOUS
      <2>1. CASE UNCHANGED Feed!feedVars
            BY <2>1 DEF Feed!feedVars, Counted, Feed!Exact
      <2>2. CASE Feed!Publish
            BY <2>2 DEF Feed!Publish, Counted, Feed!Exact
      <2>3. CASE Feed!Renumber
            <3>1. newest' = 0 /\ heard' = 0 /\ received' = {} /\ reported' = {}
                  BY <2>3 DEF Feed!Renumber
            <3> QED BY <3>1 DEF Counted, Feed!Exact
      <2> QED BY <2>1, <2>2, <2>3, HearCounted DEF Feed!Next
<1>3. Counted => Feed!Exact
      BY DEF Counted
<1> QED BY <1>1, <1>2, <1>3, StreamKeepsFeed, PTL DEF KeepsFeed, Feed!Spec

=============================================================================
