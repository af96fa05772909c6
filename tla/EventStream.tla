---------------------------- MODULE EventStream ----------------------------
(* The way of a frame from the server's hub to one browser tab: the replay    *)
(* buffer and fan-out of realtime/hub.ts, the stream route of server.ts with  *)
(* its backlog bound and heartbeat, and the EventSource wrapper of sse.ts,    *)
(* which resumes with the number of the last frame it heard.  Frames are      *)
(* their numbers.  A stream is one connection as the server sees it; the tab  *)
(* reads at most one of them, and one it has left may live on at the server.  *)
EXTENDS Integers, FiniteSets

CONSTANTS
    Streams,      \* connections the server may hold at once
    Capacity,     \* frames the hub keeps for replay (replayCapacity)
    MaxBacklog,   \* unsent chunks a stream may hold (maxStreamBacklogBytes)
    MaxFrames,    \* bound: frames one process publishes
    MaxFaults,    \* bound: stalls and cut connections
    MaxRestarts,  \* bound: restarts of the server
    NoStream      \* the tab has no connection

ASSUME StreamAssumption ==
    /\ NoStream \notin Streams
    /\ Capacity \in Nat
    /\ MaxBacklog \in Nat
    /\ MaxFrames \in Nat
    /\ MaxFaults \in Nat
    /\ MaxRestarts \in Nat

VARIABLES
    newest,       \* the hub: number of the newest frame, 0 before the first
    subscribers,  \* the hub: streams it writes to; torn down streams are not in it
    stream,       \* per stream: what was written, what has left, what comes next
    link,         \* the tab: the stream it reads
    client,       \* the tab: connection state it shows
    known,        \* the tab: last frame number it saw (lastFrameId), 0 for null
    outlived,     \* streams the tab may still read of a process that is gone
    heard,        \* history: last frame heard of this process, 0 for none
    received,     \* history: frames of this process heard
    reported,     \* history: frames of this process reported missing
    faults, restarts

hubVars == <<newest, subscribers, stream>>
tabVars == <<link, client, known, outlived>>
historyVars == <<heard, received, reported>>
vars == <<hubVars, tabVars, historyVars, faults, restarts>>

Later(a, b) == IF a > b THEN a ELSE b

(* A stream carries the frames next..written; those up to sent have left the  *)
(* server's memory.  beats are unsent heartbeats.                             *)
Stream ==
    [next : Nat, sent : Nat, written : Nat, beats : Nat,
     peer : {"reads", "stalls", "gone"}]

Unused == [next |-> 1, sent |-> 0, written |-> 0, beats |-> 0, peer |-> "reads"]

(* A new stream that was written everything after `from`.                     *)
Replayed(from) ==
    [next |-> from + 1, sent |-> from, written |-> newest, beats |-> 0, peer |-> "reads"]

Load(s) == s.written - s.sent + s.beats

(* A torn down stream: what had not left the server is discarded.             *)
Destroyed(s) == [s EXCEPT !.written = s.sent, !.beats = 0]

(* The bound checked before the write instead of after it: a mutant.          *)
OverloadedBefore(s) == Load(s) - 1 > MaxBacklog

(* The check follows the write: only a peer that then holds too much is       *)
(* reaped.                                                                    *)
Overloaded(s) == Load(s) > MaxBacklog

(* A heartbeat is written like a frame and counts like one.                   *)
Beaten(s) == [s EXCEPT !.beats = @ + 1]

(* Resuming without a look at the number that was sent: mutants.              *)
ReplayAfterNothing(number) == newest

(* The highest number the replay of a new stream leaves out: everything when  *)
(* no number was sent or when it is beyond this process, otherwise all up to  *)
(* that number and all that has left the buffer.                              *)
ReplayAfter(number) ==
    IF number = 0 \/ number > newest
    THEN newest
    ELSE Later(number, newest - Capacity)

Init ==
    /\ newest = 0
    /\ subscribers = {}
    /\ stream = [s \in Streams |-> Unused]
    /\ link = NoStream
    /\ client = "connecting"
    /\ known = 0
    /\ outlived = {}
    /\ heard = 0
    /\ received = {}
    /\ reported = {}
    /\ faults = 0
    /\ restarts = 0

----------------------------------------------------------------------------
(* The server.                                                                *)

(* One event is written to every subscriber; those it overloads are reaped.   *)
Publish ==
    LET written(s) == [stream[s] EXCEPT !.written = newest + 1]
        reaped == {s \in subscribers : Overloaded(written(s))}
    IN  /\ newest < MaxFrames
        /\ newest' = newest + 1
        /\ stream' = [s \in Streams |->
                        IF s \in reaped THEN Destroyed(written(s))
                        ELSE IF s \in subscribers THEN written(s)
                        ELSE stream[s]]
        /\ subscribers' = subscribers \ reaped
        /\ UNCHANGED <<tabVars, historyVars, faults, restarts>>

(* The heartbeat of one stream.  It is rare (15 s): it has left long before   *)
(* the next one for a peer that reads, and adds to the backlog of one that    *)
(* does not.                                                                  *)
Heartbeat(s) ==
    LET beaten == Beaten(stream[s])
    IN  /\ s \in subscribers
        /\ \/ /\ stream[s].peer = "reads"
              /\ UNCHANGED <<stream, subscribers>>
           \/ /\ stream[s].peer # "reads"
              /\ ~Overloaded(beaten)
              /\ stream' = [stream EXCEPT ![s] = beaten]
              /\ UNCHANGED subscribers
           \/ /\ stream[s].peer # "reads"
              /\ Overloaded(beaten)
              /\ stream' = [stream EXCEPT ![s] = Destroyed(beaten)]
              /\ subscribers' = subscribers \ {s}
        /\ UNCHANGED <<newest, tabVars, historyVars, faults, restarts>>

(* Part of the backlog leaves for a peer that reads.                          *)
Flush(s) ==
    /\ s \in subscribers
    /\ stream[s].peer = "reads"
    /\ Load(stream[s]) > 0
    /\ \E sent \in stream[s].sent..stream[s].written :
         stream' = [stream EXCEPT ![s].sent = sent, ![s].beats = 0]
    /\ UNCHANGED <<newest, subscribers, tabVars, historyVars, faults, restarts>>

(* The peer's own 'close' event, when the network brings one.                 *)
HangUp(s) ==
    /\ s \in subscribers
    /\ stream[s].peer = "gone"
    /\ subscribers' = subscribers \ {s}
    /\ stream' = [stream EXCEPT ![s] = Destroyed(stream[s])]
    /\ UNCHANGED <<newest, tabVars, historyVars, faults, restarts>>

(* The server stops, in order (`ended`: open streams are flushed) or not, and *)
(* another process takes its place with an empty hub.                         *)
Restart ==
    /\ restarts < MaxRestarts
    /\ newest' = 0
    /\ subscribers' = {}
    /\ \E ended \in SUBSET subscribers :
         stream' = [s \in Streams |->
                      IF s \in ended
                      THEN [stream[s] EXCEPT !.sent = stream[s].written, !.beats = 0]
                      ELSE Destroyed(stream[s])]
    /\ outlived' = {link} \cap Streams
    /\ heard' = 0
    /\ received' = {}
    /\ reported' = {}
    /\ restarts' = restarts + 1
    /\ UNCHANGED <<link, client, known, faults>>

----------------------------------------------------------------------------
(* The tab and its connection.                                                *)

(* The stream route: replay after the number the browser sends, then join.    *)
(* A stream the replay itself has overloaded is torn down and joins nothing.  *)
Subscribe(s) ==
    LET from == ReplayAfter(known)
        replayed == Replayed(from)
    IN  /\ link = NoStream
        /\ s \notin subscribers
        /\ link' = s
        /\ outlived' = {}
        /\ IF Overloaded(replayed)
           THEN /\ stream' = [stream EXCEPT ![s] = Destroyed(replayed)]
                /\ UNCHANGED subscribers
           ELSE /\ stream' = [stream EXCEPT ![s] = replayed]
                /\ subscribers' = subscribers \cup {s}
        /\ UNCHANGED <<newest, client, known, historyVars, faults, restarts>>

(* EventSource 'open'.                                                        *)
Opened ==
    /\ link # NoStream
    /\ client # "open"
    /\ client' = "open"
    /\ UNCHANGED <<hubVars, link, known, outlived, historyVars, faults, restarts>>

(* An attempt that fails before there is a connection.                        *)
ConnectFails ==
    /\ link = NoStream
    /\ client = "connecting"
    /\ client' = "reconnecting"
    /\ UNCHANGED <<hubVars, link, known, outlived, historyVars, faults, restarts>>

(* A single missing frame passed over: a mutant.                              *)
MissedUnlessOne(id) == IF known = 0 \/ id <= known + 2 THEN {} ELSE (known + 1)..(id - 1)

(* The frames a new number proves missing: none for the first one heard, and  *)
(* none for a repeated or smaller number, which is a restarted server.        *)
MissedBefore(id) == IF known = 0 THEN {} ELSE (known + 1)..(id - 1)

(* The tab takes the next frame.                                              *)
Take ==
    LET id == stream[link].next
    IN  /\ link # NoStream
        /\ client = "open"
        /\ stream[link].peer = "reads"
        /\ id <= stream[link].sent
        /\ stream' = [stream EXCEPT ![link].next = id + 1]
        /\ known' = id
        /\ IF link \in outlived
           THEN UNCHANGED historyVars
           ELSE /\ heard' = id
                /\ received' = received \cup {id}
                /\ reported' = reported \cup MissedBefore(id)
        /\ UNCHANGED <<newest, subscribers, link, client, outlived, faults, restarts>>

(* EventSource 'error': the server closed the stream, and what the tab had    *)
(* not read of it is lost, or the connection was cut, which the server does   *)
(* not notice.                                                                *)
Breaks ==
    /\ link # NoStream
    /\ \/ /\ link \notin subscribers
          /\ stream' = [stream EXCEPT ![link] = Unused]
          /\ UNCHANGED faults
       \/ /\ link \in subscribers
          /\ faults < MaxFaults
          /\ stream' = [stream EXCEPT ![link].peer = "gone"]
          /\ faults' = faults + 1
    /\ link' = NoStream
    /\ client' = "reconnecting"
    /\ outlived' = {}
    /\ UNCHANGED <<newest, subscribers, known, historyVars, restarts>>

(* The tab, or its machine, stops reading for a while.                        *)
Stalls ==
    /\ link \in subscribers
    /\ stream[link].peer = "reads"
    /\ faults < MaxFaults
    /\ stream' = [stream EXCEPT ![link].peer = "stalls"]
    /\ faults' = faults + 1
    /\ UNCHANGED <<newest, subscribers, tabVars, historyVars, restarts>>

Resumes ==
    /\ link # NoStream
    /\ stream[link].peer = "stalls"
    /\ stream' = [stream EXCEPT ![link].peer = "reads"]
    /\ UNCHANGED <<newest, subscribers, tabVars, historyVars, faults, restarts>>

Next ==
    \/ Publish
    \/ \E s \in Streams : Heartbeat(s)
    \/ \E s \in Streams : Flush(s)
    \/ \E s \in Streams : HangUp(s)
    \/ Restart
    \/ \E s \in Streams : Subscribe(s)
    \/ Opened
    \/ ConnectFails
    \/ Take
    \/ Breaks
    \/ Stalls
    \/ Resumes

(* Timers, the kernel and the browser's own retry keep going; publishing,     *)
(* faults, restarts and a close the network delivers are left to chance.      *)
Fairness ==
    /\ \A s \in Streams :
         WF_vars(Heartbeat(s)) /\ WF_vars(Flush(s)) /\ WF_vars(Subscribe(s))
    /\ WF_vars(Opened)
    /\ WF_vars(Take)
    /\ WF_vars(link \notin subscribers /\ Breaks)

Spec == Init /\ [][Next]_vars
FairSpec == Spec /\ Fairness

----------------------------------------------------------------------------
(* Properties.                                                                *)

(* Every variable keeps its shape, numbers and sets of frame numbers.         *)
TypeOK ==
    /\ newest \in Nat
    /\ subscribers \subseteq Streams
    /\ stream \in [Streams -> Stream]
    /\ link \in Streams \cup {NoStream}
    /\ client \in {"connecting", "open", "reconnecting"}
    /\ known \in Nat
    /\ outlived \subseteq Streams
    /\ heard \in Nat
    /\ received \subseteq Nat
    /\ reported \subseteq Nat
    /\ faults \in Nat
    /\ restarts \in Nat

(* hub.ts and sse.ts together keep the promise of FrameFeed: within one       *)
(* process no frame is heard twice or out of order, none that was reported    *)
(* missing is heard, and after the first none is lost in silence, whatever is *)
(* reaped, cut, replayed or dropped from the buffer.                          *)
Feed == INSTANCE FrameFeed WITH published <- newest
KeepsFeed == Feed!Spec

(* The bound of server.ts: whatever its peer does, no stream that frames are  *)
(* still written to holds more unsent data than allowed, and a stream that    *)
(* was torn down holds none.                                                  *)
BacklogBounded ==
    \A s \in Streams :
        Load(stream[s]) <= IF s \in subscribers THEN MaxBacklog ELSE 0

(* The heartbeat is the reaper of an idle stream: a peer that has gone, or    *)
(* that never reads again, is dropped though nothing is published and no      *)
(* close ever arrives.                                                        *)
AbandonedDropped ==
    \A s \in Streams :
        (s \in subscribers /\ stream[s].peer # "reads")
            ~> (s \notin subscribers \/ stream[s].peer = "reads")

(* A tab that has heard this process at all ends up with its newest frame     *)
(* heard, however often it was reaped or cut: resuming catches up with what   *)
(* was published meanwhile.  The replay must fit the backlog bound, as 256    *)
(* frames do in 1 MiB; one that does not is reaped each time it is tried.     *)
ReplayFits == newest - ReplayAfter(heard) <= MaxBacklog
CatchesUp == <>[](heard # 0 /\ ReplayFits => heard = newest)

(* The two together: the server lets go of a peer that has gone, and a peer   *)
(* that is there gets everything.                                             *)
PeersServed == AbandonedDropped /\ CatchesUp

=============================================================================
