----------------------------- MODULE FrameFeed -----------------------------
(* What the event stream promises one browser tab about the frames of one     *)
(* server process, whatever connections, buffers and restarts lie in between: *)
(* a frame is heard at most once and in order, and from the first one heard   *)
(* on, every frame that was passed over has been reported as missing.  The    *)
(* numbering starts again with a new process, and so does the promise.        *)
EXTENDS Naturals

VARIABLES
    published,  \* number of the newest frame of this process, 0 before the first
    heard,      \* number of the last frame heard of this process, 0 for none
    received,   \* the frames of this process the tab has heard
    reported    \* the frames of this process it was told it missed

feedVars == <<published, heard, received, reported>>

Init ==
    /\ published = 0
    /\ heard = 0
    /\ received = {}
    /\ reported = {}

Publish ==
    /\ published' = published + 1
    /\ UNCHANGED <<heard, received, reported>>

(* A frame is heard, and those from `first` up to it are reported missing.    *)
(* Only a tab that has heard nothing of this process may pass frames over in  *)
(* silence.                                                                   *)
Hear(frame, first) ==
    /\ frame \in (heard + 1)..published
    /\ first \in (heard + 1)..frame
    /\ heard # 0 => first = heard + 1
    /\ heard' = frame
    /\ received' = received \cup {frame}
    /\ reported' = reported \cup first..(frame - 1)
    /\ UNCHANGED published

Renumber ==
    /\ published' = 0
    /\ heard' = 0
    /\ received' = {}
    /\ reported' = {}

Next ==
    \/ Publish
    \/ \E frame \in 1..published : \E first \in 1..frame : Hear(frame, first)
    \/ Renumber

Spec == Init /\ [][Next]_feedVars

(* The reported frames are exactly the ones that were passed over: none was   *)
(* heard after all, and none between the first frame accounted for and the    *)
(* last one heard is unaccounted for.                                         *)
Exact ==
    /\ received \cap reported = {}
    /\ \E first \in 1..(heard + 1) : received \cup reported = first..heard

=============================================================================
