----------------------------- MODULE TailCache -----------------------------
(***************************************************************************)
(* The cache of complete transcript lines that the watcher reads through.  *)
(* A file is a sequence of bytes; a read opens it, takes its size and      *)
(* modification time, and then its bytes from some offset on. The writer   *)
(* of the file is another process, so it may change between the two, and a *)
(* divergence makes the cache open it again.                               *)
(*                                                                         *)
(* Decoding matters here, as the promise is about text: the two bytes of a *)
(* wide character make one character together and a replacement character  *)
(* alone. Entries are kept oldest first, as a Map keeps its insertions.    *)
(***************************************************************************)
EXTENDS Integers, Sequences, FiniteSets, SequencesExt, Selection

CONSTANTS
  Files,         \* .jsonl paths
  Contents,      \* what a file may hold: a set of sequences of bytes
  Newline, Lead, Trail,  \* the bytes 0x0A and those of a wide character
  Wide, Bad,     \* the characters a whole and a torn wide character decode to
  OverlapBytes,  \* bytes re-read and compared
  MaxFileBytes,  \* files above it are not read
  MaxCacheBytes, \* cache budget over all files
  MaxCacheEntries,
  MaxChanges,    \* bound: changes of files and faults of a behaviour
  MaxClock,      \* bound: ticks of the file system's clock
  None           \* no file, no read under way, nothing answered

\* What the constants must be.
Configured ==
  /\ OverlapBytes \in Nat
  /\ MaxFileBytes \in Nat
  /\ MaxCacheBytes \in Nat
  /\ MaxCacheEntries \in Nat
  /\ Newline \notin {Lead, Trail}
  /\ \A c \in Contents : c \in Seq(UNION {Range(d) : d \in Contents})

VARIABLES
  clock,   \* the file system's clock, in its own granules
  disk,    \* each file: its bytes, when it was written, whether it opens
  changes, \* changes and faults so far
  cache,   \* the entries, least recently stored first
  total,   \* the running estimate of their size
  read,    \* the read under way: file, offset, size and time as stat saw them
  answer,  \* what the last call returned: its file and text, None for a throw
  seen     \* history: the bytes the last answer for each file was made of,
           \* with the size and time stat saw

vars == <<clock, disk, changes, cache, total, read, answer, seen>>

-----------------------------------------------------------------------------
(* Bytes and text *)

\* Each byte as the character it starts; the rest of a wide character is none.
Decode(bytes) ==
  LET Whole(i)  == i < Len(bytes) /\ bytes[i] = Lead /\ bytes[i + 1] = Trail
      Starts    == {i \in 1..Len(bytes) : i = 1 \/ ~Whole(i - 1)}
      Character == [i \in 1..Len(bytes) |->
                      IF Whole(i) THEN Wide
                      ELSE IF bytes[i] \in {Lead, Trail} THEN Bad ELSE bytes[i]]
  IN Kept(Character, Starts)

\* The length of the complete lines; 0 when no line is complete.
CompleteEnd(bytes) ==
  LET ends == {i \in DOMAIN bytes : bytes[i] = Newline}
  IN IF ends = {} THEN 0 ELSE CHOOSE i \in ends : \A j \in ends : j <= i

\* The last bytes of a region, as far back as the window goes.
Window(bytes) ==
  SubSeq(bytes, 1 + IF Len(bytes) > OverlapBytes THEN Len(bytes) - OverlapBytes ELSE 0,
         Len(bytes))

-----------------------------------------------------------------------------
(* Entries *)

Weight(e) == 2 * Len(e.text) + Len(e.tail)

WeightOf(entries) == FoldSeq(LAMBDA e, sum : sum + Weight(e), 0, entries)

Position(f) == CHOOSE i \in DOMAIN cache : cache[i].file = f

Cached(f) == \E i \in DOMAIN cache : cache[i].file = f

Entry(f) == cache[Position(f)]

Others(f) == Kept(cache, {i \in DOMAIN cache : cache[i].file # f})

TotalWithout(f) == IF Cached(f) THEN total - Weight(Entry(f)) ELSE total

\* dropEntry
Drop(f) ==
  /\ cache' = Others(f)
  /\ total' = TotalWithout(f)

\* storeEntry: the entry goes to the end and the oldest go until both caps
\* hold, the new one too when it is over the budget alone.
Store(e) ==
  LET all == Append(Others(e.file), e)
      sum == TotalWithout(e.file) + Weight(e)
      Left(k) == sum - WeightOf(SubSeq(all, 1, k))
      Fits(k) == Len(all) - k <= MaxCacheEntries /\ Left(k) <= MaxCacheBytes
      stops == {k \in 0..Len(all) : k = Len(all) \/ Fits(k)}
      k == CHOOSE k \in stops : \A j \in stops : k <= j
  IN /\ cache' = SubSeq(all, k + 1, Len(all))
     /\ total' = Left(k)

-----------------------------------------------------------------------------
(* The files *)

Reading(f) == read # None /\ read.file = f

Advance ==
  /\ clock < MaxClock
  /\ clock' = clock + 1
  /\ UNCHANGED <<disk, changes, cache, total, read, answer, seen>>

\* A file is appended to, rewritten in place, truncated, deleted, or starts or
\* ceases to fail to open.
Change(f) ==
  /\ changes < MaxChanges
  /\ changes' = changes + 1
  /\ \/ \E c \in Contents \ {disk[f].bytes} :
          disk' = [disk EXCEPT ![f] = [@ EXCEPT !.bytes = c, !.mtime = clock]]
     \/ disk' = [disk EXCEPT ![f].opens = ~@]
  /\ read' = IF Reading(f) THEN [read EXCEPT !.calm = FALSE] ELSE read
  /\ UNCHANGED <<clock, cache, total, answer, seen>>

-----------------------------------------------------------------------------
(* readFileConfined *)

Readable(f) == disk[f].opens /\ Len(disk[f].bytes) <= MaxFileBytes

\* The bytes already known verified from the start of the overlap window.
StartOf(e) == e.offset - Len(e.tail)

\* The complete lines of the last answer are no longer what the file begins with.
Rewritten(f) ==
  ~IsPrefix(SubSeq(seen[f].bytes, 1, CompleteEnd(seen[f].bytes)), disk[f].bytes)

\* The blind spots the code's comment names: rewritten and grown, or rewritten
\* at its size within the granule of the clock the last read saw.
GrownOrTooSoon(f) ==
  \/ Len(disk[f].bytes) > seen[f].size
  \/ Len(disk[f].bytes) = seen[f].size /\ disk[f].mtime = seen[f].mtime

\* One it does not name: rewritten and shrunk, but only into the torn tail.
CutInTail(f) ==
  /\ Len(disk[f].bytes) < seen[f].size
  /\ Len(disk[f].bytes) >= CompleteEnd(seen[f].bytes)

Excused(f) == Cached(f) /\ Rewritten(f) /\ (GrownOrTooSoon(f) \/ CutInTail(f))

\* open and fstat, for the bytes from `from` on.
Opened(f, from, excused, calm) ==
  read' = [file |-> f, from |-> from, size |-> Len(disk[f].bytes),
           mtime |-> disk[f].mtime, excused |-> excused, calm |-> calm]

\* The call begins: with an entry from its overlap window on, else whole.
BeginRead(f) ==
  /\ read = None
  /\ Readable(f)
  /\ Opened(f, IF Cached(f) THEN StartOf(Entry(f)) ELSE 0, Excused(f), TRUE)
  /\ answer' = None
  /\ UNCHANGED <<clock, disk, changes, cache, total, seen>>

\* What readSync returns: up to the size stat saw, less when the file shrank.
Fetched ==
  LET now == disk[read.file].bytes
  IN SubSeq(now, read.from + 1, IF Len(now) < read.size THEN Len(now) ELSE read.size)

Answered(e, old, fresh) ==
  LET rest == SubSeq(fresh, CompleteEnd(fresh) + 1, Len(fresh))
  IN /\ Store(e)
     /\ answer' = [file |-> e.file, text |-> e.text \o Decode(rest)]
     /\ seen' = [seen EXCEPT ![e.file] = [bytes |-> old \o fresh, size |-> read.size,
                                         mtime |-> read.mtime]]
     /\ read' = None
     /\ UNCHANGED <<clock, disk, changes>>

\* fullRead: nothing is known of the file.
ReadWhole ==
  LET end == CompleteEnd(Fetched)
      known == SubSeq(Fetched, 1, end)
  IN /\ read # None /\ ~Cached(read.file)
     /\ Answered([file |-> read.file, text |-> Decode(known), offset |-> end,
                  tail |-> Window(known), size |-> read.size, mtime |-> read.mtime],
                 <<>>, Fetched)

\* The byte compare alone: a mutant.
DivergedInWindow(e) == read.size < e.offset \/ ~IsPrefix(e.tail, Fetched)

\* The divergence signals: shrunk below the known region, the same size at
\* another time, other bytes in the overlap window.
Diverged(e) ==
  \/ read.size < e.offset
  \/ read.size = e.size /\ read.mtime # e.mtime
  \/ ~IsPrefix(e.tail, Fetched)

\* The inner file system throws, on the first opening, the read or the second
\* opening: the entry goes and the caller sees the error.
Throws(f) ==
  /\ ~Readable(f)
  /\ \/ read = None
     \/ Reading(f) /\ (disk[f].opens => Cached(f) /\ Diverged(Entry(f)))
  /\ Drop(f)
  /\ read' = None
  /\ answer' = None
  /\ UNCHANGED <<clock, disk, changes, seen>>

\* The entry is dropped and the file opened a second time.
StartOver ==
  /\ read # None /\ Cached(read.file)
  /\ Diverged(Entry(read.file))
  /\ Readable(read.file)
  /\ Drop(read.file)
  /\ Opened(read.file, 0, read.excused, read.calm)
  /\ UNCHANGED <<clock, disk, changes, answer, seen>>

\* The new complete lines join the entry; the torn rest is decoded afresh.
ReadTail ==
  LET e     == Entry(read.file)
      fresh == SubSeq(Fetched, Len(e.tail) + 1, Len(Fetched))
      end   == CompleteEnd(fresh)
      known == e.tail \o SubSeq(fresh, 1, end)
  IN /\ read # None /\ Cached(read.file)
     /\ ~Diverged(e)
     /\ Answered([file |-> read.file, text |-> e.text \o Decode(SubSeq(fresh, 1, end)),
                  offset |-> e.offset + end, tail |-> Window(known),
                  size |-> read.size, mtime |-> read.mtime],
                 SubSeq(seen[e.file].bytes, 1, e.offset), fresh)

-----------------------------------------------------------------------------

Init ==
  /\ clock = 0
  /\ disk \in [Files -> {[bytes |-> c, mtime |-> 0, opens |-> TRUE] : c \in Contents}]
  /\ changes = 0
  /\ cache = <<>>
  /\ total = 0
  /\ read = None
  /\ answer = None
  /\ seen = [f \in Files |-> [bytes |-> <<>>, size |-> 0, mtime |-> 0]]

Next ==
  \/ Advance
  \/ \E f \in Files : Change(f) \/ BeginRead(f) \/ Throws(f)
  \/ ReadWhole \/ StartOver \/ ReadTail

Spec == Init /\ [][Next]_vars

-----------------------------------------------------------------------------
(* Properties *)

\* "Cached read = full read": a call during which its file stood still returns
\* the text of the file, whatever was appended, rewritten, cut, evicted or
\* failed before, save in a blind spot.
ReadsTheFile ==
  [][answer' # answer /\ answer' # None /\ read.calm /\ ~read.excused
       => answer'.text = Decode(disk[read.file].bytes)]_vars

=============================================================================
