--------------------- MODULE IngestedDataProofs ---------------------
(***************************************************************************)
(* Proofs about what an ingest makes of a session's transcripts. The       *)
(* ledger: dedupe of a longer prefix never counts less than dedupe of a    *)
(* shorter one, so the upsert's maxima end at the dedupe of what was read  *)
(* last. It takes transcripts whose cache writes are not re-split, which   *)
(* is what the maxima rest on, and no retention rule on the ledger.        *)
(*                                                                         *)
(* The reading: what was read of a copy at rest is what of it can be read, *)
(* and a reading that stores merges it into what was known. The number of  *)
(* lines left out may fall; while files only grow, the lines it counted    *)
(* are still there, and every reading that is not partial meets them.      *)
(*                                                                         *)
(* The figures: a row trigger moves the tokens and the row count of one    *)
(* group, so that a run of them, in any order, leaves the grouped scan of  *)
(* the table it ends at. A rebuild reads the ledger alone in its slice and *)
(* an edit moves no group outside it. A summary adds up the rollup's       *)
(* groups where the scan adds up rows: the two are one sum, taken group by *)
(* group, since all rows of a group are priced alike.                      *)
(*                                                                         *)
(* The tree: rows of agents are only coalesced with what a reading says.   *)
(* What a reading says can be stored in its order: a queue holds each agent*)
(* once, after the one it hangs on, and whom it never reaches hangs on a   *)
(* cycle.                                                                  *)
(*                                                                         *)
(* The answers: each is a function of the stored rows, so that they agree  *)
(* follows from the rows' type alone: usage and agents name a session that *)
(* is stored. The rest is about ranks: a place in a total order is a       *)
(* number below the size of what is ordered, and no two share one.         *)
(***************************************************************************)
EXTENDS MCIngestedData, FiniteSetTheorems, SequenceTheorems,
        WellFoundedInduction, TLAPS

-----------------------------------------------------------------------------
(* Numbers *)

LEMMA LeastNumber ==
  ASSUME NEW S \in SUBSET Nat, S # {}
  PROVE  \E n \in S : \A j \in S : n <= j
<1>1. IsWellFoundedOn(OpToRel(<, Nat), Nat)
  BY NatLessThanWellFounded
<1>2. \E n \in S : \A j \in S : <<j, n>> \notin OpToRel(<, Nat)
  <2> DEFINE R == OpToRel(<, Nat)
  <2>1. IsWellFoundedOn(R, Nat)
    BY <1>1
  <2>2. \E n \in S : \A j \in S : ~ (<<j, n>> \in R)
    <3> HIDE DEF R
    <3> QED BY <2>1, WFMin
  <2> QED BY <2>2
<1>3. PICK n \in S : \A j \in S : <<j, n>> \notin OpToRel(<, Nat)
  BY <1>2
<1>4. ASSUME NEW j \in S PROVE n <= j
  <2>1. CASE j < n
    <3>1. <<j, n>> \in OpToRel(<, Nat)
      BY <2>1 DEF OpToRel
    <3> QED BY <1>3, <3>1
  <2> QED BY <2>1
<1> QED BY <1>4

LEMMA GreatestIs ==
  ASSUME NEW S \in SUBSET Nat, S # {}, NEW top \in Nat, \A n \in S : n <= top
  PROVE  Greatest(S) \in S /\ \A n \in S : n <= Greatest(S)
<1> DEFINE Above == {k \in Nat : \A n \in S : n <= k}
<1>1. PICK k \in Above : \A j \in Above : k <= j
  <2>1. Above \in SUBSET Nat /\ Above # {}
    OBVIOUS
  <2> QED BY <2>1, LeastNumber
<1>2. k \in S
  <2> SUFFICES ASSUME k \notin S PROVE FALSE
    OBVIOUS
  <2>1. PICK n \in S : TRUE
    OBVIOUS
  <2>2. k > 0
    BY <1>1, <2>1
  <2>3. k - 1 \in Above
    BY <1>1, <2>2
  <2> QED BY <1>1, <2>3
<1>3. \E n \in S : \A j \in S : j <= n
  BY <1>1, <1>2
<1> QED BY <1>3 DEF Greatest

LEMMA Bounded ==
  ASSUME NEW n \in Nat, NEW f \in [1..n -> Nat]
  PROVE  \E top \in Nat : \A i \in 1..n : f[i] <= top
<1> DEFINE P(k) == \E top \in Nat : \A i \in 1..k : f[i] <= top
           Unbounded == {k \in 0..n : ~P(k)}
<1> SUFFICES P(n)
  OBVIOUS
<1> HIDE DEF P
<1>1. SUFFICES ASSUME ~P(n) PROVE FALSE
  OBVIOUS
<1>2. Unbounded \in SUBSET Nat /\ Unbounded # {}
  BY <1>1
<1>3. PICK k \in Unbounded : \A j \in Unbounded : k <= j
  BY <1>2, LeastNumber
<1>4. k \in 0..n /\ ~P(k)
  BY <1>3
<1>5. P(0)
  <2>1. 0 \in Nat /\ \A i \in 1..0 : f[i] <= 0
    OBVIOUS
  <2> QED BY <2>1 DEF P
<1>6. k # 0
  BY <1>4, <1>5
<1>7. P(k - 1)
  <2>1. k - 1 \in 0..n /\ k - 1 \notin Unbounded
    BY <1>3, <1>4, <1>6
  <2> QED BY <2>1
<1>8. PICK top \in Nat : \A i \in 1..(k - 1) : f[i] <= top
  BY <1>7 DEF P
<1> DEFINE more == IF f[k] > top THEN f[k] ELSE top
<1>9. k \in 1..n /\ f[k] \in Nat
  BY <1>4, <1>6
<1>10. more \in Nat /\ more >= f[k] /\ more >= top
  BY <1>9
<1>11. ASSUME NEW i \in 1..k PROVE f[i] <= more
  <2> HIDE DEF more
  <2>1. CASE i = k
    BY <1>9, <1>10, <2>1
  <2>2. CASE i # k
    <3>1. i \in 1..(k - 1) /\ i \in 1..n
      BY <1>9, <2>2
    <3> QED BY <1>8, <1>10, <3>1
  <2> QED BY <2>1, <2>2
<1>12. P(k)
  <2> HIDE DEF more
  <2> QED BY <1>10, <1>11 DEF P
<1> QED BY <1>4, <1>12

-----------------------------------------------------------------------------
(* Dedupe over a transcript and over more of it *)

Records == [msg : Messages, agent : Agents \cup {None}, model : Models,
            stamp : [wall : Nat, zone : Int], use : [Buckets -> Nat]]

Lines(n, lines) == n \in Nat /\ lines \in [1..n -> Records]

LEMMA MaxUseIs ==
  ASSUME NEW n, NEW lines, Lines(n, lines), NEW at \in SUBSET (1..n), at # {},
         NEW b \in Buckets
  PROVE  /\ \E i \in at : lines[i].use[b] = MaxUse(lines, at, b)
         /\ \A i \in at : lines[i].use[b] <= MaxUse(lines, at, b)
         /\ MaxUse(lines, at, b) \in Nat
<1> DEFINE S == {lines[i].use[b] : i \in at}
<1>1. \A i \in 1..n : lines[i].use[b] \in Nat
  BY DEF Lines, Records
<1>2. PICK top \in Nat : \A i \in 1..n : lines[i].use[b] <= top
  <2> DEFINE f == [i \in 1..n |-> lines[i].use[b]]
  <2>1. n \in Nat /\ f \in [1..n -> Nat]
    BY <1>1 DEF Lines
  <2>2. \E top \in Nat : \A i \in 1..n : f[i] <= top
    <3> HIDE DEF f
    <3> QED BY <2>1, Bounded
  <2> QED BY <2>2
<1>3. S \in SUBSET Nat /\ S # {} /\ \A k \in S : k <= top
  BY <1>1, <1>2
<1>4. Greatest(S) \in S /\ \A k \in S : k <= Greatest(S)
  <2> HIDE DEF S
  <2> QED BY <1>3, GreatestIs
<1> QED BY <1>3, <1>4 DEF MaxUse

LEMMA PairLineIs ==
  ASSUME NEW n, NEW lines, Lines(n, lines), NEW at \in SUBSET (1..n), at # {}
  PROVE  /\ PairLine(lines, at) \in at
         /\ \A j \in at : PairTotal(lines[j]) <= PairTotal(lines[PairLine(lines, at)])
<1> DEFINE S == {PairTotal(lines[i]) : i \in at}
           T == {i \in at : \A j \in at : PairTotal(lines[j]) <= PairTotal(lines[i])}
<1>1. \A i \in 1..n : PairTotal(lines[i]) \in Nat
  <2>1. "cache_write_5m" \in Buckets /\ "cache_write_1h" \in Buckets
    BY DEF Buckets
  <2>2. \A i \in 1..n : lines[i].use \in [Buckets -> Nat]
    BY DEF Lines, Records
  <2> QED BY <2>1, <2>2 DEF PairTotal
<1>2. PICK top \in Nat : \A i \in 1..n : PairTotal(lines[i]) <= top
  <2> DEFINE f == [i \in 1..n |-> PairTotal(lines[i])]
  <2>1. n \in Nat /\ f \in [1..n -> Nat]
    BY <1>1 DEF Lines
  <2>2. \E top \in Nat : \A i \in 1..n : f[i] <= top
    <3> HIDE DEF f
    <3> QED BY <2>1, Bounded
  <2> QED BY <2>2
<1>3. Greatest(S) \in S /\ \A k \in S : k <= Greatest(S)
  <2>1. S \in SUBSET Nat /\ S # {} /\ \A k \in S : k <= top
    BY <1>1, <1>2
  <2> HIDE DEF S
  <2> QED BY <2>1, GreatestIs
<1>4. T \in SUBSET Nat /\ T # {} /\ n \in Nat /\ \A k \in T : k <= n
  <2>1. PICK i \in at : PairTotal(lines[i]) = Greatest(S)
    BY <1>3
  <2>2. \A j \in at : PairTotal(lines[j]) <= PairTotal(lines[i])
    <3> SUFFICES ASSUME NEW j \in at PROVE PairTotal(lines[j]) <= PairTotal(lines[i])
      OBVIOUS
    <3>1. PairTotal(lines[j]) \in S
      OBVIOUS
    <3> HIDE DEF S
    <3> QED BY <1>3, <2>1, <3>1
  <2>3. i \in T
    BY <2>1, <2>2
  <2>4. n \in Nat
    BY DEF Lines
  <2>5. T \subseteq 1..n
    OBVIOUS
  <2> HIDE DEF S, T
  <2>6. T \in SUBSET Nat /\ \A k \in T : k <= n
    BY <2>4, <2>5
  <2> QED BY <2>3, <2>4, <2>6
<1>5. Greatest(T) \in T
  <2> HIDE DEF T
  <2> QED BY <1>4, GreatestIs
<1> QED BY <1>5 DEF PairLine

LEMMA FirstIs ==
  ASSUME NEW at \in SUBSET Nat, at # {}
  PROVE  First(at) \in at /\ \A j \in at : First(at) <= j
<1>1. \E i \in at : \A j \in at : i <= j
  BY LeastNumber
<1> QED BY <1>1 DEF First

(* No later record of a message counts less in a cache-write bucket.       *)
SteadyLines(lines) ==
  \A i, j \in DOMAIN lines :
    i < j /\ lines[i].msg = lines[j].msg =>
      /\ lines[i].use["cache_write_5m"] <= lines[j].use["cache_write_5m"]
      /\ lines[i].use["cache_write_1h"] <= lines[j].use["cache_write_1h"]

(* What dedupe makes of more of a transcript counts no less, is dated the  *)
(* same, and names the same model unless its output has grown.             *)
LEMMA DedupeGrows ==
  ASSUME NEW n, NEW few, Lines(n, few), NEW k, NEW lines, Lines(k, lines), n <= k,
         \A i \in 1..n : few[i] = lines[i], SteadyLines(lines),
         NEW m, LinesOf(few, m) # {}, ~Conflicting(lines, LinesOf(lines, m))
  PROVE  LET old == Collapsed(few, LinesOf(few, m))
             new == Collapsed(lines, LinesOf(lines, m))
         IN  /\ new.stamp = old.stamp
             /\ \A b \in Buckets : old.use[b] \in Nat /\ new.use[b] \in Nat /\ old.use[b] <= new.use[b]
             /\ old.use["output"] = new.use["output"] => old.model = new.model
<1> DEFINE A == LinesOf(few, m)
           B == LinesOf(lines, m)
<1>1. /\ n \in Nat /\ k \in Nat /\ DOMAIN few = 1..n /\ DOMAIN lines = 1..k
      /\ A \in SUBSET (1..n) /\ B \in SUBSET (1..k) /\ A \subseteq B /\ A # {} /\ B # {}
      /\ A = {i \in B : i <= n} /\ \A i \in B : lines[i].msg = m
  BY DEF Lines, LinesOf
<1>a. Lines(n, few) /\ Lines(k, lines)
  OBVIOUS
<1> HIDE DEF A, B
<1>m. A \in SUBSET Nat /\ B \in SUBSET Nat
  BY <1>1
<1>2. First(A) = First(B)
  <2>1. First(A) \in A /\ \A j \in A : First(A) <= j
    BY <1>1, <1>m, FirstIs
  <2>2. First(B) \in B /\ \A j \in B : First(B) <= j
    BY <1>1, <1>m, FirstIs
  <2>4. First(A) \in 1..n /\ First(A) \in B /\ First(B) \in Nat
    BY <1>1, <1>m, <2>1, <2>2
  <2>5. First(B) <= First(A)
    BY <2>2, <2>4
  <2>6. First(B) <= n
    BY <1>1, <2>4, <2>5
  <2>3. First(B) <= First(A) /\ First(B) \in A
    BY <1>1, <2>2, <2>5, <2>6
  <2> QED BY <2>1, <2>3, <2>4
<1>3. First(A) \in 1..n
  BY <1>1, <1>m, FirstIs
<1>u. ASSUME NEW b \in Buckets
      PROVE  /\ \E i \in A : few[i].use[b] = MaxUse(few, A, b)
             /\ \A i \in A : few[i].use[b] <= MaxUse(few, A, b)
             /\ MaxUse(few, A, b) \in Nat
  <2>1. A \in SUBSET (1..n) /\ A # {} /\ Lines(n, few)
    BY <1>1, <1>a
  <2> QED BY <2>1, MaxUseIs
<1>v. ASSUME NEW b \in Buckets
      PROVE  /\ \E i \in B : lines[i].use[b] = MaxUse(lines, B, b)
             /\ \A i \in B : lines[i].use[b] <= MaxUse(lines, B, b)
             /\ MaxUse(lines, B, b) \in Nat
  <2>1. B \in SUBSET (1..k) /\ B # {} /\ Lines(k, lines)
    BY <1>1, <1>a
  <2> QED BY <2>1, MaxUseIs
<1>4. ASSUME NEW b \in Buckets
      PROVE  MaxUse(few, A, b) <= MaxUse(lines, B, b)
  <2>1. PICK i \in A : few[i].use[b] = MaxUse(few, A, b)
    <3>1. \E i \in A : few[i].use[b] = MaxUse(few, A, b)
      BY <1>u
    <3> QED BY <3>1
  <2>2. \A j \in B : lines[j].use[b] <= MaxUse(lines, B, b)
    BY <1>v
  <2>3. i \in B /\ i \in 1..n
    BY <1>1
  <2> QED BY <2>1, <2>2, <2>3
<1>5. ASSUME NEW b \in {"cache_write_5m", "cache_write_1h"}
      PROVE  /\ few[PairLine(few, A)].use[b] <= lines[PairLine(lines, B)].use[b]
             /\ few[PairLine(few, A)].use[b] \in Nat /\ lines[PairLine(lines, B)].use[b] \in Nat
  <2> DEFINE i == PairLine(few, A)
             j == PairLine(lines, B)
  <2>1. i \in A /\ i \in B /\ j \in B
    BY <1>1, PairLineIs
  <2>2. PairTotal(lines[i]) <= PairTotal(lines[j])
    BY <1>1, <2>1, PairLineIs
  <2> HIDE DEF i, j
  <2>4. few[i] = lines[i] /\ lines[i].msg = lines[j].msg /\ i \in 1..k /\ j \in 1..k
    BY <1>1, <2>1
  <2>3. /\ lines[i].use["cache_write_5m"] \in Nat /\ lines[j].use["cache_write_5m"] \in Nat
        /\ lines[i].use["cache_write_1h"] \in Nat /\ lines[j].use["cache_write_1h"] \in Nat
    <3>1. lines[i].use \in [Buckets -> Nat] /\ lines[j].use \in [Buckets -> Nat]
      BY <2>4 DEF Lines, Records
    <3>2. "cache_write_5m" \in Buckets /\ "cache_write_1h" \in Buckets
      BY DEF Buckets
    <3> QED BY <3>1, <3>2
  <2>5. ASSUME i < j
        PROVE  /\ lines[i].use["cache_write_5m"] <= lines[j].use["cache_write_5m"]
               /\ lines[i].use["cache_write_1h"] <= lines[j].use["cache_write_1h"]
    BY <1>1, <2>4, <2>5 DEF SteadyLines
  <2>6. ASSUME j < i
        PROVE  /\ lines[i].use["cache_write_5m"] <= lines[j].use["cache_write_5m"]
               /\ lines[i].use["cache_write_1h"] <= lines[j].use["cache_write_1h"]
    <3>1. /\ lines[j].use["cache_write_5m"] <= lines[i].use["cache_write_5m"]
          /\ lines[j].use["cache_write_1h"] <= lines[i].use["cache_write_1h"]
      BY <1>1, <2>4, <2>6 DEF SteadyLines
    <3> QED BY <2>2, <2>3, <3>1 DEF PairTotal
  <2>7. ASSUME i = j
        PROVE  /\ lines[i].use["cache_write_5m"] <= lines[j].use["cache_write_5m"]
               /\ lines[i].use["cache_write_1h"] <= lines[j].use["cache_write_1h"]
    BY <2>3, <2>7
  <2>8. i < j \/ j < i \/ i = j
    BY <1>1, <2>4
  <2>9. few[i].use[b] <= lines[j].use[b] /\ few[i].use[b] \in Nat /\ lines[j].use[b] \in Nat
    BY <2>3, <2>4, <2>5, <2>6, <2>7, <2>8
  <2> QED BY <2>9 DEF i, j
<1>6. \A b \in Buckets :
        LET old == Collapsed(few, A).use[b]
            new == Collapsed(lines, B).use[b]
        IN  old \in Nat /\ new \in Nat /\ old <= new
  <2> TAKE b \in Buckets
  <2>1. CASE b \in MaxBuckets
    <3>1. MaxUse(few, A, b) \in Nat /\ MaxUse(lines, B, b) \in Nat
      BY <1>u, <1>v
    <3> QED BY <1>4, <2>1, <3>1 DEF Collapsed
  <2>2. CASE b \notin MaxBuckets
    <3>1. b \in {"cache_write_5m", "cache_write_1h"}
      BY <2>2 DEF Buckets, MaxBuckets
    <3> QED BY <1>5, <2>2, <3>1 DEF Collapsed
  <2> QED BY <2>1, <2>2
<1>7. ASSUME MaxUse(few, A, "output") = MaxUse(lines, B, "output")
      PROVE  few[SettledLine(few, A)].model = lines[SettledLine(lines, B)].model
  <2>1. "output" \in Buckets
    BY DEF Buckets
  <2>2. SettledLine(few, A) \in A /\ few[SettledLine(few, A)].use["output"] = MaxUse(few, A, "output")
    <3>1. \E i \in A : few[i].use["output"] = MaxUse(few, A, "output")
      BY <2>1, <1>u
    <3> QED BY <3>1 DEF SettledLine
  <2>3. SettledLine(lines, B) \in B /\ lines[SettledLine(lines, B)].use["output"] = MaxUse(lines, B, "output")
    <3>1. \E i \in B : lines[i].use["output"] = MaxUse(lines, B, "output")
      BY <2>1, <1>v
    <3> QED BY <3>1 DEF SettledLine
  <2>4. ~Conflicting(lines, B)
    BY DEF B
  <2>5. SettledLine(few, A) \in B /\ few[SettledLine(few, A)] = lines[SettledLine(few, A)]
    BY <1>1, <2>2
  <2> QED BY <1>7, <2>2, <2>3, <2>4, <2>5 DEF Conflicting
<1>8. "output" \in Buckets /\ "output" \in MaxBuckets
  BY DEF Buckets, MaxBuckets
<1>9. Collapsed(lines, B).stamp = Collapsed(few, A).stamp
  BY <1>1, <1>2, <1>3 DEF Collapsed
<1>10. Collapsed(few, A).use["output"] = Collapsed(lines, B).use["output"] =>
         Collapsed(few, A).model = Collapsed(lines, B).model
  BY <1>7, <1>8 DEF Collapsed
<1> QED BY <1>6, <1>9, <1>10 DEF A, B

-----------------------------------------------------------------------------
(* The upsert *)

\* No later record of a message counts less in either cache-write bucket: where
\* one does, the stored maxima part from dedupe's pair (IngestedReshaped.cfg).
SplitSteady == \A sc \in Scripts, s \in Sessions : SteadyLines(sc[s])

\* signedRetentionPolicy: no rule is on token_usage.
NeverPruned == Cutoffs = {}

ReadBelow ==
  /\ script \in Scripts
  /\ written \in [Sessions -> Nat]
  /\ readTo \in [Sessions -> Nat]
  /\ \A s \in Sessions : readTo[s] <= written[s] /\ written[s] <= Len(script[s])

\* A message is stored in its five rows, all of one session.
StoredWhole ==
  /\ \A p \in DOMAIN ledger : p \in Messages \X Buckets
  /\ \A m \in Messages, b, c \in Buckets :
       <<m, b>> \in DOMAIN ledger =>
         /\ <<m, c>> \in DOMAIN ledger
         /\ ledger[<<m, c>>].session = ledger[<<m, b>>].session
         /\ ledger[<<m, b>>].session \in Sessions

LInv == subject = "ledger" => ReadBelow /\ StoredWhole /\ ReproducesDedupe

Read(s) == SubSeq(script[s], 1, readTo[s])

LEMMA PrefixIs ==
  ASSUME ReadBelow, NEW s \in Sessions, NEW n \in Nat, n <= Len(script[s])
  PROVE  /\ Lines(n, SubSeq(script[s], 1, n))
         /\ \A i \in 1..n : SubSeq(script[s], 1, n)[i] = script[s][i]
<1>1. script[s] \in Seq(Records)
  BY LedgerAssumption DEF ReadBelow, Records
<1> DEFINE q == script[s]
<1>2. SubSeq(q, 1, n) \in [1..n -> Records] /\ \A i \in 1..n : SubSeq(q, 1, n)[i] = q[i]
  <2> HIDE DEF q
  <2>1. q \in Seq(Records) /\ n <= Len(q)
    BY <1>1 DEF q
  <2>2. \A i \in 1..n : q[i] \in Records
    BY <2>1
  <2>3. /\ SubSeq(q, 1, n) \in Seq(Records)
        /\ Len(SubSeq(q, 1, n)) = IF 1 <= n THEN n - 1 + 1 ELSE 0
        /\ \A i \in 1..(n - 1 + 1) : SubSeq(q, 1, n)[i] = q[1 + i - 1]
    BY <2>2, SubSeqProperties
  <2>4. Len(SubSeq(q, 1, n)) = n
    BY <2>3
  <2>5. \A i \in 1..n : SubSeq(q, 1, n)[i] = q[i]
    BY <2>1, <2>3
  <2>6. SubSeq(q, 1, n) \in [1..Len(SubSeq(q, 1, n)) -> Records]
    BY <2>3, LenProperties
  <2> QED BY <2>4, <2>5, <2>6
<1> QED BY <1>2 DEF Lines

LEMMA CollapsedIs ==
  ASSUME NEW n, NEW lines, Lines(n, lines), NEW m \in MessagesOf(lines)
  PROVE  /\ LinesOf(lines, m) # {}
         /\ Collapsed(lines, LinesOf(lines, m)).msg = m
         /\ m \in Messages
<1> DEFINE at == LinesOf(lines, m)
<1>1. at # {} /\ at \in SUBSET Nat /\ \A i \in at : lines[i].msg = m /\ lines[i].msg \in Messages
  BY DEF LinesOf, MessagesOf, Lines, Records
<1>2. First(at) \in at
  <2> HIDE DEF at
  <2> QED BY <1>1, FirstIs
<1>3. Collapsed(lines, at).msg = lines[First(at)].msg
  BY DEF Collapsed
<1> QED BY <1>1, <1>2, <1>3

LEMMA ReadsMore ==
  ASSUME SplitSteady, ReadBelow, StoredWhole, ReproducesDedupe,
         NEW s \in Sessions, IngestSession(s)
  PROVE  ReadBelow' /\ StoredWhole' /\ ReproducesDedupe'
<1> DEFINE lines == OnDisk(s)
           Entry(m) == Collapsed(lines, LinesOf(lines, m))
           entries == DedupeUsageByMessageId(lines)
           mine == {e \in entries : Owned(s, e)}
           pairs == {e.msg : e \in mine} \X Buckets
           k == written[s]
           n == readTo[s]
<1>1. /\ script' = script /\ written' = written
      /\ readTo' = [readTo EXCEPT ![s] = k]
      /\ ~Refused(s)
      /\ ledger' = Written(s, entries)
  BY DEF IngestSession
<1>2. ReadBelow'
  BY <1>1 DEF ReadBelow
<1>3. /\ n \in Nat /\ k \in Nat /\ n <= k /\ k <= Len(script[s])
  BY DEF ReadBelow
<1>4. Lines(k, lines) /\ \A i \in 1..k : lines[i] = script[s][i]
  BY <1>3, PrefixIs DEF OnDisk
<1>5. n <= Len(script[s])
  <2>1. Len(script[s]) \in Nat
    BY LedgerAssumption DEF ReadBelow
  <2> HIDE DEF n, k
  <2> QED BY <1>3, <2>1
<1>6. Lines(n, Read(s)) /\ \A i \in 1..n : Read(s)[i] = script[s][i]
  BY <1>3, <1>5, PrefixIs DEF Read
<1>7. \A m \in MessagesOf(lines) :
        LinesOf(lines, m) # {} /\ Entry(m).msg = m /\ m \in Messages /\ ~Conflicting(lines, LinesOf(lines, m))
  <2> TAKE m \in MessagesOf(lines)
  <2>1. ~Conflicting(lines, LinesOf(lines, m))
    BY <1>1 DEF Refused
  <2>2. LinesOf(lines, m) # {} /\ Collapsed(lines, LinesOf(lines, m)).msg = m /\ m \in Messages
    <3> HIDE DEF lines, k
    <3> QED BY <1>4, CollapsedIs
  <2> QED BY <2>1, <2>2
<1>8. entries = {Entry(m) : m \in MessagesOf(lines)}
  BY DEF DedupeUsageByMessageId
<1>9. \A m \in {e.msg : e \in mine} :
        /\ m \in MessagesOf(lines)
        /\ (CHOOSE e \in mine : e.msg = m) = Entry(m)
        /\ Owned(s, Entry(m))
  <2> HIDE DEF lines, entries, Entry
  <2> TAKE m \in {e.msg : e \in mine}
  <2>1. PICK e \in mine : e.msg = m
    OBVIOUS
  <2>2. \A d \in mine : d.msg = m => d = Entry(m) /\ m \in MessagesOf(lines) /\ Owned(s, d)
    BY <1>7, <1>8
  <2> HIDE DEF mine
  <2> QED BY <2>1, <2>2
<1>10. \A m \in MessagesOf(lines) : Owned(s, Entry(m)) => m \in {e.msg : e \in mine}
  <2> HIDE DEF lines, entries, Entry
  <2> QED BY <1>7, <1>8
<1>11. \A e : \A m : e.msg = m /\ Owned(s, e) /\ <<m, "output">> \in DOMAIN ledger =>
                ledger[<<m, "output">>].session = s
  BY DEF Owned
<1>12. ledger' = [p \in DOMAIN ledger \cup pairs |->
                    IF p \in pairs THEN Upserted(s, Entry(p[1]), p[2]) ELSE ledger[p]]
  <2>1. ledger' = [p \in DOMAIN ledger \cup pairs |->
                    IF p \in pairs THEN Upserted(s, CHOOSE e \in mine : e.msg = p[1], p[2]) ELSE ledger[p]]
    BY <1>1, Zenon DEF Written
  <2>2. \A p \in pairs : (CHOOSE e \in mine : e.msg = p[1]) = Entry(p[1])
    <3> HIDE DEF mine, Entry
    <3> QED BY <1>9
  <2> HIDE DEF mine, Entry, pairs
  <2> QED BY <2>1, <2>2
<1>13. ASSUME NEW m \in Messages, NEW b \in Buckets, <<m, b>> \in DOMAIN ledger', <<m, b>> \notin pairs
       PROVE  /\ <<m, b>> \in DOMAIN ledger /\ ledger'[<<m, b>>] = ledger[<<m, b>>]
              /\ ledger[<<m, b>>].session # s /\ ledger[<<m, b>>].session \in Sessions
  <2>1. <<m, b>> \in DOMAIN ledger /\ ledger'[<<m, b>>] = ledger[<<m, b>>]
    <3> HIDE DEF pairs, Entry
    <3> QED BY <1>12, <1>13
  <2>2. ledger[<<m, b>>].session \in Sessions
    BY <2>1 DEF StoredWhole
  <2>3. ASSUME ledger[<<m, b>>].session = s PROVE FALSE
    <3>1. LinesOf(Read(s), m) # {}
      BY <2>1, <2>3 DEF ReproducesDedupe, Read
    <3>2. m \in MessagesOf(lines)
      <4>1. PICK i \in DOMAIN Read(s) : Read(s)[i].msg = m
        BY <3>1 DEF LinesOf
      <4>2. i \in 1..n /\ i \in 1..k /\ i \in DOMAIN lines
        BY <1>3, <1>4, <1>6, <4>1 DEF Lines
      <4>3. lines[i].msg = m
        BY <1>4, <1>6, <4>1, <4>2
      <4> HIDE DEF lines
      <4> QED BY <4>2, <4>3 DEF MessagesOf
    <3>3. Owned(s, Entry(m))
      <4>1. Entry(m).msg = m
        BY <1>7, <3>2
      <4>2. "output" \in Buckets
        BY DEF Buckets
      <4>3. <<m, "output">> \in DOMAIN ledger /\ ledger[<<m, "output">>].session = s
        BY <2>1, <2>3, <4>2 DEF StoredWhole
      <4> HIDE DEF Entry
      <4> QED BY <4>1, <4>3 DEF Owned
    <3>4. m \in {e.msg : e \in mine}
      BY <1>10, <3>2, <3>3
    <3> HIDE DEF mine
    <3> QED BY <1>13, <3>4
  <2> QED BY <2>1, <2>2, <2>3
<1>14. ASSUME NEW m \in Messages, NEW b \in Buckets, <<m, b>> \in pairs
       PROVE  /\ <<m, b>> \in DOMAIN ledger' /\ ledger'[<<m, b>>] = Fresh(s, Entry(m), b)
  <2>1. <<m, b>> \in DOMAIN ledger' /\ ledger'[<<m, b>>] = Upserted(s, Entry(m), b)
    <3> HIDE DEF pairs, Entry
    <3> QED BY <1>12, <1>14
  <2>2. CASE <<m, b>> \notin DOMAIN ledger
    <3> HIDE DEF Entry
    <3>1. Entry(m).msg = m
      <4>1. m \in {e.msg : e \in mine}
        <5> HIDE DEF mine
        <5> QED BY <1>14
      <4> QED BY <1>7, <1>9, <4>1
    <3> QED BY <2>1, <2>2, <3>1 DEF Upserted
  <2>3. CASE <<m, b>> \in DOMAIN ledger
    <3> DEFINE few == Read(s)
               old == Collapsed(few, LinesOf(few, m))
               new == Entry(m)
    <3>1. m \in MessagesOf(lines) /\ new.msg = m /\ Owned(s, new)
      <4>1. m \in {e.msg : e \in mine}
        <5> HIDE DEF mine
        <5> QED BY <1>14
      <4> QED BY <1>7, <1>9, <4>1
    <3>2. "output" \in Buckets
      BY DEF Buckets
    <3>3. <<m, "output">> \in DOMAIN ledger /\ ledger[<<m, "output">>].session = s
      <4>1. <<m, "output">> \in DOMAIN ledger
        BY <2>3, <3>2 DEF StoredWhole
      <4> HIDE DEF new
      <4> QED BY <3>1, <4>1 DEF Owned
    <3>4. ledger[<<m, b>>].session = s
      BY <3>2, <3>3 DEF StoredWhole
    <3>5. LinesOf(few, m) # {} /\ ledger[<<m, b>>] = Fresh(s, old, b)
      BY <2>3, <3>4 DEF ReproducesDedupe, Read
    <3>6. ledger[<<m, "output">>] = Fresh(s, old, "output")
      BY <3>3 DEF ReproducesDedupe, Read
    <3>7. /\ new.stamp = old.stamp
          /\ \A c \in Buckets : old.use[c] \in Nat /\ new.use[c] \in Nat /\ old.use[c] <= new.use[c]
          /\ old.use["output"] = new.use["output"] => old.model = new.model
      <4>1. \A i \in 1..n : few[i] = lines[i]
        BY <1>3, <1>4, <1>6
      <4>2. SteadyLines(lines)
        <5>1. SteadyLines(script[s])
          BY DEF SplitSteady, ReadBelow
        <5>2. DOMAIN lines = 1..k
          BY <1>4 DEF Lines
        <5>3. script[s] \in Seq(Records)
          BY LedgerAssumption DEF ReadBelow, Records
        <5>4. DOMAIN script[s] = 1..Len(script[s]) /\ Len(script[s]) \in Nat
          BY <5>3, LenProperties
        <5>5. DOMAIN lines \subseteq DOMAIN script[s]
          BY <1>3, <5>2, <5>4
        <5> HIDE DEF lines, k
        <5> QED BY <1>4, <5>1, <5>2, <5>5 DEF SteadyLines
      <4>3. ~Conflicting(lines, LinesOf(lines, m))
        BY <1>7, <3>1
      <4> HIDE DEF few, lines, n, k
      <4> QED BY <1>3, <1>4, <1>6, <3>5, <4>1, <4>2, <4>3, DedupeGrows DEF few, old, new, Entry
    <3> HIDE DEF old, new
    <3>8. Settles(new) <=> new.use["output"] > old.use["output"]
      BY <3>1, <3>3, <3>6 DEF Settles, Fresh
    <3>9. /\ Fresh(s, new, b).session = s /\ Fresh(s, old, b).session = s
          /\ Fresh(s, new, b).tokens = new.use[b] /\ Fresh(s, old, b).tokens = old.use[b]
          /\ Fresh(s, new, b).at = Canonical(new.stamp) /\ Fresh(s, old, b).at = Canonical(old.stamp)
          /\ Fresh(s, new, b).model = new.model /\ Fresh(s, old, b).model = old.model
      BY DEF Fresh
    <3>10. ~Settles(new) => new.model = old.model
      BY <3>2, <3>7, <3>8
    <3>11. (IF new.use[b] > old.use[b] THEN new.use[b] ELSE old.use[b]) = new.use[b]
      BY <3>7
    <3>12. Upserted(s, new, b) = Fresh(s, new, b)
      <4>1. Upserted(s, new, b)
              = [session |-> s, agent |-> Fresh(s, new, b).agent, model |-> new.model,
                 tokens |-> new.use[b], at |-> Canonical(new.stamp)]
        BY <2>3, <3>1, <3>5, <3>7, <3>9, <3>10, <3>11, Zenon DEF Upserted
      <4> QED BY <4>1, <3>9 DEF Fresh
    <3> QED BY <2>1, <3>12 DEF new
  <2> QED BY <2>2, <2>3
<1>15. \A p \in DOMAIN ledger' : p \in Messages \X Buckets
  <2>1. \A p \in pairs : p \in Messages \X Buckets
    <3> HIDE DEF mine
    <3> QED BY <1>7, <1>9
  <2>2. DOMAIN ledger' = DOMAIN ledger \cup pairs
    <3> HIDE DEF pairs, Entry
    <3> QED BY <1>12
  <2> HIDE DEF pairs
  <2> QED BY <2>1, <2>2 DEF StoredWhole
<1>16. ASSUME NEW m \in Messages, NEW b \in Buckets, NEW c \in Buckets, <<m, b>> \in DOMAIN ledger'
       PROVE  /\ <<m, c>> \in DOMAIN ledger'
              /\ ledger'[<<m, c>>].session = ledger'[<<m, b>>].session
              /\ ledger'[<<m, b>>].session \in Sessions
  <2>1. CASE <<m, b>> \in pairs
    <3>1. <<m, c>> \in pairs
      <4> HIDE DEF mine
      <4> QED BY <2>1
    <3>2. /\ ledger'[<<m, b>>] = Fresh(s, Entry(m), b)
          /\ <<m, c>> \in DOMAIN ledger' /\ ledger'[<<m, c>>] = Fresh(s, Entry(m), c)
      <4> HIDE DEF pairs, Entry
      <4> QED BY <1>14, <2>1, <3>1
    <3> HIDE DEF Entry
    <3> QED BY <3>2 DEF Fresh
  <2>2. CASE <<m, b>> \notin pairs
    <3>1. <<m, c>> \notin pairs
      <4> HIDE DEF mine
      <4> QED BY <2>2
    <3>2. DOMAIN ledger' = DOMAIN ledger \cup pairs
      <4> HIDE DEF pairs, Entry
      <4> QED BY <1>12
    <3>3. <<m, c>> \in DOMAIN ledger /\ ledger[<<m, c>>].session = ledger[<<m, b>>].session
      BY <1>13, <1>16, <2>2 DEF StoredWhole
    <3> HIDE DEF pairs, Entry
    <3> QED BY <1>13, <1>16, <2>2, <3>1, <3>2, <3>3
  <2> QED BY <2>1, <2>2
<1>17. StoredWhole'
  BY <1>15, <1>16 DEF StoredWhole
<1>18. ASSUME NEW m \in Messages, NEW b \in Buckets, <<m, b>> \in DOMAIN ledger'
       PROVE  LET t == ledger'[<<m, b>>].session
                  seen == SubSeq(script'[t], 1, readTo'[t])
              IN  /\ LinesOf(seen, m) # {}
                  /\ ledger'[<<m, b>>] = Fresh(t, Collapsed(seen, LinesOf(seen, m)), b)
  <2>1. CASE <<m, b>> \in pairs
    <3>1. ledger'[<<m, b>>] = Fresh(s, Entry(m), b)
      <4> HIDE DEF pairs, Entry
      <4> QED BY <1>14, <2>1
    <3>2. ledger'[<<m, b>>].session = s
      <4> HIDE DEF Entry
      <4> QED BY <3>1 DEF Fresh
    <3>3. SubSeq(script'[s], 1, readTo'[s]) = lines
      BY <1>1 DEF ReadBelow, OnDisk
    <3>4. LinesOf(lines, m) # {}
      <4>1. m \in {e.msg : e \in mine}
        <5> HIDE DEF mine
        <5> QED BY <2>1
      <4> QED BY <1>7, <1>9, <4>1
    <3> HIDE DEF lines
    <3> QED BY <3>1, <3>2, <3>3, <3>4
  <2>2. CASE <<m, b>> \notin pairs
    <3> DEFINE t == ledger[<<m, b>>].session
    <3>1. /\ <<m, b>> \in DOMAIN ledger /\ ledger'[<<m, b>>] = ledger[<<m, b>>]
          /\ t # s /\ t \in Sessions
      BY <1>13, <1>18, <2>2
    <3>2. script'[t] = script[t] /\ readTo'[t] = readTo[t]
      <4> HIDE DEF t
      <4> QED BY <1>1, <3>1 DEF ReadBelow
    <3>3. /\ LinesOf(Read(t), m) # {}
          /\ ledger[<<m, b>>] = Fresh(t, Collapsed(Read(t), LinesOf(Read(t), m)), b)
      BY <3>1 DEF ReproducesDedupe, Read
    <3> QED BY <3>1, <3>2, <3>3 DEF Read
  <2> QED BY <2>1, <2>2
<1>19. ReproducesDedupe'
  <2> SUFFICES ASSUME NEW p \in DOMAIN ledger'
               PROVE  LET t == ledger'[p].session
                          seen == SubSeq(script'[t], 1, readTo'[t])
                      IN  /\ LinesOf(seen, p[1]) # {}
                          /\ ledger'[p] = Fresh(t, Collapsed(seen, LinesOf(seen, p[1])), p[2])
    BY DEF ReproducesDedupe
  <2>1. PICK m \in Messages, b \in Buckets : p = <<m, b>>
    BY <1>15
  <2> QED BY <1>18, <2>1
<1> QED BY <1>2, <1>17, <1>19

\* However often and however far the transcripts were read before, a stored
\* message is what dedupe computes over the records of its session read last.
THEOREM UpsertConverges ==
  ASSUME SplitSteady, NeverPruned
  PROVE  IngestedSpec => []ReproducesMessages
<1>1. IngestedInit => LInv
  <2> SUFFICES ASSUME IngestedInit, subject = "ledger" PROVE ReadBelow /\ StoredWhole /\ ReproducesDedupe
    BY DEF LInv
  <2>1. Init
    BY DEF IngestedInit
  <2>2. script \in Scripts /\ \A s \in Sessions : Len(script[s]) \in Nat
    BY <2>1, LedgerAssumption DEF Init
  <2>3. ReadBelow
    BY <2>1, <2>2 DEF Init, ReadBelow
  <2>4. DOMAIN ledger = {}
    BY <2>1 DEF Init
  <2> QED BY <2>3, <2>4 DEF StoredWhole, ReproducesDedupe
<1>2. LInv /\ [IngestedNext]_all => LInv'
  <2> SUFFICES ASSUME LInv, [IngestedNext]_all, subject' = "ledger"
               PROVE  ReadBelow' /\ StoredWhole' /\ ReproducesDedupe'
    BY DEF LInv
  <2>1. subject = "ledger" /\ (Next \/ UNCHANGED vars)
    BY DEF IngestedNext, all
  <2>2. ReadBelow /\ StoredWhole /\ ReproducesDedupe
    BY <2>1 DEF LInv
  <2>3. ASSUME UNCHANGED <<script, ledger, readTo>>, ReadBelow' PROVE StoredWhole' /\ ReproducesDedupe'
    BY <2>2, <2>3 DEF StoredWhole, ReproducesDedupe
  <2>4. ASSUME NEW s \in Sessions, AppendRecord(s) PROVE ReadBelow' /\ UNCHANGED <<script, ledger, readTo>>
    <3>1. /\ written[s] \in Nat /\ Len(script[s]) \in Nat
      BY <2>2, LedgerAssumption DEF ReadBelow
    <3> QED BY <2>2, <2>4, <3>1 DEF AppendRecord, ReadBelow
  <2>5. ASSUME UNCHANGED <<script, written, ledger, readTo>> PROVE ReadBelow'
    BY <2>2, <2>5 DEF ReadBelow
  <2>6. ASSUME NEW slice, NEW st, DeleteRate(slice, st) PROVE UNCHANGED <<script, written, ledger, readTo>>
    BY <2>6 DEF DeleteRate, Repriced
  <2>7. ASSUME NEW slice, NEW st, NEW rate, InsertRate(slice, st, rate) \/ SetRate(slice, st, rate)
        PROVE  UNCHANGED <<script, written, ledger, readTo>>
    BY <2>7 DEF InsertRate, SetRate, Repriced
  <2>8. ASSUME ReadSummary \/ Restart \/ UNCHANGED vars PROVE UNCHANGED <<script, written, ledger, readTo>>
    BY <2>8 DEF ReadSummary, Restart, vars
  <2>9. ASSUME NEW s \in Sessions, IngestSession(s) PROVE ReadBelow' /\ StoredWhole' /\ ReproducesDedupe'
    BY <2>2, <2>9, ReadsMore
  <2> QED BY <2>1, <2>3, <2>4, <2>5, <2>6, <2>7, <2>8, <2>9 DEF Next, NeverPruned
<1>3. LInv => ReproducesMessages
  BY DEF LInv, ReproducesMessages
<1> QED BY <1>1, <1>2, <1>3, PTL DEF IngestedSpec

-----------------------------------------------------------------------------
(* The reading *)

\* The lines the writer may write, and files of them with their names.
W == UNION {UNION {Writable(u, p) : p \in Reading!Parts} : u \in Sessions}
Texts == [part : Reading!Parts, lines : Seq(W)]

\* What of the copy in s is read, now that it rests.
Taken(s, u) ==
  {p \in Reading!Of(s, u) \ {"notes"} :
     /\ Reading!Readable(s, u, p)
     /\ Len(files[<<s, u, p>>]) \in (IF Reading!Transcript(p) THEN 1 ELSE 0)..Cap}
Text(s, u, p) == [part |-> p, lines |-> files[<<s, u, p>>]]

FilesKept ==
  /\ \A path \in DOMAIN files :
       path \in Slugs \X Sessions \X Reading!Parts /\ files[path] \in Seq(W)
  /\ fresh \subseteq Sessions
  /\ \A u \in fresh : Reading!Listed(u) # {}

Known(row) ==
  /\ row.agents \in [DOMAIN row.agents -> [from : Nat, to : Nat]]
  /\ row.tokens \in [DOMAIN row.tokens -> Nat \X Nat]
  /\ row.dropped \in Nat

RowsKept ==
  /\ DOMAIN stored = Sessions /\ DOMAIN verdict = Sessions /\ DOMAIN origin = Sessions
  /\ \A u \in Sessions : stored[u] # None => Known(stored[u])

Looked ==
  CASE reading.at = "main" -> {}
    [] reading.at = "dir" -> {"main"}
    [] reading.at = "walk" -> Reading!Parts \ reading.left

ReadingTyped ==
  reading # None =>
    /\ reading \in [at : {"main", "dir", "walk"}, slug : Slugs, session : Sessions,
                    left : SUBSET Reading!Under, got : Seq(Texts), partial : BOOLEAN]
    /\ reading.at = "main" => reading.got = << >>

ReadingFaithful ==
  reading # None /\ reading.session \in fresh =>
    LET s == reading.slug
        u == reading.session
    IN  /\ s = Reading!Winner(u)
        /\ Reading!RangeOf(reading.got) = {Text(s, u, p) : p \in Taken(s, u) \cap Looked}
        /\ reading.at # "main" => reading.partial = (Len(files[<<s, u, "main">>]) > Cap)

-----------------------------------------------------------------------------
LEMMA SameCardinality == \A S : Reading!Cardinality(S) = Cardinality(S)
BY DEF Reading!Cardinality, Cardinality

LEMMA SetMinIs ==
  ASSUME NEW S \in SUBSET Nat, S # {}
  PROVE  Reading!SetMin(S) \in S /\ \A n \in S : Reading!SetMin(S) <= n
<1>1. \E i \in S : \A j \in S : i <= j
  BY LeastNumber
<1> QED BY <1>1 DEF Reading!SetMin

LEMMA SetMaxIs ==
  ASSUME NEW S \in SUBSET Nat, S # {}, NEW top \in Nat, \A n \in S : n <= top
  PROVE  Reading!SetMax(S) \in S /\ \A n \in S : n <= Reading!SetMax(S)
<1>1. Greatest(S) \in S /\ \A n \in S : n <= Greatest(S)
  BY GreatestIs
<1>2. \A n \in S : Greatest(S) >= n
  BY <1>1
<1> QED BY <1>1, <1>2 DEF Reading!SetMax

LEMMA WinnerIs ==
  ASSUME NEW u \in Sessions, Reading!Listed(u) # {}
  PROVE  Reading!Winner(u) \in Reading!Listed(u) /\ Reading!Winner(u) \in Slugs
<1>1. Reading!Listed(u) \in SUBSET Nat /\ Reading!Listed(u) \in SUBSET Slugs
  BY ReadingAssumption DEF Reading!Configured, Reading!Listed
<1>2. Reading!SetMin(Reading!Listed(u)) \in Reading!Listed(u)
  BY <1>1, SetMinIs
<1> QED BY <1>1, <1>2 DEF Reading!Winner

\* Nothing happens to the files of u.
Rests(u) ==
  /\ hidden' = hidden
  /\ \A s \in Slugs, p \in Reading!Parts :
       /\ <<s, u, p>> \in DOMAIN files' <=> <<s, u, p>> \in DOMAIN files
       /\ <<s, u, p>> \in DOMAIN files => files'[<<s, u, p>>] = files[<<s, u, p>>]

LEMMA LegibleIs ==
  ASSUME NEW u
  PROVE  Reading!Legible(u) = {Text(Reading!Winner(u), u, p) : p \in Taken(Reading!Winner(u), u)}
BY DEF Reading!Legible, Text, Taken

LEMMA RestsKeeps ==
  ASSUME NEW u \in Sessions, Rests(u)
  PROVE  /\ Reading!Listed(u)' = Reading!Listed(u)
         /\ Reading!Winner(u)' = Reading!Winner(u)
         /\ \A s \in Slugs : Taken(s, u)' = Taken(s, u)
         /\ \A s \in Slugs : \A p \in Taken(s, u) : Text(s, u, p)' = Text(s, u, p)
<1>1. \A s \in Slugs : Reading!Of(s, u)' = Reading!Of(s, u)
  BY DEF Rests, Reading!Of
<1>2. \A s, p : Reading!Readable(s, u, p)' = Reading!Readable(s, u, p)
  BY DEF Rests, Reading!Readable
<1>3. Reading!Listed(u)' = Reading!Listed(u)
  BY <1>1, <1>2 DEF Reading!Listed
<1>4. Reading!Winner(u)' = Reading!Winner(u)
  BY <1>3 DEF Reading!Winner, Reading!SetMin
<1>5. \A s \in Slugs : \A p \in Reading!Of(s, u) : files'[<<s, u, p>>] = files[<<s, u, p>>]
  BY DEF Reading!Of, Rests
<1>6. \A s \in Slugs : Taken(s, u)' = Taken(s, u)
  BY <1>1, <1>2, <1>5 DEF Taken, Reading!Transcript
<1>7. \A s \in Slugs : \A p \in Taken(s, u) : Text(s, u, p)' = Text(s, u, p)
  BY <1>5 DEF Taken, Text
<1> QED BY <1>3, <1>4, <1>6, <1>7

LEMMA RestsReadTruly ==
  ASSUME NEW u \in Sessions, Rests(u), Reading!Listed(u) # {},
         verdict'[u] = verdict[u], stored'[u] = stored[u], Reading!TrulyRead(u)
  PROVE  Reading!TrulyRead(u)'
<1>1. Reading!Winner(u)' = Reading!Winner(u) /\ Reading!Winner(u) \in Slugs
  BY WinnerIs, RestsKeeps
<1>2. PICK s \in Slugs : s = Reading!Winner(u)
  BY <1>1
<1>3. s \in Reading!Listed(u) /\ Reading!Winner(u)' = s
  BY <1>1, <1>2, WinnerIs
<1>4. Reading!Legible(u)' = Reading!Legible(u)
  <2>1. Reading!Legible(u) = {Text(s, u, p) : p \in Taken(s, u)}
    BY <1>2, LegibleIs
  <2>2. Reading!Legible(u)' = {Text(s, u, p)' : p \in Taken(s, u)'}
    BY <1>3 DEF Reading!Legible, Taken, Text
  <2>3. Taken(s, u)' = Taken(s, u) /\ \A p \in Taken(s, u) : Text(s, u, p)' = Text(s, u, p)
    BY RestsKeeps
  <2> QED BY <2>1, <2>2, <2>3
<1>5. files'[<<s, u, "main">>] = files[<<s, u, "main">>]
  <2>1. "main" \in Reading!Parts /\ <<s, u, "main">> \in DOMAIN files
    BY <1>3 DEF Reading!Listed, Reading!Of
  <2> QED BY <2>1 DEF Rests
<1>6. Reading!Readable(s, u, "main")' = Reading!Readable(s, u, "main")
  BY DEF Rests, Reading!Readable
<1> QED BY <1>2, <1>3, <1>4, <1>5, <1>6 DEF Reading!TrulyRead

LEMMA WriteRests ==
  ASSUME FilesKept, NEW s \in Slugs, NEW u \in Sessions, NEW p \in Reading!Parts,
         Reading!Write(s, u, p)
  PROVE  /\ \A path \in DOMAIN files' :
              path \in Slugs \X Sessions \X Reading!Parts /\ files'[path] \in Seq(W)
         /\ fresh' = fresh \ {u}
         /\ UNCHANGED <<hidden, reading, stored, verdict, origin>>
         /\ \A v \in fresh' : Rests(v)
<1> DEFINE path == <<s, u, p>>
           Put(ls) == files' = [f \in DOMAIN files \cup {path} |-> IF f = path THEN ls ELSE files[f]]
<1>1. fresh' = fresh \ {u} /\ UNCHANGED <<hidden, reading, stored, verdict, origin>>
  BY DEF Reading!Write, Reading!Changes
<1>2. PICK ls \in Seq(W) : Put(ls)
  <2>1. << >> \in Seq(W)
    OBVIOUS
  <2>2. path \in DOMAIN files => files[path] \in Seq(W)
    BY DEF FilesKept
  <2>3. \A line \in Writable(u, p) : line \in W
    BY DEF W
  <2>4. \A line \in Writable(u, p), ls \in Seq(W) : Append(ls, line) \in Seq(W)
    BY <2>3
  <2>5. \/ Put(<< >>)
        \/ \E line \in Writable(u, p) : Put(Append(IF path \in DOMAIN files THEN files[path] ELSE << >>, line))
    BY DEF Reading!Write
  <2> HIDE DEF Put
  <2> QED BY <2>1, <2>2, <2>4, <2>5
<1>3. \A f \in DOMAIN files' : f \in Slugs \X Sessions \X Reading!Parts /\ files'[f] \in Seq(W)
  BY <1>2 DEF FilesKept
<1>4. ASSUME NEW v \in fresh' PROVE Rests(v)
  <2>1. v # u
    BY <1>1
  <2>2. \A t, q : <<t, v, q>> # path
    BY <2>1
  <2>3. \A t, q : <<t, v, q>> \in DOMAIN files' <=> <<t, v, q>> \in DOMAIN files
    BY <1>2, <2>2
  <2>4. \A t, q : <<t, v, q>> \in DOMAIN files => files'[<<t, v, q>>] = files[<<t, v, q>>]
    BY <1>2, <2>2
  <2> QED BY <1>1, <2>3, <2>4 DEF Rests
<1> QED BY <1>1, <1>3, <1>4

LEMMA UserRests ==
  ASSUME FilesKept,
         \/ \E s, t \in Slugs : Reading!CopyProject(s, t)
         \/ \E s \in Slugs, u, v \in Sessions : Reading!CopyTranscript(s, u, v)
         \/ \E s \in Slugs : Reading!RemoveProject(s) \/ Reading!Hide(<<s>>)
         \/ \E f \in DOMAIN files : Reading!Hide(f)
         \/ Reading!Heal
  PROVE  /\ \A path \in DOMAIN files' :
              path \in Slugs \X Sessions \X Reading!Parts /\ files'[path] \in Seq(W)
         /\ fresh' \subseteq fresh
         /\ UNCHANGED <<reading, stored, verdict, origin>>
         /\ \A v \in fresh' : Rests(v)
<1> DEFINE Held(fs) == \A path \in DOMAIN fs :
                         path \in Slugs \X Sessions \X Reading!Parts /\ fs[path] \in Seq(W)
           Goal == /\ Held(files') /\ fresh' \subseteq fresh
                   /\ UNCHANGED <<reading, stored, verdict, origin>>
                   /\ \A v \in fresh' : Rests(v)
<1>0. fresh \ Sessions = {} /\ Held(files)
  BY DEF FilesKept
<1>1. ASSUME NEW s \in Slugs, NEW t \in Slugs, Reading!CopyProject(s, t) PROVE Goal
  <2>1. fresh' = {} /\ UNCHANGED <<reading, stored, verdict, origin>>
    BY <1>0, <1>1 DEF Reading!CopyProject, Reading!Changes
  <2> DEFINE copied == {<<t, f[2], f[3]>> : f \in {g \in DOMAIN files : g[1] = s}}
  <2>2. files' = [f \in DOMAIN files \cup copied |->
                    files[IF f \in DOMAIN files THEN f ELSE <<s, f[2], f[3]>>]]
    BY <1>1 DEF Reading!CopyProject, Reading!Keeps
  <2>3. ASSUME NEW f \in copied
        PROVE  f \in Slugs \X Sessions \X Reading!Parts /\ <<s, f[2], f[3]>> \in DOMAIN files
    <3>1. PICK g \in DOMAIN files : g[1] = s /\ f = <<t, g[2], g[3]>>
      BY <2>3
    <3>2. g \in Slugs \X Sessions \X Reading!Parts
      BY <1>0
    <3>3. g = <<g[1], g[2], g[3]>>
      BY <3>2
    <3> QED BY <3>1, <3>2, <3>3
  <2> HIDE DEF copied
  <2>4. Held(files')
    BY <1>0, <2>2, <2>3
  <2> QED BY <2>1, <2>4
<1>2. ASSUME NEW s \in Slugs, NEW u \in Sessions, NEW v \in Sessions, Reading!CopyTranscript(s, u, v)
      PROVE  Goal
  <2>1. fresh' = fresh \ {v} /\ UNCHANGED <<reading, stored, verdict, origin, hidden>>
    BY <1>2 DEF Reading!CopyTranscript, Reading!Changes, Reading!Keeps
  <2>2. /\ files' = [f \in DOMAIN files \cup {<<s, v, "main">>} |->
                       files[IF f \in DOMAIN files THEN f ELSE <<s, u, "main">>]]
        /\ <<s, u, "main">> \in DOMAIN files
    BY <1>2 DEF Reading!CopyTranscript, Reading!Keeps
  <2>3. <<s, v, "main">> \in Slugs \X Sessions \X Reading!Parts
    BY DEF Reading!Parts
  <2>4. Held(files')
    BY <1>0, <2>2, <2>3
  <2>5. ASSUME NEW w \in fresh' PROVE Rests(w)
    <3>1. \A t, q : <<t, w, q>> # <<s, v, "main">>
      BY <2>1
    <3>2. \A t, q : <<t, w, q>> \in DOMAIN files' <=> <<t, w, q>> \in DOMAIN files
      BY <2>2, <3>1
    <3>3. \A t, q : <<t, w, q>> \in DOMAIN files => files'[<<t, w, q>>] = files[<<t, w, q>>]
      BY <2>2
    <3> QED BY <2>1, <3>2, <3>3 DEF Rests
  <2> QED BY <2>1, <2>4, <2>5
<1>3. ASSUME NEW s \in Slugs, Reading!RemoveProject(s) PROVE Goal
  <2>1. fresh' = {} /\ UNCHANGED <<reading, stored, verdict, origin>>
    BY <1>0, <1>3 DEF Reading!RemoveProject, Reading!Changes
  <2>2. files' = [f \in {g \in DOMAIN files : g[1] # s} |->
                    files[IF f \in DOMAIN files THEN f ELSE f]]
    BY <1>3 DEF Reading!RemoveProject, Reading!Keeps
  <2>3. Held(files')
    BY <1>0, <2>2
  <2> QED BY <2>1, <2>3
<1>4. ASSUME NEW f, Reading!Hide(f) PROVE Goal
  BY <1>0, <1>4 DEF Reading!Hide, Reading!Changes
<1>5. ASSUME Reading!Heal PROVE Goal
  BY <1>0, <1>5 DEF Reading!Heal
<1> HIDE DEF Goal
<1>6. Goal
  BY <1>1, <1>2, <1>3, <1>4, <1>5
<1> QED BY <1>6 DEF Goal

LEMMA WorldRests ==
  ASSUME FilesKept, Reading!Environment
  PROVE  /\ FilesKept' /\ fresh' \subseteq fresh
         /\ UNCHANGED <<reading, stored, verdict, origin>>
         /\ \A v \in fresh' : Rests(v)
<1>1. /\ \A path \in DOMAIN files' :
           path \in Slugs \X Sessions \X Reading!Parts /\ files'[path] \in Seq(W)
      /\ fresh' \subseteq fresh
      /\ UNCHANGED <<reading, stored, verdict, origin>>
      /\ \A v \in fresh' : Rests(v)
  BY WriteRests, UserRests DEF Reading!Environment
<1>2. fresh' \subseteq Sessions
  BY <1>1 DEF FilesKept
<1>3. \A u \in fresh' : Reading!Listed(u)' # {}
  BY <1>1, <1>2, RestsKeeps DEF FilesKept
<1> QED BY <1>1, <1>2, <1>3 DEF FilesKept

RBody ==
  /\ FilesKept /\ RowsKept /\ ReadingTyped /\ ReadingFaithful
  /\ Reading!NeverFused /\ Reading!ReadTruly

\* A step that takes from "fresh" what it touches.
LEMMA RestKeeps ==
  ASSUME RBody, FilesKept', fresh' \subseteq fresh,
         UNCHANGED <<reading, stored, verdict, origin>>, \A v \in fresh' : Rests(v)
  PROVE  RBody'
<1>1. /\ FilesKept' /\ fresh' \subseteq fresh
      /\ UNCHANGED <<reading, stored, verdict, origin>>
      /\ \A v \in fresh' : Rests(v)
  OBVIOUS
<1>2. RowsKept' /\ ReadingTyped' /\ Reading!NeverFused'
  BY <1>1 DEF RBody, RowsKept, Known, ReadingTyped, Texts, Reading!NeverFused
<1>3. fresh \subseteq Sessions /\ \A u \in fresh : Reading!Listed(u) # {}
  BY DEF RBody, FilesKept
<1>4. Reading!ReadTruly'
  <2> SUFFICES ASSUME NEW u \in fresh', (reading = None \/ reading.session # u)' PROVE Reading!TrulyRead(u)'
    BY DEF Reading!ReadTruly
  <2>1. Reading!TrulyRead(u)
    BY <1>1 DEF RBody, Reading!ReadTruly
  <2> QED BY <1>1, <1>3, <2>1, RestsReadTruly
<1>5. ReadingFaithful'
  <2> SUFFICES ASSUME reading # None, reading.session \in fresh' PROVE ReadingFaithful'
    BY <1>1 DEF ReadingFaithful
  <2>1. PICK u \in Sessions, s \in Slugs : u = reading.session /\ s = reading.slug
    BY DEF RBody, ReadingTyped
  <2>2. u \in fresh /\ Rests(u) /\ Reading!Listed(u) # {}
    BY <1>1, <1>3, <2>1
  <2>3. /\ s = Reading!Winner(u)
        /\ Reading!RangeOf(reading.got) = {Text(s, u, p) : p \in Taken(s, u) \cap Looked}
        /\ reading.at # "main" => reading.partial = (Len(files[<<s, u, "main">>]) > Cap)
    BY <2>1, <2>2 DEF RBody, ReadingFaithful
  <2>4. Reading!Winner(u)' = s /\ s \in Reading!Listed(u)
    BY <2>2, <2>3, RestsKeeps, WinnerIs
  <2>5. files'[<<s, u, "main">>] = files[<<s, u, "main">>]
    <3>1. "main" \in Reading!Parts /\ <<s, u, "main">> \in DOMAIN files
      BY <2>4 DEF Reading!Listed, Reading!Of
    <3> QED BY <2>2, <3>1 DEF Rests
  <2>6. Looked' = Looked
    BY <1>1 DEF Looked
  <2>7. {Text(s, u, p) : p \in Taken(s, u) \cap Looked}' = {Text(s, u, p) : p \in Taken(s, u) \cap Looked}
    <3>1. Taken(s, u)' = Taken(s, u) /\ \A p \in Taken(s, u) : Text(s, u, p)' = Text(s, u, p)
      BY <2>2, RestsKeeps
    <3> QED BY <2>6, <3>1
  <2>8. Reading!RangeOf(reading.got)' = Reading!RangeOf(reading.got)
    BY <1>1
  <2> QED BY <1>1, <2>1, <2>3, <2>4, <2>5, <2>7, <2>8 DEF ReadingFaithful
<1> QED BY <1>1, <1>2, <1>4, <1>5 DEF RBody

LEMMA WorldKeeps ==
  ASSUME RBody, Reading!Environment
  PROVE  RBody'
BY WorldRests, RestKeeps DEF RBody

LEMMA StandsStill ==
  ASSUME RBody, UNCHANGED <<files, hidden, reading, stored, verdict, fresh, origin>>
  PROVE  RBody'
<1>1. \A u \in Sessions : Rests(u)
  BY DEF Rests
<1>2. \A u \in fresh : Reading!Listed(u)' # {}
  BY <1>1, RestsKeeps DEF RBody, FilesKept
<1>3. FilesKept'
  BY <1>2 DEF RBody, FilesKept
<1>4. \A u \in fresh' : Rests(u)
  BY <1>1 DEF RBody, FilesKept
<1> QED BY <1>3, <1>4, RestKeeps

-----------------------------------------------------------------------------
(* The reader's steps *)

LEMMA RangeOfAppend ==
  ASSUME NEW T, NEW seq \in Seq(T), NEW e \in T
  PROVE  Reading!RangeOf(Append(seq, e)) = Reading!RangeOf(seq) \cup {e}
<1>1. /\ DOMAIN seq = 1..Len(seq) /\ Len(seq) \in Nat
      /\ DOMAIN Append(seq, e) = 1..(Len(seq) + 1)
      /\ \A i \in 1..Len(seq) : Append(seq, e)[i] = seq[i]
      /\ Append(seq, e)[Len(seq) + 1] = e
  OBVIOUS
<1>2. 1..(Len(seq) + 1) = 1..Len(seq) \cup {Len(seq) + 1}
  BY <1>1
<1> QED BY <1>1, <1>2 DEF Reading!RangeOf

LEMMA AddsIs ==
  ASSUME FilesKept, ReadingTyped, reading # None, NEW p \in Reading!Parts,
         NEW s, s = reading.slug, NEW u, u = reading.session
  PROVE  /\ Reading!Adds(p) \in Seq(Texts)
         /\ Reading!RangeOf(Reading!Adds(p))
              = Reading!RangeOf(reading.got) \cup {Text(s, u, q) : q \in Taken(s, u) \cap {p}}
<1>1. s \in Slugs /\ u \in Sessions /\ reading.got \in Seq(Texts)
  BY DEF ReadingTyped
<1>2. Reading!Now[1] = s /\ Reading!Now[2] = u /\ <<Reading!Now[1], Reading!Now[2], p>> = <<s, u, p>>
  BY DEF Reading!Now
<1>3. p \in Reading!Of(s, u) => files[<<s, u, p>>] \in Seq(W)
  BY DEF Reading!Of, FilesKept
<1>4. Reading!Takes(p) <=> p \in Taken(s, u)
  <2>1. p \in Reading!Of(s, u) => Len(files[<<s, u, p>>]) \in Nat
    BY <1>3
  <2>2. p \in Reading!Of(s, u) => (files[<<s, u, p>>] # << >> <=> Len(files[<<s, u, p>>]) >= 1)
    BY <1>3
  <2>3. Cap \in Nat
    BY ReadingAssumption DEF Reading!Configured
  <2> QED BY <1>2, <2>1, <2>2, <2>3 DEF Reading!Takes, Reading!There, Reading!Oversize, Reading!LinesOf, Taken
<1>5. CASE Reading!Takes(p)
  <2>1. Reading!Adds(p) = Append(reading.got, Text(s, u, p))
    BY <1>2, <1>5 DEF Reading!Adds, Reading!LinesOf, Text
  <2>2. Text(s, u, p) \in Texts
    BY <1>3, <1>4, <1>5 DEF Text, Texts, Taken
  <2>3. Reading!RangeOf(Append(reading.got, Text(s, u, p))) = Reading!RangeOf(reading.got) \cup {Text(s, u, p)}
    BY <1>1, <2>2, RangeOfAppend
  <2>4. Taken(s, u) \cap {p} = {p}
    BY <1>4, <1>5
  <2> QED BY <1>1, <2>1, <2>2, <2>3, <2>4
<1>6. CASE ~Reading!Takes(p)
  <2>1. Reading!Adds(p) = reading.got
    BY <1>6 DEF Reading!Adds
  <2> QED BY <1>1, <1>4, <1>6, <2>1
<1> QED BY <1>5, <1>6

\* A step of the reader that only moves the reading.
LEMMA StepKeeps ==
  ASSUME RBody, UNCHANGED <<files, hidden, stored, verdict, origin>>,
         fresh' \subseteq Sessions, \A u \in fresh' : Reading!Listed(u) # {},
         reading' # None, \A u \in fresh' : u \in fresh \/ u = reading'.session,
         reading # None => reading'.session = reading.session,
         ReadingTyped', ReadingFaithful'
  PROVE  RBody'
<1>1. \A u \in Sessions : Rests(u)
  BY DEF Rests
<1>2. FilesKept'
  <2>1. \A u \in fresh' : Reading!Listed(u)' # {}
    BY <1>1, RestsKeeps
  <2> QED BY <2>1 DEF RBody, FilesKept
<1>3. RowsKept' /\ Reading!NeverFused'
  BY DEF RBody, RowsKept, Known, Reading!NeverFused
<1>4. Reading!ReadTruly'
  <2> SUFFICES ASSUME NEW u \in fresh', reading'.session # u PROVE Reading!TrulyRead(u)'
    BY DEF Reading!ReadTruly
  <2>1. Reading!TrulyRead(u)
    BY DEF RBody, Reading!ReadTruly
  <2> QED BY <1>1, <2>1, RestsReadTruly
<1> QED BY <1>2, <1>3, <1>4 DEF RBody

\* The absence of a reading is none.
NoneIsNoReading ==
  \A a, s, u, l, g, p :
    None # [at |-> a, slug |-> s, session |-> u, left |-> l, got |-> g, partial |-> p]

LEMMA BeginKeeps ==
  ASSUME NoneIsNoReading, RBody, NEW u \in Sessions, Reading!Begin(u)
  PROVE  RBody'
<1>1. /\ UNCHANGED <<files, hidden, stored, verdict, origin>>
      /\ fresh' = fresh \cup {u} /\ reading = None /\ Reading!Listed(u) # {}
      /\ reading' = [at |-> "main", slug |-> Reading!Winner(u), session |-> u,
                     left |-> {}, got |-> << >>, partial |-> FALSE]
  BY DEF Reading!Begin, Reading!disk
<1>2. reading' # None
  BY <1>1 DEF NoneIsNoReading
<1>3. ReadingTyped'
  BY <1>1, WinnerIs DEF ReadingTyped
<1>4. Reading!Winner(u)' = Reading!Winner(u)
  BY <1>1, RestsKeeps DEF Rests
<1>5. ReadingFaithful'
  <2>1. Looked' = {} /\ reading'.got = << >> /\ reading'.at = "main"
    BY <1>1 DEF Looked
  <2>2. Reading!RangeOf(reading'.got) = {}
    BY <2>1 DEF Reading!RangeOf
  <2>3. reading'.slug = Reading!Winner(u)' /\ reading'.session = u
    BY <1>1, <1>4
  <2>4. \A s : {Text(s, u, p)' : p \in Taken(s, u)' \cap Looked'} = {}
    BY <2>1
  <2> QED BY <2>1, <2>2, <2>3, <2>4 DEF ReadingFaithful, Reading!RangeOf
<1> QED
  BY <1>1, <1>2, <1>3, <1>5, StepKeeps DEF RBody, FilesKept

LEMMA StepsKeep ==
  ASSUME NoneIsNoReading, RBody, Reading!ReadMain \/ Reading!ListDir \/ \E p \in Reading!Under : Reading!ReadPart(p)
  PROVE  RBody'
<1>1. PICK u \in Sessions, s \in Slugs : u = reading.session /\ s = reading.slug /\ reading # None
  BY DEF Reading!ReadMain, Reading!ListDir, Reading!ReadPart, RBody, ReadingTyped
<1>2. /\ reading \in [at : {"main", "dir", "walk"}, slug : Slugs, session : Sessions,
                      left : SUBSET Reading!Under, got : Seq(Texts), partial : BOOLEAN]
      /\ reading.at = "main" => reading.got = << >>
  BY <1>1 DEF RBody, ReadingTyped
<1>3. UNCHANGED <<files, hidden, stored, verdict, origin, fresh>>
  BY DEF Reading!ReadMain, Reading!ListDir, Reading!ReadPart, Reading!disk
<1>4. /\ Taken(s, u)' = Taken(s, u) /\ Reading!Winner(u)' = Reading!Winner(u)
      /\ \A p \in Taken(s, u) : Text(s, u, p)' = Text(s, u, p)
  BY <1>3, RestsKeeps DEF Rests
<1>5. u \in fresh => /\ s = Reading!Winner(u) /\ s \in Reading!Listed(u)
                     /\ Reading!RangeOf(reading.got) = {Text(s, u, p) : p \in Taken(s, u) \cap Looked}
                     /\ reading.at # "main" => reading.partial = (Len(files[<<s, u, "main">>]) > Cap)
  BY <1>1, WinnerIs DEF RBody, ReadingFaithful, FilesKept
<1> DEFINE Moved(r, looked) ==
             /\ r.session = u /\ r.slug = s /\ ReadingTyped' /\ Looked' = looked
             /\ u \in fresh =>
                  /\ Reading!RangeOf(r.got) = {Text(s, u, p) : p \in Taken(s, u) \cap looked}
                  /\ r.at # "main" /\ r.partial = (Len(files[<<s, u, "main">>]) > Cap)
<1>6. ASSUME NEW looked, Moved(reading', looked), reading' # None PROVE RBody'
  <2>1. {Text(s, u, p) : p \in Taken(s, u) \cap Looked}' = {Text(s, u, p) : p \in Taken(s, u) \cap looked}
    BY <1>4, <1>6
  <2>2. ReadingFaithful'
    BY <1>3, <1>4, <1>5, <1>6, <2>1 DEF ReadingFaithful
  <2> QED BY <1>1, <1>3, <1>6, <2>2, StepKeeps DEF RBody, FilesKept
<1>7. "main" \in Reading!Parts /\ "main" \notin Reading!Under /\ Reading!Parts = Reading!Under \cup {"main"}
  BY ReadingAssumption DEF Reading!Configured, Reading!Parts, Reading!Under
<1>8. CASE Reading!ReadMain
  <2>1. /\ reading.at = "main"
        /\ reading' = [reading EXCEPT !.at = "dir", !.got = Reading!Adds("main"),
                                      !.partial = Reading!Oversize("main")]
    BY <1>8 DEF Reading!ReadMain
  <2>2. reading' = [at |-> "dir", slug |-> s, session |-> u, left |-> reading.left,
                    got |-> Reading!Adds("main"), partial |-> Reading!Oversize("main")]
    BY <1>1, <1>2, <2>1
  <2>3. /\ Reading!Adds("main") \in Seq(Texts)
        /\ Reading!RangeOf(Reading!Adds("main"))
             = Reading!RangeOf(reading.got) \cup {Text(s, u, q) : q \in Taken(s, u) \cap {"main"}}
    BY <1>1, <1>7, AddsIs DEF RBody
  <2>4. Reading!RangeOf(reading.got) = {}
    BY <1>2, <2>1 DEF Reading!RangeOf
  <2>5. Reading!Oversize("main") \in BOOLEAN
    BY DEF Reading!Oversize
  <2>6. ReadingTyped'
    BY <1>2, <2>2, <2>3, <2>5 DEF ReadingTyped
  <2>7. Looked' = {"main"}
    BY <2>2 DEF Looked
  <2>8. u \in fresh => Reading!Oversize("main") = (Len(files[<<s, u, "main">>]) > Cap)
    BY <1>1, <1>5 DEF Reading!Oversize, Reading!There, Reading!LinesOf, Reading!Now, Reading!Listed
  <2> QED BY <1>6, <2>2, <2>3, <2>4, <2>6, <2>7, <2>8 DEF NoneIsNoReading
<1>9. CASE Reading!ListDir
  <2> DEFINE left == IF <<s>> \in hidden THEN {} ELSE Reading!Under \cap Reading!Of(s, u)
  <2>1. reading.at = "dir" /\ reading' = [reading EXCEPT !.at = "walk", !.left = left]
    BY <1>1, <1>9 DEF Reading!ListDir, Reading!Now
  <2>2. reading' = [at |-> "walk", slug |-> s, session |-> u, left |-> left,
                    got |-> reading.got, partial |-> reading.partial]
    BY <1>1, <1>2, <2>1
  <2>3. ReadingTyped'
    BY <1>2, <2>2 DEF ReadingTyped
  <2>4. Looked' = Reading!Parts \ left /\ Looked = {"main"}
    BY <2>1, <2>2 DEF Looked
  <2>5. Taken(s, u) \cap {"main"} = Taken(s, u) \cap (Reading!Parts \ left)
    <3>1. CASE <<s>> \in hidden
      <4>1. Taken(s, u) = {}
        BY <3>1 DEF Taken, Reading!Readable
      <4> QED BY <4>1
    <3>2. CASE <<s>> \notin hidden
      <4>1. Taken(s, u) \subseteq Reading!Of(s, u) /\ Reading!Of(s, u) \subseteq Reading!Parts
        BY DEF Taken, Reading!Of
      <4> QED BY <1>7, <3>2, <4>1
    <3> QED BY <3>1, <3>2
  <2> HIDE DEF left
  <2>6. u \in fresh => Reading!RangeOf(reading.got) = {Text(s, u, p) : p \in Taken(s, u) \cap (Reading!Parts \ left)}
    BY <1>5, <2>4, <2>5
  <2>7. /\ reading'.session = u /\ reading'.slug = s /\ reading'.got = reading.got
        /\ reading'.at = "walk" /\ reading'.partial = reading.partial
    BY <2>2
  <2>8. u \in fresh => reading.partial = (Len(files[<<s, u, "main">>]) > Cap)
    BY <1>5, <2>1
  <2>9. Moved(reading', Reading!Parts \ left)
    BY <2>3, <2>4, <2>6, <2>7, <2>8
  <2>10. reading' # None
    BY <2>2 DEF NoneIsNoReading
  <2> QED BY <1>6, <2>9, <2>10
<1>10. ASSUME NEW p \in Reading!Under, Reading!ReadPart(p) PROVE RBody'
  <2>1. /\ reading.at = "walk"
        /\ reading' = [reading EXCEPT !.left = @ \ {p}, !.got = Reading!Adds(p)]
    BY <1>10 DEF Reading!ReadPart
  <2>2. reading' = [at |-> "walk", slug |-> s, session |-> u, left |-> reading.left \ {p},
                    got |-> Reading!Adds(p), partial |-> reading.partial]
    BY <1>1, <1>2, <2>1
  <2>3. /\ Reading!Adds(p) \in Seq(Texts)
        /\ Reading!RangeOf(Reading!Adds(p))
             = Reading!RangeOf(reading.got) \cup {Text(s, u, q) : q \in Taken(s, u) \cap {p}}
    BY <1>1, <1>7, AddsIs DEF RBody
  <2>4. ReadingTyped'
    BY <1>2, <2>2, <2>3 DEF ReadingTyped
  <2>5. Looked' = Looked \cup {p}
    BY <1>7, <2>1, <2>2 DEF Looked
  <2>6. u \in fresh => Reading!RangeOf(Reading!Adds(p)) = {Text(s, u, q) : q \in Taken(s, u) \cap (Looked \cup {p})}
    <3> SUFFICES ASSUME u \in fresh
                 PROVE  Reading!RangeOf(Reading!Adds(p)) = {Text(s, u, q) : q \in Taken(s, u) \cap (Looked \cup {p})}
      OBVIOUS
    <3>1. Reading!RangeOf(reading.got) = {Text(s, u, q) : q \in Taken(s, u) \cap Looked}
      BY <1>5
    <3> QED BY <2>3, <3>1
  <2>7. /\ reading'.session = u /\ reading'.slug = s /\ reading'.got = Reading!Adds(p)
        /\ reading'.at = "walk" /\ reading'.partial = reading.partial
    BY <2>2
  <2>8. u \in fresh => reading.partial = (Len(files[<<s, u, "main">>]) > Cap)
    BY <1>5, <2>1
  <2>9. Moved(reading', Looked \cup {p})
    BY <2>4, <2>5, <2>6, <2>7, <2>8
  <2>10. reading' # None
    BY <2>2 DEF NoneIsNoReading
  <2> QED BY <1>6, <2>9, <2>10
<1> QED BY <1>8, <1>9, <1>10

-----------------------------------------------------------------------------
(* What the lines say *)

LEMMA LineIs ==
  ASSUME NEW line \in W
  PROVE  /\ line.at \in Nat
         /\ line.use # None =>
              /\ line.use.flat \in Nat
              /\ line.use.split = << >> \/ line.use.split \in Nat \X Nat
<1>1. Reading!Parts = Hexes \cup {"main", "journal", "notes"}
  BY DEF Reading!Parts, Reading!Under
<1>2. PICK u \in Sessions, p \in Hexes \cup {"main", "journal", "notes"} : line \in Writable(u, p)
  BY <1>1 DEF W
<1> QED BY <1>2, ReadingAssumption DEF Reading!Configured

\* parseSession's span contains the instants of a transcript's lines.
LEMMA SpanIs ==
  ASSUME NEW f \in Texts, \E line \in Reading!RangeOf(f.lines) : line.at # 0
  PROVE  /\ Reading!Span(f).from \in Nat /\ Reading!Span(f).to \in Nat
         /\ \A line \in Reading!RangeOf(f.lines) :
              line.at # 0 => Reading!Span(f).from <= line.at /\ line.at <= Reading!Span(f).to
<1>1. f.lines \in Seq(W)
  BY DEF Texts
<1>2. DOMAIN f.lines = 1..Len(f.lines) /\ Len(f.lines) \in Nat /\ \A i \in 1..Len(f.lines) : f.lines[i] \in W
  BY <1>1
<1>3. \A i \in 1..Len(f.lines) : f.lines[i].at \in Nat
  BY <1>2, LineIs
<1> DEFINE S == {line.at : line \in Reading!RangeOf(f.lines)} \ {0}
<1>4. S \in SUBSET Nat /\ S # {} /\ \A n \in S : \E i \in 1..Len(f.lines) : n = f.lines[i].at
  BY <1>2, <1>3 DEF Reading!RangeOf
<1>5. \E top \in Nat : \A i \in 1..Len(f.lines) : f.lines[i].at <= top
  <2> DEFINE g == [i \in 1..Len(f.lines) |-> f.lines[i].at]
  <2>1. g \in [1..Len(f.lines) -> Nat]
    BY <1>3
  <2>2. \E top \in Nat : \A i \in 1..Len(f.lines) : g[i] <= top
    <3> HIDE DEF g
    <3> QED BY <1>2, <2>1, Bounded
  <2> QED BY <2>2
<1>6. PICK top \in Nat : \A n \in S : n <= top
  BY <1>4, <1>5
<1>7. /\ Reading!SetMin(S) \in S /\ \A n \in S : Reading!SetMin(S) <= n
      /\ Reading!SetMax(S) \in S /\ \A n \in S : n <= Reading!SetMax(S)
  <2> HIDE DEF S
  <2> QED BY <1>4, <1>6, SetMinIs, SetMaxIs
<1>8. Reading!Span(f) = [from |-> Reading!SetMin(S), to |-> Reading!SetMax(S)]
  BY DEF Reading!Span
<1>9. \A line \in Reading!RangeOf(f.lines) : line.at # 0 => line.at \in S
  OBVIOUS
<1>10. Reading!Span(f).from = Reading!SetMin(S) /\ Reading!Span(f).to = Reading!SetMax(S)
  BY <1>8
<1> HIDE DEF S
<1>11. Reading!SetMin(S) \in Nat /\ Reading!SetMax(S) \in Nat
  BY <1>4, <1>7
<1> QED BY <1>7, <1>9, <1>10, <1>11

\* mapUsageBuckets loses nothing of the flat total.
LEMMA BucketsAre ==
  ASSUME NEW use, use.flat \in Nat, use.split = << >> \/ use.split \in Nat \X Nat
  PROVE  /\ Reading!Buckets(use) \in Nat \X Nat
         /\ Reading!Buckets(use)[1] + Reading!Buckets(use)[2] >= use.flat
<1>1. CASE use.split = << >>
  BY <1>1 DEF Reading!Buckets
<1>2. CASE use.split # << >>
  <2>1. use.split[1] \in Nat /\ use.split[2] \in Nat
    BY <1>2
  <2> DEFINE unsplit == use.flat - use.split[1] - use.split[2]
  <2>2. Reading!Buckets(use) = <<use.split[1] + (IF unsplit > 0 THEN unsplit ELSE 0), use.split[2]>>
    BY <1>2 DEF Reading!Buckets
  <2> QED BY <2>1, <2>2
<1> QED BY <1>1, <1>2

\* dedupeUsageByMessageId: no line of a message counts more than it settles at.
LEMMA SettledIs ==
  ASSUME NEW f \in Texts, NEW m, Reading!Bills(f, m) # {}
  PROVE  /\ Reading!Settled(f, m) \in Nat \X Nat
         /\ \A i \in Reading!Bills(f, m) :
              f.lines[i].use.flat <= Reading!Settled(f, m)[1] + Reading!Settled(f, m)[2]
<1> DEFINE n == Len(f.lines)
           Of(i) == Reading!Buckets(f.lines[i].use)
           Both(i) == Of(i)[1] + Of(i)[2]
           bills == Reading!Bills(f, m)
           largest == {i \in bills : \A j \in bills : Both(j) <= Both(i)}
<1>1. n \in Nat /\ DOMAIN f.lines = 1..n /\ \A i \in 1..n : f.lines[i] \in W
  BY DEF Texts
<1>2. bills \subseteq 1..n /\ \A i \in bills : f.lines[i].use # None
  BY <1>1 DEF Reading!Bills, Reading!Billed
<1>3. \A i \in bills : Of(i) \in Nat \X Nat /\ Both(i) >= f.lines[i].use.flat /\ f.lines[i].use.flat \in Nat
  <2> SUFFICES ASSUME NEW i \in bills
               PROVE  Of(i) \in Nat \X Nat /\ Both(i) >= f.lines[i].use.flat /\ f.lines[i].use.flat \in Nat
    OBVIOUS
  <2>1. /\ f.lines[i].use.flat \in Nat
        /\ f.lines[i].use.split = << >> \/ f.lines[i].use.split \in Nat \X Nat
    <3>1. f.lines[i] \in W /\ f.lines[i].use # None
      BY <1>1, <1>2
    <3> QED BY <3>1, LineIs
  <2> QED BY <2>1, BucketsAre
<1>4. \A i \in bills : Both(i) \in Nat
  BY <1>3
<1>5. \E top \in Nat : \A i \in bills : Both(i) <= top
  <2> DEFINE g == [i \in 1..n |-> IF i \in bills THEN Both(i) ELSE 0]
  <2>1. g \in [1..n -> Nat]
    <3> HIDE DEF Both, bills, n
    <3> QED BY <1>4
  <2>2. \E top \in Nat : \A i \in 1..n : g[i] <= top
    <3> HIDE DEF g, n
    <3> QED BY <1>1, <2>1, Bounded
  <2> HIDE DEF Both, bills, n
  <2> QED BY <1>2, <2>2
<1> HIDE DEF Both, Of, bills, n
<1>6. \E i \in bills : \A j \in bills : Both(j) <= Both(i)
  <2> DEFINE S == {Both(i) : i \in bills}
  <2>1. S \in SUBSET Nat /\ S # {}
    BY <1>4 DEF bills
  <2>2. PICK top \in Nat : \A k \in S : k <= top
    BY <1>5
  <2>3. Reading!SetMax(S) \in S /\ \A k \in S : k <= Reading!SetMax(S)
    <3> HIDE DEF S
    <3> QED BY <2>1, <2>2, SetMaxIs
  <2>4. PICK i \in bills : Both(i) = Reading!SetMax(S)
    BY <2>3
  <2>5. \A j \in bills : Both(j) <= Both(i)
    BY <2>3, <2>4
  <2> QED BY <2>5
<1>7. Reading!SetMax(largest) \in largest
  <2>1. largest \subseteq bills /\ largest # {}
    BY <1>6
  <2>2. bills \in SUBSET Nat /\ \A i \in bills : i <= n
    BY <1>1, <1>2
  <2>3. largest \in SUBSET Nat /\ largest # {} /\ \A i \in largest : i <= n
    BY <2>1, <2>2
  <2> HIDE DEF largest
  <2> QED BY <1>1, <2>3, SetMaxIs
<1>8. Reading!Settled(f, m) = Of(Reading!SetMax(largest))
  BY DEF Reading!Settled, Of, Both, bills
<1>9. PICK top \in bills : top = Reading!SetMax(largest) /\ \A j \in bills : Both(j) <= Both(top)
  BY <1>7
<1>10. Of(top) \in Nat \X Nat /\ \A i \in bills : f.lines[i].use.flat <= Both(top)
  <2>1. \A i \in bills : Both(i) >= f.lines[i].use.flat /\ f.lines[i].use.flat \in Nat /\ Both(i) \in Nat
    BY <1>3, <1>4
  <2>2. \A i \in bills : f.lines[i].use.flat <= Both(top)
    BY <1>9, <2>1
  <2> QED BY <1>3, <2>2
<1> QED BY <1>8, <1>9, <1>10 DEF Both, bills

\* peekSubstrateSessionId finds an id where there is one.
LEMMA DeclaredIs ==
  ASSUME NEW got \in Seq(Texts)
  PROVE  Reading!Declared(got) \in Reading!Ids(got) \/ (Reading!Ids(got) = {} /\ Reading!Declared(got) = None)
<1> DEFINE Says(f) == {i \in DOMAIN f.lines : f.lines[i].json /\ f.lines[i].says # None}
           speak == {k \in DOMAIN got : Says(got[k]) # {}}
<1>1. DOMAIN got \in SUBSET Nat /\ \A k \in DOMAIN got : got[k] \in Texts
  OBVIOUS
<1>2. \A k \in DOMAIN got : DOMAIN got[k].lines \in SUBSET Nat
  BY <1>1 DEF Texts
<1>3. CASE speak = {}
  <2>1. Reading!Declared(got) = None
    BY <1>3 DEF Reading!Declared
  <2>2. Reading!Ids(got) = {}
    BY <1>3 DEF Reading!Ids, Reading!AllLines, Reading!RangeOf
  <2> QED BY <2>1, <2>2
<1>4. CASE speak # {}
  <2>1. Reading!SetMin(speak) \in speak
    <3>1. speak \in SUBSET Nat
      BY <1>1
    <3> HIDE DEF speak
    <3> QED BY <1>4, <3>1, SetMinIs
  <2>2. PICK k \in DOMAIN got : k = Reading!SetMin(speak) /\ Says(got[k]) # {}
    BY <2>1
  <2>3. Reading!SetMin(Says(got[k])) \in Says(got[k])
    <3>1. Says(got[k]) \in SUBSET Nat /\ Says(got[k]) # {}
      BY <1>2, <2>2
    <3> HIDE DEF Says
    <3> QED BY <3>1, SetMinIs
  <2>4. Reading!Declared(got) = got[k].lines[Reading!SetMin(Says(got[k]))].says
    BY <1>4, <2>2 DEF Reading!Declared
  <2>5. PICK i \in DOMAIN got[k].lines : /\ i = Reading!SetMin(Says(got[k]))
                                         /\ got[k].lines[i].json /\ got[k].lines[i].says # None
    BY <2>3
  <2>6. got[k].lines[i] \in Reading!AllLines(got)
    BY DEF Reading!AllLines, Reading!RangeOf
  <2>7. Reading!Declared(got) = got[k].lines[i].says
    <3> HIDE DEF Says
    <3> QED BY <2>4, <2>5
  <2> DEFINE line == got[k].lines[i]
           spoken == {e \in Reading!AllLines(got) : e.json}
  <2>8. line \in spoken /\ line.says # None
    BY <2>5, <2>6
  <2>9. line.says \in Reading!Ids(got)
    <3> HIDE DEF line, spoken
    <3>1. line.says \in {e.says : e \in spoken}
      BY <2>8
    <3>2. Reading!Ids(got) = {e.says : e \in spoken} \ {None}
      BY DEF Reading!Ids, spoken
    <3> QED BY <2>8, <3>1, <3>2
  <2>10. Reading!Declared(got) = line.says
    BY <2>7
  <2> HIDE DEF line, spoken
  <2> QED BY <2>9, <2>10
<1> QED BY <1>3, <1>4

\* A line whose id is not the one expected is refused, and so is a file that
\* contradicts itself; what is refused is one of these.
LEMMA RefusedIs ==
  ASSUME NEW got \in Seq(Texts), NEW u \in Sessions
  PROVE  /\ Reading!Mismatched(got, u) \/ Reading!Contradicts(got) => Reading!Poisoned(Reading!RangeOf(got), u)
         /\ ~Reading!Mismatched(got, u) /\ ~Reading!Contradicts(got) =>
              /\ Reading!Ids(got) = {u}
              /\ ~Reading!Poisoned(Reading!RangeOf(got), u)
<1> DEFINE legible == Reading!RangeOf(got)
           told == {f \in legible : Reading!Transcript(f.part)}
           says == UNION {Reading!RangeOf(f.lines) : f \in legible}
           Undated == \E f \in told : \A l \in Reading!RangeOf(f.lines) : l.at = 0
           Foreign == \E f \in legible : f.part \in Hexes /\ \E l \in Reading!RangeOf(f.lines) : l.agent \notin {None, f.part}
           Shared == \E f, g \in told : f # g /\ \E i \in Reading!Billed(f) : Reading!Bills(g, f.lines[i].use.msg) # {}
<1>1. says = Reading!AllLines(got) /\ told = Reading!Transcripts(got)
  BY DEF Reading!AllLines, Reading!Transcripts
<1>2. Reading!Poisoned(legible, u) <=>
        \/ \E l \in says : ~l.json \/ l.says \notin {None, u}
        \/ \A l \in says : l.says = None
        \/ Undated \/ Foreign \/ Shared
  BY DEF Reading!Poisoned
<1>3. Reading!Contradicts(got) <=>
        \/ \E l \in says : ~l.json
        \/ \A id \in Reading!Ids(got) : Reading!Ids(got) # {id}
        \/ Undated \/ Foreign \/ Shared
  BY <1>1 DEF Reading!Contradicts
<1> HIDE DEF Undated, Foreign, Shared, told, legible, says
<1>4. u # None
  BY ReadingAssumption DEF Reading!Configured
<1>5. Reading!Ids(got) = {l.says : l \in {k \in says : k.json}} \ {None}
  BY <1>1 DEF Reading!Ids
<1>6. Reading!Mismatched(got, u) <=> Reading!Declared(got) \notin {None, u}
  BY DEF Reading!Mismatched
<1>7. ASSUME Reading!Mismatched(got, u) \/ Reading!Contradicts(got) PROVE Reading!Poisoned(legible, u)
  <2>1. CASE Reading!Mismatched(got, u)
    <3>1. Reading!Declared(got) \in Reading!Ids(got) /\ Reading!Declared(got) \notin {None, u}
      BY <1>6, <2>1, DeclaredIs
    <3>2. \E l \in says : l.says \notin {None, u}
      BY <1>5, <3>1
    <3> QED BY <1>2, <3>2
  <2>2. CASE \A id \in Reading!Ids(got) : Reading!Ids(got) # {id}
    <3>1. CASE Reading!Ids(got) = {}
      <4>1. \A l \in says : l.json => l.says = None
        BY <1>5, <3>1
      <4> QED BY <1>2, <4>1
    <3>2. CASE Reading!Ids(got) # {}
      <4>1. \E id \in Reading!Ids(got) : id # u
        BY <2>2, <3>2
      <4>2. \E l \in says : l.says \notin {None, u}
        BY <1>5, <4>1
      <4> QED BY <1>2, <4>2
    <3> QED BY <3>1, <3>2
  <2> QED BY <1>2, <1>3, <1>7, <2>1, <2>2
<1>8. ASSUME ~Reading!Mismatched(got, u), ~Reading!Contradicts(got)
      PROVE  Reading!Ids(got) = {u} /\ ~Reading!Poisoned(legible, u)
  <2>1. PICK id \in Reading!Ids(got) : Reading!Ids(got) = {id}
    BY <1>3, <1>8
  <2>2. id = u
    <3>1. Reading!Declared(got) = id
      BY <2>1, DeclaredIs
    <3>2. id # None
      BY <1>5, <2>1
    <3> QED BY <1>6, <1>8, <3>1, <3>2
  <2>3. \A l \in says : l.json /\ l.says \in {None, u}
    BY <1>3, <1>5, <1>8, <2>1, <2>2
  <2>4. \E l \in says : l.says = u
    BY <1>5, <2>1, <2>2
  <2> QED BY <1>2, <1>3, <1>4, <1>8, <2>1, <2>2, <2>3, <2>4
<1> QED BY <1>7, <1>8 DEF legible

LEMMA LostIsFinite ==
  ASSUME NEW got \in Seq(Texts)
  PROVE  IsFiniteSet({e \in Reading!Transcripts(got) \X (1..Cap) : e[2] \in Reading!Nameless(e[1])})
<1> DEFINE told == Reading!Transcripts(got)
<1>1. IsFiniteSet(Reading!RangeOf(got))
  <2>1. DOMAIN got = 1..Len(got) /\ Len(got) \in Nat
    OBVIOUS
  <2>2. IsFiniteSet(DOMAIN got)
    BY <2>1, FS_Interval
  <2>3. got \in Surjection(DOMAIN got, Reading!RangeOf(got))
    BY DEF Surjection, Reading!RangeOf
  <2> QED BY <2>2, <2>3, FS_Surjection
<1>2. IsFiniteSet(told) /\ IsFiniteSet(1..Cap)
  <2>1. Cap \in Nat
    BY ReadingAssumption DEF Reading!Configured
  <2>2. told \subseteq Reading!RangeOf(got)
    BY DEF Reading!Transcripts
  <2> QED BY <1>1, <2>1, <2>2, FS_Subset, FS_Interval
<1>3. IsFiniteSet(told \X (1..Cap))
  <2> HIDE DEF told
  <2> QED BY <1>2, FS_Product
<1> QED BY <1>3, FS_Subset

\* What is parsed of files of which no two are of one part.
LEMMA ParsedIs ==
  ASSUME NEW got \in Seq(Texts), NEW u \in Sessions, ~Reading!Contradicts(got)
  PROVE  /\ Known(Reading!Parsed(got, u))
         /\ (\A f, g \in Reading!Transcripts(got) : f.part = g.part => f = g) =>
              \A f \in Reading!Transcripts(got) :
                /\ Reading!Agent(f, u) \in DOMAIN Reading!Parsed(got, u).agents
                /\ Reading!Parsed(got, u).agents[Reading!Agent(f, u)] = Reading!Span(f)
                /\ \A i \in Reading!Billed(f) :
                     /\ f.lines[i].use.msg \in DOMAIN Reading!Parsed(got, u).tokens
                     /\ Reading!Parsed(got, u).tokens[f.lines[i].use.msg] = Reading!Settled(f, f.lines[i].use.msg)
                /\ Reading!Nameless(f) \cap 1..Cap # {} => Reading!Parsed(got, u).dropped > 0
<1> DEFINE told == Reading!Transcripts(got)
           messages == UNION {{f.lines[i].use.msg : i \in Reading!Billed(f)} : f \in told}
           Speaker(a) == CHOOSE f \in told : Reading!Agent(f, u) = a
           Billing(m) == CHOOSE f \in told : Reading!Bills(f, m) # {}
           lost == {e \in told \X (1..Cap) : e[2] \in Reading!Nameless(e[1])}
<1>1. Reading!Parsed(got, u)
        = [agents |-> [a \in {Reading!Agent(f, u) : f \in told} |-> Reading!Span(Speaker(a))],
           tokens |-> [m \in messages |-> Reading!Settled(Billing(m), m)],
           dropped |-> Cardinality(lost)]
  BY SameCardinality DEF Reading!Parsed
<1>2. told \subseteq Texts /\ told \subseteq Reading!RangeOf(got)
  BY DEF Reading!Transcripts, Reading!RangeOf
<1>3. \A f \in told : \E line \in Reading!RangeOf(f.lines) : line.at # 0
  BY DEF Reading!Contradicts
<1>4. \A f, g \in told : f # g => \A i \in Reading!Billed(f) : Reading!Bills(g, f.lines[i].use.msg) = {}
  BY DEF Reading!Contradicts
<1>5. IsFiniteSet(lost)
  BY LostIsFinite
<1>6. \A i, f : i \in Reading!Billed(f) => i \in Reading!Bills(f, f.lines[i].use.msg)
  BY DEF Reading!Bills
<1>7. \A a \in {Reading!Agent(f, u) : f \in told} : Speaker(a) \in told /\ Reading!Agent(Speaker(a), u) = a
  OBVIOUS
<1>8. \A m \in messages : Billing(m) \in told /\ Reading!Bills(Billing(m), m) # {}
  <2> SUFFICES ASSUME NEW m \in messages PROVE \E f \in told : Reading!Bills(f, m) # {}
    OBVIOUS
  <2>1. PICK f \in told : \E i \in Reading!Billed(f) : m = f.lines[i].use.msg
    OBVIOUS
  <2> QED BY <1>6, <2>1
<1> HIDE DEF told, messages, Speaker, Billing, lost
<1>9. Known(Reading!Parsed(got, u))
  <2>1. \A a \in {Reading!Agent(f, u) : f \in told} :
          Reading!Span(Speaker(a)) \in [from : Nat, to : Nat]
    BY <1>2, <1>3, <1>7, SpanIs DEF Reading!Span
  <2>2. \A m \in messages : Reading!Settled(Billing(m), m) \in Nat \X Nat
    BY <1>2, <1>8, SettledIs
  <2>3. Cardinality(lost) \in Nat
    BY <1>5, FS_CardinalityType
  <2> QED BY <1>1, <2>1, <2>2, <2>3 DEF Known
<1>10. ASSUME \A f, g \in told : f.part = g.part => f = g, NEW f \in told
       PROVE  /\ Reading!Agent(f, u) \in DOMAIN Reading!Parsed(got, u).agents
              /\ Reading!Parsed(got, u).agents[Reading!Agent(f, u)] = Reading!Span(f)
              /\ \A i \in Reading!Billed(f) :
                   /\ f.lines[i].use.msg \in DOMAIN Reading!Parsed(got, u).tokens
                   /\ Reading!Parsed(got, u).tokens[f.lines[i].use.msg] = Reading!Settled(f, f.lines[i].use.msg)
              /\ Reading!Nameless(f) \cap 1..Cap # {} => Reading!Parsed(got, u).dropped > 0
  <2>1. Speaker(Reading!Agent(f, u)) = f
    <3>1. \A g \in told : g.part \in Hexes \cup {"main"}
      BY DEF told, Reading!Transcripts, Reading!Transcript
    <3>2. \A h \in Hexes : h # u /\ h # "main"
      BY ReadingAssumption DEF Reading!Configured
    <3>3. \A g \in told : Reading!Agent(g, u) = Reading!Agent(f, u) => g.part = f.part
      BY <3>1, <3>2 DEF Reading!Agent
    <3> QED BY <1>7, <1>10, <3>3
  <2>2. ASSUME NEW i \in Reading!Billed(f)
        PROVE  f.lines[i].use.msg \in messages /\ Billing(f.lines[i].use.msg) = f
    <3>1. f.lines[i].use.msg \in messages
      BY DEF messages
    <3> QED BY <1>4, <1>8, <3>1
  <2>3. ASSUME NEW i \in Reading!Nameless(f) \cap 1..Cap PROVE Cardinality(lost) > 0
    <3>1. <<f, i>> \in lost
      BY DEF lost
    <3>2. Cardinality(lost) # 0
      BY <1>5, <3>1, FS_EmptySet
    <3> QED BY <1>5, <3>2, FS_CardinalityType
  <2> QED BY <1>1, <2>1, <2>2, <2>3
<1> QED BY <1>9, <1>10 DEF told

-----------------------------------------------------------------------------
(* The end of a reading *)

\* Where every file of a copy at rest was looked at, what was read is what can
\* be read.
LEMMA ReadingIs ==
  ASSUME RBody, reading # None, reading.at = "walk", reading.left = {},
         NEW u, u = reading.session
  PROVE  /\ u \in Sessions /\ reading.got \in Seq(Texts) /\ reading.slug \in Slugs
         /\ u \in fresh =>
              /\ reading.slug = Reading!Winner(u)
              /\ Reading!RangeOf(reading.got) = Reading!Legible(u)
              /\ Reading!Readable(Reading!Winner(u), u, "main")
              /\ reading.partial = (Len(files[<<Reading!Winner(u), u, "main">>]) > Cap)
              /\ \A f, g \in Reading!Transcripts(reading.got) : f.part = g.part => f = g
              /\ \A f \in Reading!Transcripts(reading.got) : f.lines \in Seq(W) /\ Len(f.lines) <= Cap
<1>1. u \in Sessions /\ reading.got \in Seq(Texts) /\ reading.slug \in Slugs
  BY DEF RBody, ReadingTyped
<1>2. SUFFICES ASSUME u \in fresh
               PROVE  /\ reading.slug = Reading!Winner(u)
                      /\ Reading!RangeOf(reading.got) = Reading!Legible(u)
                      /\ Reading!Readable(Reading!Winner(u), u, "main")
                      /\ reading.partial = (Len(files[<<Reading!Winner(u), u, "main">>]) > Cap)
                      /\ \A f, g \in Reading!Transcripts(reading.got) : f.part = g.part => f = g
                      /\ \A f \in Reading!Transcripts(reading.got) : f.lines \in Seq(W) /\ Len(f.lines) <= Cap
  BY <1>1
<1>3. PICK s \in Slugs : s = reading.slug
  BY <1>1
<1>4. /\ s = Reading!Winner(u)
      /\ Reading!RangeOf(reading.got) = {Text(s, u, p) : p \in Taken(s, u) \cap Looked}
      /\ reading.partial = (Len(files[<<s, u, "main">>]) > Cap)
  BY <1>2, <1>3 DEF RBody, ReadingFaithful
<1>5. Taken(s, u) \cap Looked = Taken(s, u)
  BY DEF Looked, Taken, Reading!Of
<1>6. Reading!Readable(s, u, "main")
  BY <1>1, <1>2, <1>4, WinnerIs DEF RBody, FilesKept, Reading!Listed
<1>7. Reading!RangeOf(reading.got) = Reading!Legible(u)
  BY <1>4, <1>5, LegibleIs
<1>8. \A f \in Reading!Transcripts(reading.got) : \E p \in Taken(s, u) : f = Text(s, u, p)
  BY <1>4, <1>5 DEF Reading!Transcripts
<1>9. \A f, g \in Reading!Transcripts(reading.got) : f.part = g.part => f = g
  <2>1. \A p : Text(s, u, p).part = p
    BY DEF Text
  <2> QED BY <1>8, <2>1
<1>10. \A p \in Taken(s, u) : files[<<s, u, p>>] \in Seq(W) /\ Len(files[<<s, u, p>>]) <= Cap
  <2> SUFFICES ASSUME NEW p \in Taken(s, u)
               PROVE  files[<<s, u, p>>] \in Seq(W) /\ Len(files[<<s, u, p>>]) <= Cap
    OBVIOUS
  <2>1. files[<<s, u, p>>] \in Seq(W)
    BY DEF Taken, Reading!Of, RBody, FilesKept
  <2>2. Cap \in Nat
    BY ReadingAssumption DEF Reading!Configured
  <2>3. Len(files[<<s, u, p>>]) \in 1..Cap \/ Len(files[<<s, u, p>>]) \in 0..Cap
    BY DEF Taken
  <2> QED BY <2>1, <2>2, <2>3
<1>11. \A f \in Reading!Transcripts(reading.got) : f.lines \in Seq(W) /\ Len(f.lines) <= Cap
  <2>1. \A p : Text(s, u, p).lines = files[<<s, u, p>>]
    BY DEF Text
  <2> QED BY <1>8, <1>10, <2>1
<1> QED BY <1>3, <1>4, <1>6, <1>7, <1>9, <1>11

\* What a row tells of an agent and of a message is not lost when another
\* reading is merged into it.
LEMMA ProjectedIs ==
  ASSUME NEW was, Known(was), NEW new, Known(new), NEW slug, NEW partial \in BOOLEAN,
         NEW row, row = Reading!Projected(was, new, slug, partial)
  PROVE  /\ Known(row) /\ row.slug = slug /\ row.partial = partial
         /\ \A a \in DOMAIN new.agents :
              /\ a \in DOMAIN row.agents
              /\ row.agents[a].from <= new.agents[a].from /\ new.agents[a].to <= row.agents[a].to
         /\ \A m \in DOMAIN new.tokens :
              /\ m \in DOMAIN row.tokens
              /\ new.tokens[m][1] <= row.tokens[m][1] /\ new.tokens[m][2] <= row.tokens[m][2]
         /\ new.dropped <= row.dropped
<1> DEFINE spans == Reading!Merged(was.agents, new.agents, Reading!Wider)
           tokens == Reading!Merged(was.tokens, new.tokens, Reading!Larger)
           dropped == Reading!Dropped(was.dropped, new.dropped, partial)
<1>1. row = [slug |-> slug, partial |-> partial, agents |-> spans, tokens |-> tokens, dropped |-> dropped]
  BY DEF Reading!Projected
<1>2. \A m, n \in Nat : /\ Reading!SetMin({m, n}) \in Nat /\ Reading!SetMin({m, n}) <= m /\ Reading!SetMin({m, n}) <= n
                        /\ Reading!SetMax({m, n}) \in Nat /\ m <= Reading!SetMax({m, n}) /\ n <= Reading!SetMax({m, n})
  <2> SUFFICES ASSUME NEW m \in Nat, NEW n \in Nat
               PROVE  /\ Reading!SetMin({m, n}) \in Nat /\ Reading!SetMin({m, n}) <= m /\ Reading!SetMin({m, n}) <= n
                      /\ Reading!SetMax({m, n}) \in Nat /\ m <= Reading!SetMax({m, n}) /\ n <= Reading!SetMax({m, n})
    OBVIOUS
  <2> DEFINE S == {m, n}
  <2>1. S \in SUBSET Nat /\ S # {} /\ m + n \in Nat /\ \A k \in S : k <= m + n
    OBVIOUS
  <2>2. /\ Reading!SetMin(S) \in S /\ \A k \in S : Reading!SetMin(S) <= k
        /\ Reading!SetMax(S) \in S /\ \A k \in S : k <= Reading!SetMax(S)
    <3> HIDE DEF S
    <3> QED BY <2>1, SetMinIs, SetMaxIs
  <2> QED BY <2>2
<1>3. /\ DOMAIN spans = DOMAIN was.agents \cup DOMAIN new.agents
      /\ spans = [k \in DOMAIN spans |-> spans[k]]
      /\ \A a \in DOMAIN spans :
           spans[a] = IF a \notin DOMAIN new.agents THEN was.agents[a]
                       ELSE IF a \notin DOMAIN was.agents THEN new.agents[a]
                       ELSE Reading!Wider(was.agents[a], new.agents[a])
  BY DEF Reading!Merged
<1>4. /\ DOMAIN tokens = DOMAIN was.tokens \cup DOMAIN new.tokens
      /\ tokens = [k \in DOMAIN tokens |-> tokens[k]]
      /\ \A m \in DOMAIN tokens :
           tokens[m] = IF m \notin DOMAIN new.tokens THEN was.tokens[m]
                       ELSE IF m \notin DOMAIN was.tokens THEN new.tokens[m]
                       ELSE Reading!Larger(was.tokens[m], new.tokens[m])
  BY DEF Reading!Merged
<1> HIDE DEF spans, tokens
<1>5. ASSUME NEW a \in DOMAIN spans
      PROVE  /\ spans[a] \in [from : Nat, to : Nat]
             /\ a \in DOMAIN new.agents =>
                  spans[a].from <= new.agents[a].from /\ new.agents[a].to <= spans[a].to
  <2>1. /\ a \in DOMAIN new.agents => new.agents[a] \in [from : Nat, to : Nat]
        /\ a \in DOMAIN was.agents => was.agents[a] \in [from : Nat, to : Nat]
    BY DEF Known
  <2>2. CASE a \in DOMAIN new.agents /\ a \in DOMAIN was.agents
    <3>1. spans[a] = [from |-> Reading!SetMin({was.agents[a].from, new.agents[a].from}),
                       to |-> Reading!SetMax({was.agents[a].to, new.agents[a].to})]
      BY <1>3, <2>2 DEF Reading!Wider
    <3> QED BY <1>2, <2>1, <2>2, <3>1
  <2>3. CASE ~(a \in DOMAIN new.agents /\ a \in DOMAIN was.agents)
    BY <1>3, <2>1, <2>3
  <2> QED BY <2>2, <2>3
<1>6. ASSUME NEW m \in DOMAIN tokens
      PROVE  /\ tokens[m] \in Nat \X Nat
             /\ m \in DOMAIN new.tokens =>
                  new.tokens[m][1] <= tokens[m][1] /\ new.tokens[m][2] <= tokens[m][2]
  <2>1. /\ m \in DOMAIN new.tokens => new.tokens[m] \in Nat \X Nat
        /\ m \in DOMAIN was.tokens => was.tokens[m] \in Nat \X Nat
    BY DEF Known
  <2>2. CASE m \in DOMAIN new.tokens /\ m \in DOMAIN was.tokens
    <3>1. tokens[m] = <<Reading!SetMax({was.tokens[m][1], new.tokens[m][1]}),
                        Reading!SetMax({was.tokens[m][2], new.tokens[m][2]})>>
      BY <1>4, <2>2 DEF Reading!Larger
    <3> QED BY <1>2, <2>1, <2>2, <3>1
  <2>3. CASE ~(m \in DOMAIN new.tokens /\ m \in DOMAIN was.tokens)
    BY <1>4, <2>1, <2>3
  <2> QED BY <2>2, <2>3
<1>7. dropped \in Nat /\ new.dropped <= dropped
  <2>1. was.dropped \in Nat /\ new.dropped \in Nat
    BY DEF Known
  <2> QED BY <1>2, <2>1 DEF Reading!Dropped
<1> HIDE DEF dropped
<1>8. /\ row.slug = slug /\ row.partial = partial /\ row.agents = spans
      /\ row.tokens = tokens /\ row.dropped = dropped
  BY <1>1
<1>9. Known(row)
  <2>1. spans \in [DOMAIN spans -> [from : Nat, to : Nat]]
    BY <1>3, <1>5
  <2>2. tokens \in [DOMAIN tokens -> Nat \X Nat]
    BY <1>4, <1>6
  <2> QED BY <1>7, <1>8, <2>1, <2>2 DEF Known
<1> QED BY <1>3, <1>4, <1>5, <1>6, <1>7, <1>8, <1>9

\* What is stored of a reading tells all that was read.
LEMMA ToldIs ==
  ASSUME NEW got \in Seq(Texts), NEW u \in Sessions, ~Reading!Contradicts(got),
         \A f, g \in Reading!Transcripts(got) : f.part = g.part => f = g,
         \A f \in Reading!Transcripts(got) : f.lines \in Seq(W) /\ Len(f.lines) <= Cap,
         NEW was, Known(was), NEW slug, NEW partial \in BOOLEAN,
         NEW row, row = Reading!Projected(was, Reading!Parsed(got, u), slug, partial)
  PROVE  Reading!Tells(row, Reading!RangeOf(got), u)
<1> DEFINE new == Reading!Parsed(got, u)
<1>1. SUFFICES ASSUME NEW f \in Reading!Transcripts(got), NEW i \in 1..Cap, i \in DOMAIN f.lines,
                      NEW line, line = f.lines[i]
               PROVE  /\ Reading!Agent(f, u) \in DOMAIN row.agents
                      /\ line.at # 0 => /\ row.agents[Reading!Agent(f, u)].from <= line.at
                                        /\ line.at <= row.agents[Reading!Agent(f, u)].to
                      /\ i \in Reading!Billed(f) =>
                           row.tokens[line.use.msg][1] + row.tokens[line.use.msg][2] >= line.use.flat
                      /\ i \in Reading!Nameless(f) => row.dropped > 0
  BY DEF Reading!Tells, Reading!Transcripts
<1>2. Known(new) /\ \A g \in Reading!Transcripts(got) :
                /\ Reading!Agent(g, u) \in DOMAIN new.agents
                /\ new.agents[Reading!Agent(g, u)] = Reading!Span(g)
                /\ \A j \in Reading!Billed(g) :
                     /\ g.lines[j].use.msg \in DOMAIN new.tokens
                     /\ new.tokens[g.lines[j].use.msg] = Reading!Settled(g, g.lines[j].use.msg)
                /\ Reading!Nameless(g) \cap 1..Cap # {} => new.dropped > 0
  BY ParsedIs
<1> HIDE DEF new
<1>3. /\ Known(row)
      /\ \A a \in DOMAIN new.agents :
           /\ a \in DOMAIN row.agents
           /\ row.agents[a].from <= new.agents[a].from /\ new.agents[a].to <= row.agents[a].to
      /\ \A m \in DOMAIN new.tokens :
           /\ m \in DOMAIN row.tokens
           /\ new.tokens[m][1] <= row.tokens[m][1] /\ new.tokens[m][2] <= row.tokens[m][2]
      /\ new.dropped <= row.dropped
  BY <1>2, ProjectedIs DEF new
<1>4. f \in Texts /\ line \in W /\ line \in Reading!RangeOf(f.lines)
  <2>1. f \in Texts /\ f.lines \in Seq(W)
    BY <1>1 DEF Reading!Transcripts, Reading!RangeOf
  <2>2. f.lines[i] \in W
    BY <1>1, <2>1
  <2> QED BY <1>1, <2>1, <2>2 DEF Reading!RangeOf
<1> DEFINE a == Reading!Agent(f, u)
<1>5. a \in DOMAIN new.agents /\ a \in DOMAIN row.agents /\ new.agents[a] = Reading!Span(f)
  BY <1>2, <1>3
<1>6. line.at # 0 => row.agents[a].from <= line.at /\ line.at <= row.agents[a].to
  <2> SUFFICES ASSUME line.at # 0 PROVE row.agents[a].from <= line.at /\ line.at <= row.agents[a].to
    OBVIOUS
  <2>1. /\ Reading!Span(f).from \in Nat /\ Reading!Span(f).to \in Nat
        /\ Reading!Span(f).from <= line.at /\ line.at <= Reading!Span(f).to
    BY <1>4, SpanIs
  <2>2. row.agents[a].from \in Nat /\ row.agents[a].to \in Nat /\ line.at \in Nat
    BY <1>3, <1>4, <1>5, LineIs DEF Known
  <2>3. row.agents[a].from <= Reading!Span(f).from /\ Reading!Span(f).to <= row.agents[a].to
    BY <1>3, <1>5
  <2> HIDE DEF a
  <2> QED BY <2>1, <2>2, <2>3
<1>7. i \in Reading!Billed(f) =>
        row.tokens[line.use.msg][1] + row.tokens[line.use.msg][2] >= line.use.flat
  <2> SUFFICES ASSUME i \in Reading!Billed(f)
               PROVE  row.tokens[line.use.msg][1] + row.tokens[line.use.msg][2] >= line.use.flat
    OBVIOUS
  <2> DEFINE m == line.use.msg
  <2>1. i \in Reading!Bills(f, m) /\ line.use # None
    BY <1>1 DEF Reading!Bills, Reading!Billed
  <2>2. /\ Reading!Settled(f, m) \in Nat \X Nat
        /\ line.use.flat <= Reading!Settled(f, m)[1] + Reading!Settled(f, m)[2]
    <3> HIDE DEF m
    <3> QED BY <1>1, <1>4, <2>1, SettledIs
  <2>3. m \in DOMAIN new.tokens /\ new.tokens[m] = Reading!Settled(f, m)
    BY <1>1, <1>2
  <2>4. row.tokens[m] \in Nat \X Nat /\ new.tokens[m][1] <= row.tokens[m][1] /\ new.tokens[m][2] <= row.tokens[m][2]
    BY <1>3, <2>3 DEF Known
  <2>5. line.use.flat \in Nat
    BY <1>4, <2>1, LineIs
  <2>6. row.tokens[m][1] + row.tokens[m][2] >= line.use.flat
    <3> HIDE DEF m
    <3>1. row.tokens[m][1] \in Nat /\ row.tokens[m][2] \in Nat
      BY <2>4
    <3>2. Reading!Settled(f, m)[1] \in Nat /\ Reading!Settled(f, m)[2] \in Nat
      BY <2>2
    <3> QED BY <2>2, <2>3, <2>4, <2>5, <3>1, <3>2
  <2> QED BY <2>6
<1>8. i \in Reading!Nameless(f) => row.dropped > 0
  <2>1. i \in Reading!Nameless(f) => new.dropped > 0
    BY <1>2
  <2> QED BY <1>2, <1>3, <2>1 DEF Known
<1> QED BY <1>5, <1>6, <1>7, <1>8

\* What a session's rows were when a reading ends.
Before(u) == IF stored[u] = None THEN Reading!Unknown ELSE stored[u]

LEMMA StoreIs ==
  ASSUME Reading!Store, NEW u \in Sessions, u = reading.session,
         NEW got \in Seq(Texts), got = reading.got, NEW s, s = reading.slug
  PROVE  /\ stored' = [stored EXCEPT ![u] = Reading!Projected(Before(u), Reading!Parsed(got, u), s, reading.partial)]
         /\ origin' = [origin EXCEPT ![u] = @ \cup {u}]
<1> DEFINE id == CHOOSE k \in Reading!Ids(reading.got) : TRUE
<1>1. /\ stored' = [stored EXCEPT ![id] =
                      Reading!Projected(IF stored[id] = None THEN Reading!Unknown ELSE stored[id],
                                        Reading!Parsed(reading.got, id), reading.slug, reading.partial)]
      /\ origin' = [origin EXCEPT ![id] = @ \cup {reading.session}]
  BY DEF Reading!Store
<1>2. ~Reading!Mismatched(got, u) /\ ~Reading!Contradicts(got)
  BY DEF Reading!Store
<1>3. Reading!Ids(got) = {u}
  BY <1>2, RefusedIs
<1>4. id = u
  BY <1>3
<1> HIDE DEF id
<1> QED BY <1>1, <1>4 DEF Before

LEMMA ConcludesKeeps ==
  ASSUME RBody, Reading!Nothing \/ Reading!Refuse \/ Reading!Store
  PROVE  RBody'
<1>1. PICK u \in Sessions, s \in Slugs, got \in Seq(Texts) :
        /\ reading # None /\ reading.at = "walk" /\ reading.left = {}
        /\ u = reading.session /\ s = reading.slug /\ got = reading.got
  BY DEF RBody, ReadingTyped, Reading!Nothing, Reading!Refuse, Reading!Store, Reading!Concludes
<1>2. /\ reading' = None /\ UNCHANGED <<files, hidden, fresh>>
      /\ \E outcome : verdict' = [verdict EXCEPT ![u] = outcome]
  BY <1>1 DEF Reading!Nothing, Reading!Refuse, Reading!Store, Reading!Concludes, Reading!disk
<1>3. reading.partial \in BOOLEAN
  BY <1>1 DEF RBody, ReadingTyped
<1>4. u \in fresh =>
        /\ s = Reading!Winner(u)
        /\ Reading!RangeOf(got) = Reading!Legible(u)
        /\ Reading!Readable(s, u, "main")
        /\ reading.partial = (Len(files[<<s, u, "main">>]) > Cap)
        /\ \A f, g \in Reading!Transcripts(got) : f.part = g.part => f = g
        /\ \A f \in Reading!Transcripts(got) : f.lines \in Seq(W) /\ Len(f.lines) <= Cap
  BY <1>1, ReadingIs
<1>5. \A v \in Sessions : Rests(v)
  BY <1>2 DEF Rests
<1> DEFINE TrulyNow ==
             IF \A f \in Reading!RangeOf(got) : ~Reading!Transcript(f.part) THEN verdict'[u] = "nothing"
             ELSE IF Reading!Poisoned(Reading!RangeOf(got), u) THEN verdict'[u] = "refused"
             ELSE /\ verdict'[u] = "stored" /\ stored'[u].slug = s
                  /\ Reading!Tells(stored'[u], Reading!RangeOf(got), u)
                  /\ stored'[u].partial = reading.partial
           RowsRest == /\ \A v \in Sessions : v # u => stored'[v] = stored[v]
                       /\ DOMAIN stored' = Sessions /\ DOMAIN origin' = Sessions
                       /\ stored'[u] # None => Known(stored'[u])
                       /\ \A v \in Sessions : origin'[v] \subseteq {v}
<1>6. ASSUME RowsRest, u \in fresh => TrulyNow PROVE RBody'
  <2>1. FilesKept'
    <3>1. \A v \in fresh : Reading!Listed(v)' # {}
      BY <1>5, RestsKeeps DEF RBody, FilesKept
    <3> QED BY <1>2, <3>1 DEF RBody, FilesKept
  <2>2. RowsKept' /\ Reading!NeverFused'
    BY <1>2, <1>6 DEF RBody, RowsKept, Known, Reading!NeverFused
  <2>3. ReadingTyped' /\ ReadingFaithful'
    BY <1>2 DEF ReadingTyped, ReadingFaithful
  <2>4. Reading!ReadTruly'
    <3> SUFFICES ASSUME NEW v \in fresh PROVE Reading!TrulyRead(v)'
      BY <1>2 DEF Reading!ReadTruly
    <3>1. v \in Sessions /\ Reading!Listed(v) # {}
      BY DEF RBody, FilesKept
    <3>2. CASE v # u
      <4>1. Reading!TrulyRead(v)
        BY <1>1, <3>2 DEF RBody, Reading!ReadTruly
      <4>2. verdict'[v] = verdict[v] /\ stored'[v] = stored[v]
        BY <1>2, <1>6, <3>1, <3>2 DEF RBody, RowsKept
      <4> QED BY <1>5, <3>1, <4>1, <4>2, RestsReadTruly
    <3>3. CASE v = u
      <4>1. Reading!Winner(u)' = s /\ Reading!Legible(u)' = Reading!RangeOf(got)
        <5>1. Reading!Listed(u)' = Reading!Listed(u)
          BY <1>5, RestsKeeps
        <5>2. Reading!Legible(u)' = Reading!Legible(u)
          BY <1>2, <5>1 DEF Reading!Legible, Reading!Winner, Reading!Of, Reading!Readable, Reading!SetMin
        <5> QED BY <1>4, <1>5, <3>3, <5>2, RestsKeeps
      <4>2. Reading!Readable(s, u, "main")'
        BY <1>2, <1>4, <3>3 DEF Reading!Readable
      <4>3. reading.partial = (Len(files'[<<s, u, "main">>]) > Cap)
        BY <1>2, <1>4, <3>3
      <4>4. TrulyNow
        BY <1>6, <3>3
      <4> QED BY <3>3, <4>1, <4>2, <4>3, <4>4 DEF Reading!TrulyRead
    <3> QED BY <3>2, <3>3
  <2> QED BY <2>1, <2>2, <2>3, <2>4 DEF RBody
<1>7. DOMAIN stored = Sessions /\ DOMAIN verdict = Sessions /\ DOMAIN origin = Sessions
      /\ (stored[u] # None => Known(stored[u])) /\ \A v \in Sessions : origin[v] \subseteq {v}
  BY DEF RBody, RowsKept, Reading!NeverFused
<1>8. (\A f \in Reading!RangeOf(got) : ~Reading!Transcript(f.part)) <=> Reading!Transcripts(got) = {}
  BY DEF Reading!Transcripts
<1>9. CASE Reading!Nothing
  <2>1. verdict'[u] = "nothing" /\ UNCHANGED <<stored, origin>> /\ Reading!Transcripts(got) = {}
    BY <1>1, <1>7, <1>9 DEF Reading!Nothing, Reading!Concludes
  <2> QED BY <1>6, <1>7, <1>8, <2>1
<1>10. CASE Reading!Refuse
  <2>1. /\ verdict'[u] = "refused" /\ UNCHANGED <<stored, origin>> /\ Reading!Transcripts(got) # {}
        /\ Reading!Mismatched(got, u) \/ Reading!Contradicts(got)
    BY <1>1, <1>7, <1>10 DEF Reading!Refuse, Reading!Concludes
  <2>2. Reading!Poisoned(Reading!RangeOf(got), u)
    BY <2>1, RefusedIs
  <2> QED BY <1>6, <1>7, <1>8, <2>1, <2>2
<1>11. CASE Reading!Store
  <2>1. /\ verdict'[u] = "stored" /\ Reading!Transcripts(got) # {}
        /\ ~Reading!Mismatched(got, u) /\ ~Reading!Contradicts(got)
    BY <1>1, <1>7, <1>11 DEF Reading!Store, Reading!Concludes
  <2>2. ~Reading!Poisoned(Reading!RangeOf(got), u)
    BY <2>1, RefusedIs
  <2> DEFINE was == Before(u)
             row == Reading!Projected(was, Reading!Parsed(got, u), s, reading.partial)
  <2>4. /\ stored' = [stored EXCEPT ![u] = row]
        /\ origin' = [origin EXCEPT ![u] = @ \cup {u}]
    BY <1>1, <1>11, StoreIs
  <2>5. Known(was)
    BY <1>7 DEF Before, Known, Reading!Unknown
  <2> HIDE DEF was
  <2>6. Known(Reading!Parsed(got, u))
    BY <2>1, ParsedIs
  <2>7. Known(row) /\ row.slug = s /\ row.partial = reading.partial
    BY <1>3, <2>5, <2>6, ProjectedIs
  <2>8. u \in fresh => Reading!Tells(row, Reading!RangeOf(got), u)
    BY <1>3, <1>4, <2>1, <2>5, ToldIs
  <2> HIDE DEF row
  <2>9. stored'[u] = row /\ RowsRest
    BY <1>7, <2>4, <2>7
  <2>10. u \in fresh => TrulyNow
    BY <1>8, <2>1, <2>2, <2>7, <2>8, <2>9
  <2> QED BY <1>6, <2>9, <2>10
<1> QED BY <1>9, <1>10, <1>11

LEMMA BeginsTruly == Reading!Init => RBody
<1> SUFFICES ASSUME Reading!Init PROVE RBody
  OBVIOUS
<1>1. \E s \in Slugs, v \in Sessions : \E line \in Writable(v, "main") :
        files = [f \in {<<s, v, "main">>} |-> <<line>>]
  <2>1. Reading!SetMax(Slugs) \in Slugs
    <3>1. PICK top \in Slugs : \A s \in Slugs : s <= top
      BY ReadingAssumption DEF Reading!Configured
    <3> QED BY <3>1, SetMaxIs, ReadingAssumption DEF Reading!Configured
  <2>2. (CHOOSE w \in Sessions : TRUE) \in Sessions
    BY ReadingAssumption DEF Reading!Configured
  <2> QED BY <2>1, <2>2 DEF Reading!Init
<1>2. /\ reading = None /\ fresh = {}
      /\ stored = [u \in Sessions |-> None] /\ verdict = [u \in Sessions |-> "none"]
      /\ origin = [u \in Sessions |-> {}]
  BY DEF Reading!Init
<1>3. RowsKept /\ ReadingTyped /\ ReadingFaithful /\ Reading!NeverFused /\ Reading!ReadTruly
  BY <1>2 DEF RowsKept, ReadingTyped, ReadingFaithful, Reading!NeverFused, Reading!ReadTruly
<1>4. FilesKept
  <2>1. PICK s \in Slugs, v \in Sessions :
          \E line \in Writable(v, "main") : files = [f \in {<<s, v, "main">>} |-> <<line>>]
    BY <1>1
  <2>2. PICK line \in Writable(v, "main") : files = [f \in {<<s, v, "main">>} |-> <<line>>]
    BY <2>1
  <2>3. "main" \in Reading!Parts /\ line \in W
    BY DEF Reading!Parts, W
  <2> QED BY <1>2, <2>2, <2>3 DEF FilesKept
<1> QED BY <1>3, <1>4 DEF RBody

LEMMA ReadingSteps ==
  ASSUME NoneIsNoReading, RBody, Reading!Next \/ UNCHANGED read
  PROVE  RBody'
<1>1. ASSUME UNCHANGED <<files, hidden, reading, stored, verdict, fresh, origin>> PROVE RBody'
  BY <1>1, StandsStill
<1>2. CASE UNCHANGED read
  BY <1>1, <1>2 DEF read
<1>3. CASE Reading!Environment
  BY <1>3, WorldKeeps
<1>4. CASE Reading!Reader
  <2>1. CASE Reading!NoSession
    BY <1>1, <2>1 DEF Reading!NoSession, Reading!vars, Reading!disk
  <2> QED BY <1>4, <2>1, BeginKeeps, StepsKeep, ConcludesKeeps DEF Reading!Reader
<1> QED BY <1>2, <1>3, <1>4 DEF Reading!Next

\* Beside the ledger and the tree, whose behaviours leave the reading alone.
LEMMA BesideOthers ==
  ASSUME [IngestedNext]_all, subject' = "reading"
  PROVE  subject = "reading" /\ (Reading!Next \/ UNCHANGED read)
BY DEF IngestedNext, all

RInv == subject = "reading" => RBody

\* Whatever is written, copied, removed or hidden between the steps of a
\* reading, a session whose files rested since its reading began is stored as
\* they are, refused for what they say, or has nothing to read, and no session's
\* rows come from files of another name (buildSessionSubstrate, parseSession,
\* runCorpusIngest: the identity check; upsertSession).
THEOREM ReadsTruly ==
  ASSUME NoneIsNoReading
  PROVE  IngestedSpec => []ReadTruly
<1>1. IngestedInit => RInv
  BY BeginsTruly DEF IngestedInit, RInv
<1>2. RInv /\ [IngestedNext]_all => RInv'
  BY BesideOthers, ReadingSteps DEF RInv
<1>3. RInv => ReadTruly
  BY DEF RInv, RBody, ReadTruly
<1> QED BY <1>1, <1>2, <1>3, PTL DEF IngestedSpec

-----------------------------------------------------------------------------
(* While files only grow *)

\* A file that has grown.
Prefix(ls, more) ==
  /\ ls \in Seq(W) /\ more \in Seq(W)
  /\ \A i \in DOMAIN ls : i \in DOMAIN more /\ more[i] = ls[i]

Lost(ls, i) == i \in DOMAIN ls /\ ls[i].use # None /\ ls[i].use.msg = None

\* What was read of the parts that were looked at is the beginning of what they
\* are now.
ReadBeginnings ==
  growing =>
    /\ hidden = {}
    /\ \A f, g \in DOMAIN files : f[1] = g[1]
    /\ reading # None =>
         /\ <<reading.slug, reading.session, "main">> \in DOMAIN files
         /\ \A f \in Reading!RangeOf(reading.got) :
              /\ f.part \in Looked
              /\ <<reading.slug, reading.session, f.part>> \in DOMAIN files
              /\ Prefix(f.lines, files[<<reading.slug, reading.session, f.part>>])
         /\ \A f, g \in Reading!RangeOf(reading.got) : f.part = g.part => f = g

\* Lines of u's transcripts that cannot be told apart, and whether the reading
\* in progress has what it looked at of them.
LostOf(P, u) ==
  \A e \in P :
    /\ e[1] \in Hexes \cup {"main"}
    /\ \E s \in Slugs : <<s, u, e[1]>> \in DOMAIN files /\ Lost(files[<<s, u, e[1]>>], e[2])

Reread(P, u) ==
  reading # None /\ reading.session = u =>
    \A e \in P : e[1] \in Looked =>
      \/ e[1] = "main" /\ reading.partial
      \/ e[1] \in Hexes /\ Len(files[<<reading.slug, u, e[1]>>]) > Cap
      \/ \E f \in Reading!RangeOf(reading.got) : f.part = e[1] /\ Lost(f.lines, e[2])

Pairs == Reading!Parts \X (1..Cap)

Counts(n, u) ==
  \E P \in SUBSET Pairs : IsFiniteSet(P) /\ n <= Cardinality(P) /\ LostOf(P, u) /\ Reread(P, u)

Counted ==
  growing => \A u \in Sessions : stored[u] # None => Counts(stored[u].dropped, u)

GBody == RBody /\ ReadBeginnings /\ Counted

LEMMA PrefixIsKept ==
  ASSUME NEW a, NEW b, NEW c, Prefix(a, b), Prefix(b, c)
  PROVE  Prefix(a, c) /\ Len(b) <= Len(c) /\ Len(b) \in Nat /\ Len(c) \in Nat
<1>1. /\ DOMAIN b = 1..Len(b) /\ Len(b) \in Nat /\ DOMAIN c = 1..Len(c) /\ Len(c) \in Nat
  BY DEF Prefix
<1>2. Len(b) <= Len(c)
  <2>1. CASE Len(b) = 0
    BY <1>1, <2>1
  <2>2. CASE Len(b) > 0
    <3>1. Len(b) \in DOMAIN b
      BY <1>1, <2>2
    <3>2. Len(b) \in DOMAIN c
      BY <3>1 DEF Prefix
    <3> QED BY <1>1, <3>2
  <2> QED BY <1>1, <2>1, <2>2
<1> QED BY <1>1, <1>2 DEF Prefix

LEMMA PrefixOfItself ==
  ASSUME NEW ls \in Seq(W)
  PROVE  Prefix(ls, ls)
BY DEF Prefix

\* Files grow: the reading, and what was counted, stay beginnings of them.
LEMMA GrowthKeeps ==
  ASSUME GBody, RBody', growing' => growing,
         UNCHANGED <<reading, stored>>, growing' => hidden' = {},
         growing' => \A f, g \in DOMAIN files' : f[1] = g[1],
         growing' => \A f \in DOMAIN files : f \in DOMAIN files' /\ Prefix(files[f], files'[f])
  PROVE  GBody'
<1> SUFFICES ASSUME growing' PROVE ReadBeginnings' /\ Counted'
  BY DEF GBody, ReadBeginnings, Counted
<1>1. Looked' = Looked
  BY DEF Looked
<1>2. ReadBeginnings'
  <2> SUFFICES ASSUME reading # None, NEW f \in Reading!RangeOf(reading.got)
               PROVE  /\ <<reading.slug, reading.session, f.part>> \in DOMAIN files'
                      /\ Prefix(f.lines, files'[<<reading.slug, reading.session, f.part>>])
    BY <1>1 DEF GBody, ReadBeginnings, Reading!RangeOf
  <2> DEFINE path == <<reading.slug, reading.session, f.part>>
  <2>1. path \in DOMAIN files /\ Prefix(f.lines, files[path])
    BY DEF GBody, ReadBeginnings
  <2>2. path \in DOMAIN files' /\ Prefix(files[path], files'[path])
    BY <2>1
  <2> HIDE DEF path
  <2>3. Prefix(f.lines, files'[path])
    BY <2>1, <2>2, PrefixIsKept
  <2> QED BY <2>2, <2>3 DEF path
<1>3. Counted'
  <2> SUFFICES ASSUME NEW u \in Sessions, stored[u] # None PROVE Counts(stored[u].dropped, u)'
    BY DEF Counted
  <2>1. PICK P \in SUBSET Pairs : /\ IsFiniteSet(P) /\ stored[u].dropped <= Cardinality(P)
                                  /\ LostOf(P, u) /\ Reread(P, u)
    BY DEF GBody, Counted, Counts
  <2>2. LostOf(P, u)'
    <3> SUFFICES ASSUME NEW e \in P
                 PROVE  \E s \in Slugs : <<s, u, e[1]>> \in DOMAIN files' /\ Lost(files'[<<s, u, e[1]>>], e[2])
      BY <2>1 DEF LostOf
    <3>1. PICK s \in Slugs : <<s, u, e[1]>> \in DOMAIN files /\ Lost(files[<<s, u, e[1]>>], e[2])
      BY <2>1 DEF LostOf
    <3> DEFINE path == <<s, u, e[1]>>
    <3>2. path \in DOMAIN files' /\ Prefix(files[path], files'[path])
      BY <3>1
    <3>3. Lost(files[path], e[2])
      BY <3>1
    <3> HIDE DEF path
    <3>4. Lost(files'[path], e[2])
      BY <3>2, <3>3 DEF Lost, Prefix
    <3> QED BY <3>2, <3>4 DEF path
  <2>3. Reread(P, u)'
    <3> SUFFICES ASSUME reading # None, reading.session = u, NEW e \in P, e[1] \in Looked
                 PROVE  \/ e[1] = "main" /\ reading.partial
                        \/ e[1] \in Hexes /\ Len(files'[<<reading.slug, u, e[1]>>]) > Cap
                        \/ \E f \in Reading!RangeOf(reading.got) : f.part = e[1] /\ Lost(f.lines, e[2])
      BY <1>1 DEF Reread
    <3>1. CASE e[1] \in Hexes /\ Len(files[<<reading.slug, u, e[1]>>]) > Cap
      <4> DEFINE path == <<reading.slug, u, e[1]>>
      <4>1. path \in DOMAIN files
        <5>1. PICK s \in Slugs : <<s, u, e[1]>> \in DOMAIN files
          BY <2>1 DEF LostOf
        <5>2. <<reading.slug, reading.session, "main">> \in DOMAIN files
          BY DEF GBody, ReadBeginnings
        <5>3. <<s, u, e[1]>>[1] = <<reading.slug, reading.session, "main">>[1]
          BY <5>1, <5>2 DEF GBody, ReadBeginnings
        <5> QED BY <5>1, <5>3
      <4>2. Prefix(files[path], files'[path]) /\ Len(files[path]) > Cap /\ Cap \in Nat
        BY <3>1, <4>1, ReadingAssumption DEF Reading!Configured
      <4> HIDE DEF path
      <4>3. files[path] \in Seq(W)
        BY <4>2 DEF Prefix
      <4>4. Len(files'[path]) > Cap
        BY <4>2, <4>3, PrefixIsKept, PrefixOfItself
      <4> QED BY <3>1, <4>4 DEF path
    <3> QED BY <2>1, <3>1 DEF Reread
  <2> QED BY <2>1, <2>2, <2>3 DEF Counts, Pairs
<1> QED BY <1>2, <1>3

LEMMA WriteGrows ==
  ASSUME GBody, Reading!Environment
  PROVE  GBody'
<1>0. RBody'
  BY WorldKeeps DEF GBody
<1>1. ASSUME NEW s \in Slugs, NEW u \in Sessions, NEW p \in Reading!Parts, Reading!Write(s, u, p)
      PROVE  GBody'
  <2>1. UNCHANGED <<hidden, growing, reading, stored>> /\ <<s, u, "main">> \in DOMAIN files
    BY <1>1 DEF Reading!Write, Reading!Changes
  <2> DEFINE path == <<s, u, p>>
             Put(ls) == files' = [f \in DOMAIN files \cup {path} |-> IF f = path THEN ls ELSE files[f]]
  <2>2. \A f \in DOMAIN files : files[f] \in Seq(W)
    BY DEF GBody, RBody, FilesKept
  <2>3. \/ path \notin DOMAIN files /\ Put(<< >>)
        \/ \E line \in Writable(u, p) : Put(Append(IF path \in DOMAIN files THEN files[path] ELSE << >>, line))
    BY <1>1 DEF Reading!Write
  <2>4. DOMAIN files' = DOMAIN files \cup {path}
    BY <2>3
  <2>5. ASSUME NEW f \in DOMAIN files PROVE Prefix(files[f], files'[f])
    <3>1. CASE f # path
      <4>1. files'[f] = files[f]
        BY <2>3, <3>1
      <4> QED BY <2>2, <4>1, PrefixOfItself
    <3>2. CASE f = path
      <4>1. PICK line \in Writable(u, p) : files'[f] = Append(files[f], line)
        BY <2>3, <3>2
      <4>2. line \in W
        BY DEF W
      <4>3. files[f] \in Seq(W)
        BY <2>2
      <4> QED BY <4>1, <4>2, <4>3 DEF Prefix
    <3> QED BY <3>1, <3>2
  <2>6. growing' => \A f, g \in DOMAIN files' : f[1] = g[1]
    <3> SUFFICES ASSUME growing PROVE \A f \in DOMAIN files' : f[1] = s
      BY <2>1
    <3>1. \A f \in DOMAIN files : f[1] = <<s, u, "main">>[1]
      BY <2>1 DEF GBody, ReadBeginnings
    <3> QED BY <2>4, <3>1
  <2>7. growing' => hidden' = {}
    BY <2>1 DEF GBody, ReadBeginnings
  <2> HIDE DEF path, Put
  <2> QED BY <1>0, <2>1, <2>4, <2>5, <2>6, <2>7, GrowthKeeps
<1>2. ASSUME ~growing' PROVE GBody'
  BY <1>0, <1>2 DEF GBody, ReadBeginnings, Counted
<1>3. ASSUME Reading!Heal PROVE ~growing'
  BY <1>3 DEF Reading!Heal, GBody, ReadBeginnings
<1>4. ASSUME NEW s \in Slugs, NEW t \in Slugs, Reading!CopyProject(s, t) PROVE ~growing'
  BY <1>4 DEF Reading!CopyProject, Reading!Keeps
<1>5. ASSUME NEW s \in Slugs, NEW u, NEW v, Reading!CopyTranscript(s, u, v) PROVE ~growing'
  BY <1>5 DEF Reading!CopyTranscript, Reading!Keeps
<1>6. ASSUME NEW s \in Slugs, Reading!RemoveProject(s) PROVE ~growing'
  BY <1>6 DEF Reading!RemoveProject, Reading!Keeps
<1>7. ASSUME NEW f, Reading!Hide(f) PROVE ~growing'
  BY <1>7 DEF Reading!Hide
<1> QED BY <1>1, <1>2, <1>3, <1>4, <1>5, <1>6, <1>7 DEF Reading!Environment

\* The reader looks at parts it has not looked at.
LEMMA LooksKeep ==
  ASSUME GBody, RBody', UNCHANGED <<files, hidden, growing, stored>>,
         reading # None, NEW s \in Slugs, s = reading.slug, NEW u \in Sessions, u = reading.session,
         reading' # None, reading'.slug = s, reading'.session = u,
         NEW Q \in SUBSET Reading!Parts, Looked' = Looked \cup Q, Looked \cap Q = {},
         Reading!RangeOf(reading'.got)
           = Reading!RangeOf(reading.got) \cup {Text(s, u, q) : q \in Taken(s, u) \cap Q},
         Looked # {} => reading'.partial = reading.partial,
         "main" \in Q /\ growing => reading'.partial = (Len(files[<<s, u, "main">>]) > Cap)
  PROVE  GBody'
<1> SUFFICES ASSUME growing PROVE ReadBeginnings' /\ Counted'
  BY DEF GBody, ReadBeginnings, Counted
<1>1. /\ hidden = {} /\ (\A f, g \in DOMAIN files : f[1] = g[1]) /\ <<s, u, "main">> \in DOMAIN files
      /\ \A f \in Reading!RangeOf(reading.got) :
           f.part \in Looked /\ <<s, u, f.part>> \in DOMAIN files /\ Prefix(f.lines, files[<<s, u, f.part>>])
      /\ \A f, g \in Reading!RangeOf(reading.got) : f.part = g.part => f = g
  BY DEF GBody, ReadBeginnings
<1>2. \A p : Text(s, u, p).part = p /\ Text(s, u, p).lines = files[<<s, u, p>>]
  BY DEF Text
<1>3. \A q \in Taken(s, u) : <<s, u, q>> \in DOMAIN files /\ Prefix(files[<<s, u, q>>], files[<<s, u, q>>])
  BY PrefixOfItself DEF Taken, Reading!Of, GBody, RBody, FilesKept
<1>4. \A f \in Reading!RangeOf(reading'.got) :
        \/ f \in Reading!RangeOf(reading.got)
        \/ f.part \in Taken(s, u) \cap Q /\ f = Text(s, u, f.part)
  BY <1>2
<1>5. ReadBeginnings'
  <2>1. \A f \in Reading!RangeOf(reading'.got) :
          f.part \in Looked' /\ <<s, u, f.part>> \in DOMAIN files /\ Prefix(f.lines, files[<<s, u, f.part>>])
    BY <1>1, <1>2, <1>3, <1>4
  <2>2. \A f, g \in Reading!RangeOf(reading'.got) : f.part = g.part => f = g
    BY <1>1, <1>4
  <2> QED BY <1>1, <2>1, <2>2 DEF ReadBeginnings
<1>6. Counted'
  <2> SUFFICES ASSUME NEW v \in Sessions, stored[v] # None PROVE Counts(stored[v].dropped, v)'
    BY DEF Counted
  <2>1. PICK P \in SUBSET Pairs : /\ IsFiniteSet(P) /\ stored[v].dropped <= Cardinality(P)
                                  /\ LostOf(P, v) /\ Reread(P, v)
    BY DEF GBody, Counted, Counts
  <2>2. LostOf(P, v)'
    BY <2>1 DEF LostOf
  <2>3. Reread(P, v)'
    <3> SUFFICES ASSUME v = u, NEW e \in P, e[1] \in Looked \cup Q
                 PROVE  \/ e[1] = "main" /\ reading'.partial
                        \/ e[1] \in Hexes /\ Len(files[<<s, u, e[1]>>]) > Cap
                        \/ \E f \in Reading!RangeOf(reading'.got) : f.part = e[1] /\ Lost(f.lines, e[2])
      BY DEF Reread
    <3>1. CASE e[1] \in Looked
      BY <2>1, <3>1 DEF Reread
    <3>2. CASE e[1] \in Q
      <4> DEFINE path == <<s, u, e[1]>>
      <4>1. path \in DOMAIN files /\ Lost(files[path], e[2]) /\ e[1] \in Hexes \cup {"main"}
        <5>1. /\ e[1] \in Hexes \cup {"main"}
              /\ \E t \in Slugs : <<t, u, e[1]>> \in DOMAIN files /\ Lost(files[<<t, u, e[1]>>], e[2])
          BY <2>1 DEF LostOf
        <5>2. \A t : <<t, u, e[1]>> \in DOMAIN files => t = s
          BY <1>1
        <5> QED BY <5>1, <5>2
      <4>2. files[path] \in Seq(W) /\ Cap \in Nat
        BY <4>1, ReadingAssumption DEF GBody, RBody, FilesKept, Reading!Configured
      <4>3. CASE Len(files[path]) > Cap
        BY <1>1, <3>2, <4>1, <4>3
      <4>4. CASE ~(Len(files[path]) > Cap)
        <5>1. Len(files[path]) \in 1..Cap
          BY <4>1, <4>2, <4>4 DEF Lost
        <5>2. e[1] \in Reading!Parts /\ e[1] # "notes" /\ Reading!Transcript(e[1])
          BY <4>1, ReadingAssumption DEF Reading!Parts, Reading!Under, Reading!Transcript, Reading!Configured
        <5>3. e[1] \in Taken(s, u)
          BY <1>1, <4>1, <5>1, <5>2 DEF Taken, Reading!Of, Reading!Readable
        <5>4. Text(s, u, e[1]) \in Reading!RangeOf(reading'.got)
          BY <3>2, <5>3
        <5> QED BY <1>2, <4>1, <5>4
      <4> QED BY <4>3, <4>4
    <3> QED BY <3>1, <3>2
  <2> QED BY <2>1, <2>2, <2>3 DEF Counts, Pairs
<1> QED BY <1>5, <1>6

LEMMA BeginGrows ==
  ASSUME NoneIsNoReading, GBody, NEW u \in Sessions, Reading!Begin(u)
  PROVE  GBody'
<1>1. RBody'
  BY BeginKeeps DEF GBody
<1>2. /\ UNCHANGED <<files, hidden, growing, stored>> /\ reading = None /\ Reading!Listed(u) # {}
      /\ reading' = [at |-> "main", slug |-> Reading!Winner(u), session |-> u,
                     left |-> {}, got |-> << >>, partial |-> FALSE]
  BY DEF Reading!Begin, Reading!disk
<1>3. <<Reading!Winner(u), u, "main">> \in DOMAIN files
  BY <1>2, WinnerIs DEF Reading!Listed, Reading!Of
<1>4. Looked' = {} /\ Reading!RangeOf(reading'.got) = {} /\ reading'.slug = Reading!Winner(u) /\ reading'.session = u
  BY <1>2 DEF Looked, Reading!RangeOf
<1>5. ReadBeginnings'
  BY <1>2, <1>3, <1>4 DEF GBody, ReadBeginnings, Reading!RangeOf
<1>6. Counted'
  <2> SUFFICES ASSUME growing, NEW v \in Sessions, stored[v] # None PROVE Counts(stored[v].dropped, v)'
    BY <1>2 DEF Counted
  <2>1. PICK P \in SUBSET Pairs : IsFiniteSet(P) /\ stored[v].dropped <= Cardinality(P) /\ LostOf(P, v)
    BY DEF GBody, Counted, Counts
  <2>2. LostOf(P, v)' /\ Reread(P, v)'
    BY <1>2, <1>4, <2>1 DEF LostOf, Reread
  <2> QED BY <1>2, <2>1, <2>2 DEF Counts, Pairs
<1> QED BY <1>1, <1>5, <1>6 DEF GBody

LEMMA StepsGrow ==
  ASSUME NoneIsNoReading, GBody,
         Reading!ReadMain \/ Reading!ListDir \/ \E p \in Reading!Under : Reading!ReadPart(p)
  PROVE  GBody'
<1>1. PICK u \in Sessions, s \in Slugs : u = reading.session /\ s = reading.slug /\ reading # None
  BY DEF Reading!ReadMain, Reading!ListDir, Reading!ReadPart, GBody, RBody, ReadingTyped
<1>2. /\ reading \in [at : {"main", "dir", "walk"}, slug : Slugs, session : Sessions,
                      left : SUBSET Reading!Under, got : Seq(Texts), partial : BOOLEAN]
      /\ reading.at = "main" => reading.got = << >>
  BY <1>1 DEF GBody, RBody, ReadingTyped
<1>3. UNCHANGED <<files, hidden, growing, stored>>
  BY DEF Reading!ReadMain, Reading!ListDir, Reading!ReadPart, Reading!disk
<1>4. RBody'
  BY StepsKeep DEF GBody
<1>5. "main" \in Reading!Parts /\ "main" \notin Reading!Under /\ Reading!Parts = Reading!Under \cup {"main"}
  BY ReadingAssumption DEF Reading!Configured, Reading!Parts, Reading!Under
<1>6. \A p \in Reading!Parts :
        Reading!RangeOf(Reading!Adds(p))
          = Reading!RangeOf(reading.got) \cup {Text(s, u, q) : q \in Taken(s, u) \cap {p}}
  BY <1>1, AddsIs DEF GBody, RBody
<1> DEFINE Looks(Q) ==
             /\ reading' # None /\ reading'.slug = s /\ reading'.session = u
             /\ Looked' = Looked \cup Q /\ Looked \cap Q = {}
             /\ Reading!RangeOf(reading'.got)
                  = Reading!RangeOf(reading.got) \cup {Text(s, u, q) : q \in Taken(s, u) \cap Q}
             /\ Looked # {} => reading'.partial = reading.partial
             /\ "main" \in Q /\ growing => reading'.partial = (Len(files[<<s, u, "main">>]) > Cap)
<1>7. ASSUME NEW Q \in SUBSET Reading!Parts, Looks(Q) PROVE GBody'
  BY <1>1, <1>3, <1>4, <1>7, LooksKeep
<1>8. CASE Reading!ReadMain
  <2>1. /\ reading.at = "main"
        /\ reading' = [reading EXCEPT !.at = "dir", !.got = Reading!Adds("main"),
                                      !.partial = Reading!Oversize("main")]
    BY <1>8 DEF Reading!ReadMain
  <2>2. reading' = [at |-> "dir", slug |-> s, session |-> u, left |-> reading.left,
                    got |-> Reading!Adds("main"), partial |-> Reading!Oversize("main")]
    BY <1>1, <1>2, <2>1
  <2>3. Looked' = {"main"} /\ Looked = {}
    BY <2>1, <2>2 DEF Looked
  <2>4. ASSUME growing PROVE Reading!Oversize("main") = (Len(files[<<s, u, "main">>]) > Cap)
    <3>1. hidden = {} /\ <<s, u, "main">> \in DOMAIN files
      BY <1>1, <2>4 DEF GBody, ReadBeginnings
    <3> QED BY <1>1, <1>5, <3>1 DEF Reading!Oversize, Reading!There, Reading!LinesOf, Reading!Now,
                                    Reading!Of, Reading!Readable
  <2>5. /\ reading'.slug = s /\ reading'.session = u /\ reading'.got = Reading!Adds("main")
        /\ reading'.partial = Reading!Oversize("main") /\ reading' # None
    BY <2>2 DEF NoneIsNoReading
  <2>6. Looks({"main"})
    BY <1>5, <1>6, <2>3, <2>4, <2>5
  <2> HIDE DEF Looks
  <2> QED BY <1>5, <1>7, <2>6
<1>9. CASE Reading!ListDir
  <2> DEFINE left == IF <<s>> \in hidden THEN {} ELSE Reading!Under \cap Reading!Of(s, u)
             Q == Reading!Under \ left
  <2>1. reading.at = "dir" /\ reading' = [reading EXCEPT !.at = "walk", !.left = left]
    BY <1>1, <1>9 DEF Reading!ListDir, Reading!Now
  <2>2. reading' = [at |-> "walk", slug |-> s, session |-> u, left |-> left,
                    got |-> reading.got, partial |-> reading.partial]
    BY <1>1, <1>2, <2>1
  <2>3. Looked' = Reading!Parts \ left /\ Looked = {"main"}
    BY <2>1, <2>2 DEF Looked
  <2>4. Taken(s, u) \cap Q = {}
    <3>1. CASE <<s>> \in hidden
      BY <3>1 DEF Taken, Reading!Readable
    <3>2. CASE <<s>> \notin hidden
      BY <3>2 DEF Taken
    <3> QED BY <3>1, <3>2
  <2>5. left \subseteq Reading!Under
    OBVIOUS
  <2> HIDE DEF left
  <2>6. /\ reading'.slug = s /\ reading'.session = u /\ reading'.got = reading.got
        /\ reading'.partial = reading.partial /\ reading' # None
    BY <2>2 DEF NoneIsNoReading
  <2>7. Looked' = Looked \cup Q /\ Looked \cap Q = {} /\ "main" \notin Q /\ Q \in SUBSET Reading!Parts
    BY <1>5, <2>3, <2>5
  <2> HIDE DEF Q
  <2>8. Looks(Q)
    BY <2>4, <2>6, <2>7
  <2> HIDE DEF Looks
  <2> QED BY <1>7, <2>7, <2>8
<1>10. ASSUME NEW p \in Reading!Under, Reading!ReadPart(p) PROVE GBody'
  <2>1. /\ reading.at = "walk" /\ p \in reading.left
        /\ reading' = [reading EXCEPT !.left = @ \ {p}, !.got = Reading!Adds(p)]
    BY <1>10 DEF Reading!ReadPart
  <2>2. reading' = [at |-> "walk", slug |-> s, session |-> u, left |-> reading.left \ {p},
                    got |-> Reading!Adds(p), partial |-> reading.partial]
    BY <1>1, <1>2, <2>1
  <2>3. Looked' = Looked \cup {p} /\ Looked \cap {p} = {} /\ p # "main" /\ p \in Reading!Parts
    BY <1>5, <2>1, <2>2 DEF Looked
  <2>4. /\ reading'.slug = s /\ reading'.session = u /\ reading'.got = Reading!Adds(p)
        /\ reading'.partial = reading.partial /\ reading' # None
    BY <2>2 DEF NoneIsNoReading
  <2>5. Looks({p})
    BY <1>6, <2>3, <2>4
  <2> HIDE DEF Looks
  <2> QED BY <1>7, <2>3, <2>5
<1> QED BY <1>8, <1>9, <1>10

-----------------------------------------------------------------------------
(* What a reading that ends adds to a session's rows *)

\* The lines of what was read that cannot be told apart.
LostIn(got) ==
  {e \in Pairs : \E f \in Reading!Transcripts(got) : f.part = e[1] /\ Lost(f.lines, e[2])}

\* They are as many as the row counts.
LEMMA LostAre ==
  ASSUME NEW got \in Seq(Texts), NEW u,
         \A f, g \in Reading!RangeOf(got) : f.part = g.part => f = g
  PROVE  /\ IsFiniteSet(LostIn(got)) /\ Cardinality(LostIn(got)) \in Nat
         /\ Reading!Parsed(got, u).dropped = Cardinality(LostIn(got))
<1> DEFINE told == Reading!Transcripts(got)
           lost == {e \in told \X (1..Cap) : e[2] \in Reading!Nameless(e[1])}
           named == [e \in lost |-> <<e[1].part, e[2]>>]
<1>1. told \subseteq Reading!RangeOf(got) /\ told \subseteq Texts
  BY DEF Reading!Transcripts, Reading!RangeOf
<1>2. IsFiniteSet(lost)
  BY LostIsFinite
<1>3. \A f \in told : f.part \in Reading!Parts
  BY <1>1 DEF Texts
<1>4. \A f, i : i \in Reading!Nameless(f) <=> Lost(f.lines, i)
  BY DEF Reading!Nameless, Lost
<1>5. \A e \in lost : e[1] \in told /\ e[2] \in 1..Cap /\ Lost(e[1].lines, e[2]) /\ e = <<e[1], e[2]>>
  BY <1>4
<1>6. \A f \in told, i \in 1..Cap : Lost(f.lines, i) => <<f, i>> \in lost
  BY <1>4
<1> HIDE DEF told, lost
<1>7. \A e \in lost : <<e[1].part, e[2]>> \in LostIn(got)
  <2> SUFFICES ASSUME NEW e \in lost PROVE <<e[1].part, e[2]>> \in LostIn(got)
    OBVIOUS
  <2>1. <<e[1].part, e[2]>> \in Pairs
    BY <1>3, <1>5 DEF Pairs
  <2> QED BY <1>5, <2>1 DEF LostIn, told
<1>8. named \in [lost -> LostIn(got)]
  BY <1>7
<1>9. \A d, e \in lost : d[1].part = e[1].part /\ d[2] = e[2] => d = e
  <2> SUFFICES ASSUME NEW d \in lost, NEW e \in lost, d[1].part = e[1].part, d[2] = e[2]
               PROVE  d = e
    OBVIOUS
  <2>1. d[1] \in Reading!RangeOf(got) /\ e[1] \in Reading!RangeOf(got)
    BY <1>1, <1>5
  <2>2. d[1] = e[1]
    BY <2>1
  <2> QED BY <1>5, <2>2
<1>10. \A e \in LostIn(got) : \E d \in lost : <<d[1].part, d[2]>> = e
  <2> SUFFICES ASSUME NEW e \in LostIn(got) PROVE \E d \in lost : <<d[1].part, d[2]>> = e
    OBVIOUS
  <2>1. e = <<e[1], e[2]>> /\ e[2] \in 1..Cap
    BY DEF LostIn, Pairs
  <2>2. PICK f \in told : f.part = e[1] /\ Lost(f.lines, e[2])
    BY DEF LostIn, told
  <2>3. <<f, e[2]>> \in lost
    BY <1>6, <2>1, <2>2
  <2> QED BY <2>1, <2>2, <2>3
<1>11. named \in Bijection(lost, LostIn(got))
  BY <1>8, <1>9, <1>10 DEF Bijection, Injection, Surjection, IsInjective
<1>12. IsFiniteSet(LostIn(got)) /\ Cardinality(LostIn(got)) = Cardinality(lost)
  BY <1>2, <1>11, FS_Bijection DEF ExistsBijection
<1>13. Reading!Parsed(got, u).dropped = Cardinality(lost)
  BY SameCardinality DEF Reading!Parsed, lost, told
<1> QED BY <1>2, <1>12, <1>13, FS_CardinalityType

LEMMA TwoAre ==
  ASSUME NEW m \in Nat, NEW n \in Nat
  PROVE  /\ Reading!SetMin({m, n}) = IF m <= n THEN m ELSE n
         /\ Reading!SetMax({m, n}) = IF m >= n THEN m ELSE n
<1> DEFINE S == {m, n}
<1>1. S \in SUBSET Nat /\ S # {} /\ m + n \in Nat /\ \A k \in S : k <= m + n
  OBVIOUS
<1>2. /\ Reading!SetMin(S) \in S /\ \A k \in S : Reading!SetMin(S) <= k
      /\ Reading!SetMax(S) \in S /\ \A k \in S : k <= Reading!SetMax(S)
  <2> HIDE DEF S
  <2> QED BY <1>1, SetMinIs, SetMaxIs
<1> QED BY <1>2

LEMMA DroppedIs ==
  ASSUME NEW was \in Nat, NEW new \in Nat, NEW partial
  PROVE  /\ Reading!Dropped(was, new, partial) \in {was, new}
         /\ partial => was <= Reading!Dropped(was, new, partial)
         /\ ~partial => Reading!Dropped(was, new, partial) = new
<1>1. Reading!SetMax({was, new}) = IF was >= new THEN was ELSE new
  BY TwoAre
<1> QED BY <1>1 DEF Reading!Dropped

LEMMA WiderIs ==
  \A a, b \in [from : Nat, to : Nat] : /\ Reading!Wider(a, Reading!Wider(a, b)) = Reading!Wider(a, b)
                                       /\ Reading!Wider(a, a) = a
<1> SUFFICES ASSUME NEW a \in [from : Nat, to : Nat], NEW b \in [from : Nat, to : Nat]
             PROVE  /\ Reading!Wider(a, Reading!Wider(a, b)) = Reading!Wider(a, b)
                    /\ Reading!Wider(a, a) = a
  OBVIOUS
<1>1. \A c, d \in [from : Nat, to : Nat] :
        Reading!Wider(c, d) = [from |-> IF c.from <= d.from THEN c.from ELSE d.from,
                               to |-> IF c.to >= d.to THEN c.to ELSE d.to]
  BY TwoAre DEF Reading!Wider
<1>2. Reading!Wider(a, b) \in [from : Nat, to : Nat]
  BY <1>1
<1> QED BY <1>1, <1>2

LEMMA LargerIs ==
  \A a, b \in Nat \X Nat : /\ Reading!Larger(a, Reading!Larger(a, b)) = Reading!Larger(a, b)
                           /\ Reading!Larger(a, a) = a
<1> SUFFICES ASSUME NEW a \in Nat \X Nat, NEW b \in Nat \X Nat
             PROVE  /\ Reading!Larger(a, Reading!Larger(a, b)) = Reading!Larger(a, b)
                    /\ Reading!Larger(a, a) = a
  OBVIOUS
<1>1. \A c, d \in Nat \X Nat :
        Reading!Larger(c, d) = <<IF c[1] >= d[1] THEN c[1] ELSE d[1],
                                 IF c[2] >= d[2] THEN c[2] ELSE d[2]>>
  BY TwoAre DEF Reading!Larger
<1> DEFINE more == Reading!Larger(a, b)
<1>2. /\ a[1] \in Nat /\ a[2] \in Nat /\ a = <<a[1], a[2]>>
      /\ b[1] \in Nat /\ b[2] \in Nat
  OBVIOUS
<1>3. more = <<IF a[1] >= b[1] THEN a[1] ELSE b[1], IF a[2] >= b[2] THEN a[2] ELSE b[2]>>
  BY <1>1
<1> HIDE DEF more
<1>4. /\ more[1] = IF a[1] >= b[1] THEN a[1] ELSE b[1]
      /\ more[2] = IF a[2] >= b[2] THEN a[2] ELSE b[2]
      /\ more = <<more[1], more[2]>>
  BY <1>3
<1>5. more \in Nat \X Nat
  BY <1>2, <1>4
<1>6. Reading!Larger(a, more) = <<IF a[1] >= more[1] THEN a[1] ELSE more[1],
                                  IF a[2] >= more[2] THEN a[2] ELSE more[2]>>
  BY <1>1, <1>5
<1>7. (IF a[1] >= more[1] THEN a[1] ELSE more[1]) = more[1] /\ (IF a[2] >= more[2] THEN a[2] ELSE more[2]) = more[2]
  BY <1>2, <1>4
<1>8. Reading!Larger(a, a) = a
  <2>1. Reading!Larger(a, a) = <<a[1], a[2]>>
    BY <1>1, <1>2
  <2> QED BY <1>2, <2>1
<1> QED BY <1>4, <1>6, <1>7, <1>8 DEF more

\* A row that is merged into is not taken back.
LEMMA MergedIsKept ==
  ASSUME NEW was, Known(was), NEW new, Known(new), NEW slug, NEW partial,
         NEW row, row = Reading!Projected(was, new, slug, partial)
  PROVE  /\ Reading!Merged(was.agents, row.agents, Reading!Wider) = row.agents
         /\ Reading!Merged(was.tokens, row.tokens, Reading!Larger) = row.tokens
         /\ row.dropped = Reading!Dropped(was.dropped, new.dropped, partial)
<1>1. /\ row.agents = Reading!Merged(was.agents, new.agents, Reading!Wider)
      /\ row.tokens = Reading!Merged(was.tokens, new.tokens, Reading!Larger)
      /\ row.dropped = Reading!Dropped(was.dropped, new.dropped, partial)
  BY DEF Reading!Projected
<1>2. ASSUME NEW f, NEW g, NEW r, r = Reading!Merged(f, g, Reading!Wider),
             f \in [DOMAIN f -> [from : Nat, to : Nat]], g \in [DOMAIN g -> [from : Nat, to : Nat]]
      PROVE  Reading!Merged(f, r, Reading!Wider) = r
  <2>1. /\ DOMAIN r = DOMAIN f \cup DOMAIN g /\ r = [k \in DOMAIN r |-> r[k]]
        /\ \A k \in DOMAIN r : r[k] = IF k \notin DOMAIN g THEN f[k]
                                      ELSE IF k \notin DOMAIN f THEN g[k] ELSE Reading!Wider(f[k], g[k])
    BY <1>2 DEF Reading!Merged
  <2>2. \A a, b \in [from : Nat, to : Nat] : /\ Reading!Wider(a, Reading!Wider(a, b)) = Reading!Wider(a, b)
                                             /\ Reading!Wider(a, a) = a
    BY WiderIs
  <2>3. ASSUME NEW k \in DOMAIN f PROVE Reading!Wider(f[k], r[k]) = r[k]
    <3>1. f[k] \in [from : Nat, to : Nat] /\ k \in DOMAIN r
      BY <1>2, <2>1
    <3>2. CASE k \in DOMAIN g
      <4>1. g[k] \in [from : Nat, to : Nat]
        BY <1>2, <3>2
      <4>2. r[k] = Reading!Wider(f[k], g[k])
        BY <2>1, <3>1, <3>2
      <4> QED BY <2>2, <3>1, <4>1, <4>2
    <3>3. CASE k \notin DOMAIN g
      BY <2>1, <2>2, <3>1, <3>3
    <3> QED BY <3>2, <3>3
  <2>4. DOMAIN f \cup DOMAIN r = DOMAIN r
    BY <2>1
  <2>5. Reading!Merged(f, r, Reading!Wider)
          = [k \in DOMAIN r |-> IF k \notin DOMAIN f THEN r[k] ELSE Reading!Wider(f[k], r[k])]
    BY <2>4 DEF Reading!Merged
  <2>6. @ = [k \in DOMAIN r |-> r[k]]
    BY <2>3
  <2> QED BY <2>1, <2>5, <2>6
<1>3. ASSUME NEW f, NEW g, NEW r, r = Reading!Merged(f, g, Reading!Larger),
             f \in [DOMAIN f -> Nat \X Nat], g \in [DOMAIN g -> Nat \X Nat]
      PROVE  Reading!Merged(f, r, Reading!Larger) = r
  <2>1. /\ DOMAIN r = DOMAIN f \cup DOMAIN g /\ r = [k \in DOMAIN r |-> r[k]]
        /\ \A k \in DOMAIN r : r[k] = IF k \notin DOMAIN g THEN f[k]
                                      ELSE IF k \notin DOMAIN f THEN g[k] ELSE Reading!Larger(f[k], g[k])
    BY <1>3 DEF Reading!Merged
  <2>2. \A a, b \in Nat \X Nat : /\ Reading!Larger(a, Reading!Larger(a, b)) = Reading!Larger(a, b)
                                 /\ Reading!Larger(a, a) = a
    BY LargerIs
  <2>3. ASSUME NEW k \in DOMAIN f PROVE Reading!Larger(f[k], r[k]) = r[k]
    <3>1. f[k] \in Nat \X Nat /\ k \in DOMAIN r
      BY <1>3, <2>1
    <3>2. CASE k \in DOMAIN g
      <4>1. g[k] \in Nat \X Nat
        BY <1>3, <3>2
      <4>2. r[k] = Reading!Larger(f[k], g[k])
        BY <2>1, <3>1, <3>2
      <4> QED BY <2>2, <3>1, <4>1, <4>2
    <3>3. CASE k \notin DOMAIN g
      BY <2>1, <2>2, <3>1, <3>3
    <3> QED BY <3>2, <3>3
  <2>4. DOMAIN f \cup DOMAIN r = DOMAIN r
    BY <2>1
  <2>5. Reading!Merged(f, r, Reading!Larger)
          = [k \in DOMAIN r |-> IF k \notin DOMAIN f THEN r[k] ELSE Reading!Larger(f[k], r[k])]
    BY <2>4 DEF Reading!Merged
  <2>6. @ = [k \in DOMAIN r |-> r[k]]
    BY <2>3
  <2> QED BY <2>1, <2>5, <2>6
<1> QED BY <1>1, <1>2, <1>3 DEF Known

LEMMA MergedWithItself ==
  ASSUME NEW row, Known(row)
  PROVE  /\ Reading!Merged(row.agents, row.agents, Reading!Wider) = row.agents
         /\ Reading!Merged(row.tokens, row.tokens, Reading!Larger) = row.tokens
<1>1. \A a \in DOMAIN row.agents : Reading!Wider(row.agents[a], row.agents[a]) = row.agents[a]
  BY WiderIs DEF Known
<1>2. \A m \in DOMAIN row.tokens : Reading!Larger(row.tokens[m], row.tokens[m]) = row.tokens[m]
  BY LargerIs DEF Known
<1>3. Reading!Merged(row.agents, row.agents, Reading!Wider) = [a \in DOMAIN row.agents |-> row.agents[a]]
  BY <1>1 DEF Reading!Merged
<1>4. Reading!Merged(row.tokens, row.tokens, Reading!Larger) = [m \in DOMAIN row.tokens |-> row.tokens[m]]
  BY <1>2 DEF Reading!Merged
<1> QED BY <1>3, <1>4 DEF Known

\* A reading that stores: what it read, and what it makes of it.
LEMMA StoreGrows ==
  ASSUME GBody, Reading!Store
  PROVE  \E u \in Sessions, s \in Slugs, got \in Seq(Texts) :
           LET new == Reading!Parsed(got, u)
           IN  /\ u = reading.session /\ s = reading.slug /\ got = reading.got /\ Looked = Reading!Parts
               /\ reading # None /\ reading.partial \in BOOLEAN
               /\ Known(Before(u)) /\ Known(new) /\ DOMAIN stored = Sessions
               /\ stored' = [stored EXCEPT ![u] = Reading!Projected(Before(u), new, s, reading.partial)]
               /\ growing => /\ IsFiniteSet(LostIn(got)) /\ new.dropped = Cardinality(LostIn(got))
                             /\ LostOf(LostIn(got), u)
<1>1. PICK u \in Sessions, s \in Slugs, got \in Seq(Texts) :
        /\ reading # None /\ reading.at = "walk" /\ reading.left = {} /\ reading.partial \in BOOLEAN
        /\ u = reading.session /\ s = reading.slug /\ got = reading.got
  BY DEF GBody, RBody, ReadingTyped, Reading!Store, Reading!Concludes
<1>2. Looked = Reading!Parts
  BY <1>1 DEF Looked
<1>3. stored' = [stored EXCEPT ![u] = Reading!Projected(Before(u), Reading!Parsed(got, u), s, reading.partial)]
  BY <1>1, StoreIs
<1>4. ~Reading!Contradicts(got)
  BY <1>1 DEF Reading!Store
<1>5. Known(Before(u)) /\ Known(Reading!Parsed(got, u)) /\ DOMAIN stored = Sessions
  BY <1>4, ParsedIs DEF GBody, RBody, RowsKept, Before, Known, Reading!Unknown
<1>6. ASSUME growing
      PROVE  /\ IsFiniteSet(LostIn(got)) /\ Reading!Parsed(got, u).dropped = Cardinality(LostIn(got))
             /\ LostOf(LostIn(got), u)
  <2>1. /\ \A f \in Reading!RangeOf(got) :
             <<s, u, f.part>> \in DOMAIN files /\ Prefix(f.lines, files[<<s, u, f.part>>])
        /\ \A f, g \in Reading!RangeOf(got) : f.part = g.part => f = g
    BY <1>1, <1>6 DEF GBody, ReadBeginnings
  <2>2. LostOf(LostIn(got), u)
    <3> SUFFICES ASSUME NEW e \in LostIn(got)
                 PROVE  /\ e[1] \in Hexes \cup {"main"}
                        /\ <<s, u, e[1]>> \in DOMAIN files /\ Lost(files[<<s, u, e[1]>>], e[2])
      BY DEF LostOf
    <3>1. PICK f \in Reading!Transcripts(got) : f.part = e[1] /\ Lost(f.lines, e[2])
      BY DEF LostIn
    <3>2. f \in Reading!RangeOf(got) /\ e[1] \in Hexes \cup {"main"}
      BY <3>1 DEF Reading!Transcripts, Reading!Transcript
    <3>3. <<s, u, e[1]>> \in DOMAIN files /\ Prefix(f.lines, files[<<s, u, e[1]>>])
      BY <2>1, <3>1, <3>2
    <3> QED BY <3>1, <3>2, <3>3 DEF Lost, Prefix
  <2> QED BY <2>1, <2>2, LostAre
<1> QED BY <1>1, <1>2, <1>3, <1>5, <1>6

LEMMA ConcludesGrow ==
  ASSUME GBody, Reading!Nothing \/ Reading!Refuse \/ Reading!Store
  PROVE  GBody'
<1>1. RBody'
  BY ConcludesKeeps DEF GBody
<1>2. reading' = None /\ UNCHANGED <<files, hidden, growing>>
  BY DEF Reading!Nothing, Reading!Refuse, Reading!Store, Reading!Concludes, Reading!disk
<1>3. ReadBeginnings'
  BY <1>2 DEF GBody, ReadBeginnings
<1>4. Counted'
  <2> SUFFICES ASSUME growing, NEW v \in Sessions, stored'[v] # None
               PROVE  Counts(stored[v].dropped, v)'
    BY <1>2 DEF Counted
  <2>1. ASSUME NEW P \in SUBSET Pairs, IsFiniteSet(P), stored'[v].dropped <= Cardinality(P), LostOf(P, v)
        PROVE  Counts(stored[v].dropped, v)'
    <3>1. LostOf(P, v)' /\ Reread(P, v)'
      BY <1>2, <2>1 DEF LostOf, Reread
    <3> QED BY <2>1, <3>1 DEF Counts, Pairs
  <2>2. CASE stored'[v] = stored[v]
    <3>1. PICK P \in SUBSET Pairs : IsFiniteSet(P) /\ stored[v].dropped <= Cardinality(P) /\ LostOf(P, v)
      BY <2>2 DEF GBody, Counted, Counts
    <3> QED BY <2>1, <2>2, <3>1
  <2>3. CASE Reading!Store /\ stored'[v] # stored[v]
    <3>1. PICK u \in Sessions, s \in Slugs, got \in Seq(Texts) :
            LET new == Reading!Parsed(got, u)
            IN  /\ reading.partial \in BOOLEAN
                /\ Known(Before(u)) /\ Known(new) /\ DOMAIN stored = Sessions
                /\ stored' = [stored EXCEPT ![u] = Reading!Projected(Before(u), new, s, reading.partial)]
                /\ IsFiniteSet(LostIn(got)) /\ new.dropped = Cardinality(LostIn(got))
                /\ LostOf(LostIn(got), u)
      BY <2>3, StoreGrows
    <3>2. v = u
      BY <2>3, <3>1
    <3> DEFINE new == Reading!Parsed(got, u)
               row == Reading!Projected(Before(u), new, s, reading.partial)
    <3>3. stored'[v] = row
      BY <3>1, <3>2
    <3>4. row.dropped = Reading!Dropped(Before(u).dropped, new.dropped, reading.partial)
      BY <3>1, MergedIsKept
    <3>5. Before(u).dropped \in Nat /\ new.dropped \in Nat
      BY <3>1 DEF Known
    <3> HIDE DEF new, row
    <3>6. row.dropped <= new.dropped \/ row.dropped = Before(u).dropped
      BY <3>4, <3>5, DroppedIs
    <3>7. CASE row.dropped <= new.dropped
      <4>1. LostIn(got) \in SUBSET Pairs
        BY DEF LostIn
      <4> QED BY <2>1, <3>1, <3>2, <3>3, <3>7, <4>1 DEF new
    <3>8. CASE row.dropped = Before(u).dropped /\ stored[u] # None
      <4>1. PICK P \in SUBSET Pairs : IsFiniteSet(P) /\ stored[v].dropped <= Cardinality(P) /\ LostOf(P, v)
        BY <3>2, <3>8 DEF GBody, Counted, Counts
      <4>2. Before(u) = stored[v]
        BY <3>2, <3>8 DEF Before
      <4> QED BY <2>1, <3>3, <3>8, <4>1, <4>2
    <3>9. CASE row.dropped = Before(u).dropped /\ stored[u] = None
      <4>1. Before(u).dropped = 0
        BY <3>9 DEF Before, Reading!Unknown
      <4> QED BY <3>5, <3>7, <3>9, <4>1
    <3> QED BY <3>6, <3>7, <3>8, <3>9
  <2>4. CASE Reading!Nothing \/ Reading!Refuse
    BY <2>2, <2>4 DEF Reading!Nothing, Reading!Refuse
  <2> QED BY <2>2, <2>3, <2>4
<1> QED BY <1>1, <1>3, <1>4 DEF GBody

LEMMA BeginsGrown == Reading!Init => GBody
<1> SUFFICES ASSUME Reading!Init PROVE GBody
  OBVIOUS
<1>1. RBody
  BY BeginsTruly
<1>2. reading = None /\ hidden = {} /\ stored = [u \in Sessions |-> None]
  BY DEF Reading!Init
<1>3. \A f, g \in DOMAIN files : f = g
  BY DEF Reading!Init
<1>4. ReadBeginnings /\ Counted
  BY <1>2, <1>3 DEF ReadBeginnings, Counted
<1> QED BY <1>1, <1>4 DEF GBody

LEMMA GrowingSteps ==
  ASSUME NoneIsNoReading, GBody, Reading!Next \/ UNCHANGED read
  PROVE  GBody'
<1>1. ASSUME UNCHANGED <<files, hidden, growing, reading, stored, verdict, fresh, origin>> PROVE GBody'
  <2>1. RBody'
    BY <1>1, StandsStill DEF GBody
  <2>2. ReadBeginnings' /\ Counted'
    BY <1>1 DEF GBody, ReadBeginnings, Looked, Counted, Counts, LostOf, Reread
  <2> QED BY <2>1, <2>2 DEF GBody
<1>2. CASE UNCHANGED read
  BY <1>1, <1>2 DEF read
<1>3. CASE Reading!Environment
  BY <1>3, WriteGrows
<1>4. CASE Reading!Reader
  <2>1. CASE Reading!NoSession
    BY <1>1, <2>1 DEF Reading!NoSession, Reading!vars, Reading!disk
  <2> QED BY <1>4, <2>1, BeginGrows, StepsGrow, ConcludesGrow DEF Reading!Reader
<1> QED BY <1>2, <1>3, <1>4 DEF Reading!Next

\* The absence of a row is none.
NoneIsNoRow ==
  \A s, p, a, t, d : None # [slug |-> s, partial |-> p, agents |-> a, tokens |-> t, dropped |-> d]

\* What was counted of files that have only grown is counted again.
LEMMA LostAgain ==
  ASSUME GBody, growing, \A f \in DOMAIN files : f[3] \in Hexes => Len(files[f]) <= Cap,
         NEW u \in Sessions, reading # None, u = reading.session, ~reading.partial,
         Looked = Reading!Parts, stored[u] # None, IsFiniteSet(LostIn(reading.got)),
         stored[u].dropped \in Nat
  PROVE  stored[u].dropped <= Cardinality(LostIn(reading.got))
<1>1. PICK P \in SUBSET Pairs : /\ IsFiniteSet(P) /\ stored[u].dropped <= Cardinality(P)
                                /\ LostOf(P, u) /\ Reread(P, u)
  BY DEF GBody, Counted, Counts
<1>2. ASSUME NEW e \in P PROVE e \in LostIn(reading.got)
  <2> DEFINE path == <<reading.slug, u, e[1]>>
  <2>1. e[1] \in Hexes \cup {"main"} /\ e[1] \in Looked
    BY <1>1 DEF LostOf, Pairs
  <2>2. path \in DOMAIN files
    <3>1. PICK s \in Slugs : <<s, u, e[1]>> \in DOMAIN files
      BY <1>1 DEF LostOf
    <3>2. <<s, u, e[1]>>[1] = <<reading.slug, reading.session, "main">>[1]
      BY <3>1 DEF GBody, ReadBeginnings
    <3> QED BY <3>1, <3>2
  <2>3. ~(e[1] \in Hexes /\ Len(files[path]) > Cap)
    <3> SUFFICES ASSUME e[1] \in Hexes PROVE ~(Len(files[path]) > Cap)
      OBVIOUS
    <3>1. files[path] \in Seq(W) /\ Cap \in Nat
      BY <2>2, ReadingAssumption DEF GBody, RBody, FilesKept, Reading!Configured
    <3>2. Len(files[path]) <= Cap /\ Len(files[path]) \in Nat
      BY <2>2, <3>1
    <3> HIDE DEF path
    <3> QED BY <3>1, <3>2
  <2>4. PICK f \in Reading!RangeOf(reading.got) : f.part = e[1] /\ Lost(f.lines, e[2])
    BY <1>1, <2>1, <2>3 DEF Reread
  <2>5. f \in Reading!Transcripts(reading.got)
    BY <2>1, <2>4 DEF Reading!Transcripts, Reading!Transcript
  <2> QED BY <1>1, <2>4, <2>5 DEF LostIn
<1>3. P \in SUBSET LostIn(reading.got)
  BY <1>2
<1>4. Cardinality(P) <= Cardinality(LostIn(reading.got))
  BY <1>3, FS_Subset
<1>5. Cardinality(P) \in Nat /\ Cardinality(LostIn(reading.got)) \in Nat
  BY <1>1, FS_CardinalityType
<1> QED BY <1>1, <1>4, <1>5

LEMMA StoreTakesNothingBack ==
  ASSUME NoneIsNoRow, GBody, Reading!Store, NEW v \in Sessions
  PROVE  Reading!StillTold(v)
<1>1. PICK u \in Sessions, s \in Slugs, got \in Seq(Texts) :
        LET new == Reading!Parsed(got, u)
        IN  /\ u = reading.session /\ s = reading.slug /\ got = reading.got /\ Looked = Reading!Parts
            /\ reading # None /\ reading.partial \in BOOLEAN
            /\ Known(Before(u)) /\ Known(new) /\ DOMAIN stored = Sessions
            /\ stored' = [stored EXCEPT ![u] = Reading!Projected(Before(u), new, s, reading.partial)]
            /\ growing => /\ IsFiniteSet(LostIn(got)) /\ new.dropped = Cardinality(LostIn(got))
                          /\ LostOf(LostIn(got), u)
  BY StoreGrows
<1> SUFFICES ASSUME stored[v] # None PROVE Reading!StillTold(v)
  BY DEF Reading!StillTold
<1>2. CASE v # u
  <2>1. stored'[v] = stored[v] /\ Known(stored[v])
    BY <1>1, <1>2 DEF GBody, RBody, RowsKept
  <2>2. /\ Reading!Merged(stored[v].agents, stored[v].agents, Reading!Wider) = stored[v].agents
        /\ Reading!Merged(stored[v].tokens, stored[v].tokens, Reading!Larger) = stored[v].tokens
    BY <2>1, MergedWithItself
  <2> QED BY <2>1, <2>2 DEF Reading!StillTold, Known
<1>3. CASE v = u
  <2> DEFINE new == Reading!Parsed(got, u)
             row == Reading!Projected(stored[u], new, s, reading.partial)
  <2>1. Before(u) = stored[u]
    BY <1>3 DEF Before
  <2>2. stored'[u] = row /\ Known(stored[u]) /\ Known(new)
    BY <1>1, <2>1
  <2>3. row # None
    BY DEF NoneIsNoRow, Reading!Projected
  <2> HIDE DEF new
  <2>4. /\ Reading!Merged(stored[u].agents, row.agents, Reading!Wider) = row.agents
        /\ Reading!Merged(stored[u].tokens, row.tokens, Reading!Larger) = row.tokens
        /\ row.dropped = Reading!Dropped(stored[u].dropped, new.dropped, reading.partial)
    BY <2>2, MergedIsKept
  <2>5. stored[u].dropped \in Nat /\ new.dropped \in Nat
    BY <2>2 DEF Known
  <2> HIDE DEF row
  <2>6. ASSUME growing, \A f \in DOMAIN files : f[3] \in Hexes => Len(files[f]) <= Cap
        PROVE  stored[u].dropped <= row.dropped
    <3>1. CASE reading.partial
      <4>1. stored[u].dropped <= Reading!Dropped(stored[u].dropped, new.dropped, reading.partial)
        BY <2>5, <3>1, DroppedIs
      <4> QED BY <2>4, <4>1
    <3>2. CASE ~reading.partial
      <4>1. row.dropped = new.dropped
        BY <2>4, <2>5, <3>2, DroppedIs
      <4>2. stored[u].dropped <= Cardinality(LostIn(reading.got))
        BY <1>1, <1>3, <2>5, <2>6, <3>2, LostAgain
      <4> QED BY <1>1, <2>6, <4>1, <4>2 DEF new
    <3> QED BY <3>1, <3>2
  <2>7. row.dropped \in Nat
    BY <2>4, <2>5, DroppedIs
  <2>8. growing /\ (\A f \in DOMAIN files : f[3] \in Hexes => Len(files[f]) <= Cap)
          => row.dropped >= stored[u].dropped
    BY <2>5, <2>6, <2>7
  <2> QED BY <1>3, <2>2, <2>3, <2>4, <2>8 DEF Reading!StillTold
<1> QED BY <1>2, <1>3

GInv == subject = "reading" => GBody

\* No reading narrows what an earlier one established of an agent's time or
\* lowers a message's use, whichever copy it found and whatever it could not
\* read; and while files only grow, none counts fewer lines as left out
\* (upsertSession, upsertAgent, insertTokenUsageRows).
THEOREM ReadingsOnlyWiden ==
  ASSUME NoneIsNoReading, NoneIsNoRow
  PROVE  IngestedSpec => Reading!NothingTakenBack
<1>1. IngestedInit => GInv
  BY BeginsGrown DEF IngestedInit, GInv
<1>2. GInv /\ [IngestedNext]_all => GInv'
  BY BesideOthers, GrowingSteps DEF GInv
<1>3. GInv /\ [IngestedNext]_all
        => [\A u \in Sessions : Reading!StillTold(u)]_stored
  <2> SUFFICES ASSUME GInv, [IngestedNext]_all, stored' # stored
               PROVE  \A u \in Sessions : Reading!StillTold(u)
    OBVIOUS
  <2>1. subject = "reading" /\ Reading!Next
    BY DEF IngestedNext, read, all
  <2>2. Reading!Store
    <3>1. ASSUME Reading!Environment PROVE UNCHANGED stored
      BY <3>1 DEF Reading!Environment, Reading!Write, Reading!CopyProject, Reading!CopyTranscript,
                  Reading!RemoveProject, Reading!Hide, Reading!Heal, Reading!Changes
    <3>2. ASSUME Reading!Reader PROVE Reading!Store \/ UNCHANGED stored
      BY <3>2 DEF Reading!Reader, Reading!NoSession, Reading!vars, Reading!Begin, Reading!ReadMain,
                  Reading!ListDir, Reading!ReadPart, Reading!Nothing, Reading!Refuse
    <3> QED BY <2>1, <3>1, <3>2 DEF Reading!Next
  <2> QED BY <2>1, <2>2, StoreTakesNothingBack DEF GInv
<1> QED BY <1>1, <1>2, <1>3, PTL DEF IngestedSpec, Reading!NothingTakenBack

-----------------------------------------------------------------------------
(* The tree of agents *)

\* What a row of agents can say of how its agent ended.
Ended == \A a \in DOMAIN rows : rows[a].cause \in {None, "terminated_early"}

LEMMA NormalSays ==
  ASSUME NEW R, NEW i \in DOMAIN Tree!Normalized(R)
  PROVE  Tree!Normalized(R)[i].cause \in {None, "terminated_early"}
<1> DEFINE parent == Tree!Resolved(R)
           order == Tree!TopoOrder(Tree!Listing(<<main, x, y, z>>, R), parent)
           Earlier(k) == {order[j] : j \in 1..(k - 1)}
<1>1. Tree!Normalized(R) =
        [k \in DOMAIN order |->
           [id |-> order[k],
            parent |-> IF parent[order[k]] \in Earlier(k) THEN parent[order[k]] ELSE None,
            cause |-> Tree!Outcome(order[k], R)]]
  BY DEF Tree!Normalized
<1> HIDE DEF order, parent, Earlier
<1>2. Tree!Normalized(R)[i].cause = Tree!Outcome(order[i], R)
  BY <1>1
<1> QED BY <1>2 DEF Tree!Outcome

\* A row that is in the table stays, and gains only what the pass says.
LEMMA UpsertedKeeps ==
  ASSUME Ended, NEW R, rows' = Tree!Upserted(Tree!Normalized(R))
  PROVE  /\ Ended'
         /\ \A a \in DOMAIN rows :
              /\ rows[a].parent # None => rows'[a].parent # None
              /\ rows[a].cause # None => rows'[a].cause = rows[a].cause
<1> DEFINE normal == Tree!Normalized(R)
           Old(a) == IF a \in DOMAIN rows THEN rows[a] ELSE [parent |-> None, cause |-> None]
           row(a) == Tree!RowOf(a, normal)
<1>1. \A i \in DOMAIN normal : normal[i].cause \in {None, "terminated_early"}
  BY NormalSays
<1> HIDE DEF normal
<1>2. ASSUME NEW a \in Tree!Told(normal)
      PROVE  row(a).cause \in {None, "terminated_early"}
  <2>1. \E i \in DOMAIN normal : normal[i].id = a
    BY DEF Tree!Told
  <2> QED BY <1>1, <2>1 DEF Tree!RowOf
<1> HIDE DEF row
<1>3. rows' = [a \in DOMAIN rows \cup Tree!Told(normal) |->
                 IF a \notin Tree!Told(normal) THEN rows[a]
                 ELSE [parent |-> Tree!Coalesce(row(a).parent, Old(a).parent),
                       cause  |-> Tree!Coalesce(row(a).cause, Old(a).cause)]]
  BY DEF Tree!Upserted, normal, row
<1>4. \A a \in DOMAIN rows \cup Tree!Told(normal) : Old(a).cause \in {None, "terminated_early"}
  BY DEF Ended
<1>5. ASSUME NEW a \in DOMAIN rows
      PROVE  /\ rows[a].parent # None => rows'[a].parent # None
             /\ rows[a].cause # None => rows'[a].cause = rows[a].cause
  BY <1>2, <1>3, <1>4 DEF Tree!Coalesce
<1>6. Ended'
  <2> SUFFICES ASSUME NEW a \in DOMAIN rows \cup Tree!Told(normal)
               PROVE  rows'[a].cause \in {None, "terminated_early"}
    BY <1>3 DEF Ended
  <2>1. CASE a \in Tree!Told(normal)
    BY <1>2, <1>3, <1>4, <2>1 DEF Tree!Coalesce
  <2>2. CASE a \notin Tree!Told(normal)
    BY <1>3, <2>2 DEF Ended
  <2> QED BY <2>1, <2>2
<1> QED BY <1>5, <1>6

LEMMA TreeSteps ==
  ASSUME Ended, Tree!Next
  PROVE  /\ Ended'
         /\ rows' # rows => \A a \in DOMAIN rows :
              /\ rows[a].parent # None => rows'[a].parent # None
              /\ rows[a].cause # None => rows'[a].cause = rows[a].cause
<1>1. CASE UNCHANGED rows
  BY <1>1 DEF Ended
<1>2. ASSUME NEW R, Tree!Pass(R), rows' # rows
      PROVE  rows' = Tree!Upserted(Tree!Normalized(R))
  BY <1>2 DEF Tree!Pass
<1>3. ASSUME NEW a, NEW kind, Tree!Change(a, kind)
      PROVE  UNCHANGED rows
  BY <1>3 DEF Tree!Change
<1> QED BY <1>1, <1>2, <1>3, UpsertedKeeps DEF Tree!Next

\* What was once observed of an agent - who spawned it, how it ended - outlives
\* every later reading, one with a transcript missing or its lines evicted
\* included (upsertAgent, the COALESCE comments).
THEOREM NothingIsForgotten == IngestedSpec => Tree!Remembered
<1>1. IngestedInit => Ended
  <2>1. TreeParked \/ Tree!Init => rows = << >>
    BY DEF TreeParked, Tree!Init
  <2>2. IngestedInit => TreeParked \/ Tree!Init
    BY DEF IngestedInit
  <2> QED BY <2>1, <2>2 DEF Ended
<1>2. Ended /\ [IngestedNext]_all
        => /\ Ended'
           /\ \/ UNCHANGED <<shape, evidence, rows, edges, ok, changes>>
              \/ \A a \in DOMAIN rows :
                   /\ rows[a].parent # None => rows'[a].parent # None
                   /\ rows[a].cause # None => rows'[a].cause = rows[a].cause
  <2> SUFFICES ASSUME Ended, [IngestedNext]_all
               PROVE  /\ Ended'
                      /\ \/ UNCHANGED <<shape, evidence, rows, edges, ok, changes>>
                         \/ \A a \in DOMAIN rows :
                              /\ rows[a].parent # None => rows'[a].parent # None
                              /\ rows[a].cause # None => rows'[a].cause = rows[a].cause
    OBVIOUS
  <2>1. CASE UNCHANGED tree
    BY <2>1 DEF Ended, tree
  <2>2. CASE rows' = rows
    BY <2>2 DEF Ended
  <2>3. CASE rows' # rows /\ Tree!Next
    BY <2>3, TreeSteps
  <2> QED BY <2>1, <2>2, <2>3 DEF IngestedNext, all
<1>3. Ended /\ [IngestedNext]_all
        => [\A a \in DOMAIN rows :
              /\ rows[a].parent # None => rows'[a].parent # None
              /\ rows[a].cause # None => rows'[a].cause = rows[a].cause]_
             <<shape, evidence, rows, edges, ok, changes>>
  BY <1>2
<1> QED BY <1>1, <1>2, <1>3, PTL DEF IngestedSpec, Tree!Remembered, Tree!vars

\* No reading takes back what an earlier one established, of a session or of
\* who spawned its agents (the ON CONFLICT clauses of upsertSession, upsertAgent
\* and insertTokenUsageRows).
THEOREM NothingIsTakenBack ==
  ASSUME NoneIsNoReading, NoneIsNoRow
  PROVE  IngestedSpec => NothingTakenBack
BY ReadingsOnlyWiden, NothingIsForgotten DEF NothingTakenBack

-----------------------------------------------------------------------------
(* The answers *)

LEMMA SameFinite == \A S : Reads!IsFiniteSet(S) <=> IsFiniteSet(S)
BY DEF Reads!IsFiniteSet, IsFiniteSet

LEMMA SameCount == \A S : Reads!Cardinality(S) = Cardinality(S)
BY DEF Reads!Cardinality, Cardinality

LEMMA EarlierLater ==
  ASSUME NEW i \in Reads!Times \cup {None}, NEW st \in Reads!Texts
  PROVE  Reads!Earlier(i, st) \in Reads!Texts /\ Reads!Later(i, st) \in Reads!Texts
BY DEF Reads!Earlier, Reads!Later, Reads!Known, Reads!Texts

LEMMA ProjectTyped ==
  ASSUME Reads!TypeOK, NEW s \in Mains, Reads!ProjectSession(s)
  PROVE  Reads!TypeOK'
<1> USE DEF Reads!Some
<1> PICK p \in Handed[s] :
       /\ sessions' = Reads!UpsertSession(s, p)
       /\ agents' = Reads!UpsertAgents(s, p)
       /\ links' = Reads!InsertEdges(s, p)
       /\ usage' = Reads!InsertUsage(s, p)
  BY DEF Reads!ProjectSession
<1>1. Reads!Readable(p)
  BY AnswersAssumption DEF Reads!Configured
<1>2. p.span.first \in Reads!Times \cup {None} /\ p.span.last \in Reads!Times \cup {None}
  BY <1>1 DEF Reads!Readable, Reads!Spans
<1>3. /\ DOMAIN sessions' = DOMAIN sessions \cup {s}
      /\ Reads!Some(sessions', Mains, Reads!SessionRow)
  <2>1. /\ DOMAIN sessions \subseteq Mains
        /\ sessions \in [DOMAIN sessions -> Reads!SessionRow]
    BY DEF Reads!TypeOK, Reads!WellFormed
  <2> DEFINE old == IF s \in DOMAIN sessions THEN sessions[s] ELSE [start |-> None, last |-> None]
  <2>2. old.start \in Reads!Texts /\ old.last \in Reads!Texts
    BY <2>1 DEF Reads!SessionRow, Reads!Texts
  <2>3. [start |-> Reads!Earlier(p.span.first, old.start), last |-> Reads!Later(p.span.last, old.last)] \in Reads!SessionRow
    BY <1>2, <2>2, EarlierLater DEF Reads!SessionRow
  <2>4. sessions' = [t \in DOMAIN sessions \cup {s} |->
        IF t = s THEN [start |-> Reads!Earlier(p.span.first, old.start), last |-> Reads!Later(p.span.last, old.last)]
        ELSE sessions[t]]
    BY DEF Reads!UpsertSession
  <2> QED BY <2>1, <2>3, <2>4
<1>4. /\ Reads!Some(agents', Reads!Ids, Reads!AgentRow)
      /\ \A a \in DOMAIN agents' : agents'[a].session \in DOMAIN sessions'
  <2>1. /\ DOMAIN agents \subseteq Reads!Ids /\ agents \in [DOMAIN agents -> Reads!AgentRow]
        /\ \A a \in DOMAIN agents : agents[a].session \in DOMAIN sessions
    BY DEF Reads!TypeOK, Reads!WellFormed
  <2>2. DOMAIN p.agents \subseteq Reads!Ids /\ p.agents \in [DOMAIN p.agents -> Reads!Spans]
    BY <1>1 DEF Reads!Readable
  <2>3. /\ DOMAIN agents' = DOMAIN agents \cup DOMAIN p.agents
        /\ \A a \in DOMAIN agents' : agents'[a] =
             IF a \notin DOMAIN p.agents THEN agents[a]
             ELSE IF a \notin DOMAIN agents
               THEN [session |-> s, first |-> p.agents[a].first, last |-> p.agents[a].last]
             ELSE [agents[a] EXCEPT !.first = Reads!Earlier(p.agents[a].first, @),
                                    !.last = Reads!Later(p.agents[a].last, @)]
        /\ agents' = [a \in DOMAIN agents' |-> agents'[a]]
    BY DEF Reads!UpsertAgents
  <2>4. ASSUME NEW a \in DOMAIN agents'
        PROVE  agents'[a] \in Reads!AgentRow /\ agents'[a].session \in DOMAIN sessions'
    <3>1. CASE a \notin DOMAIN p.agents
      <4>1. a \in DOMAIN agents /\ agents'[a] = agents[a]
        BY <3>1, <2>3
      <4> QED BY <4>1, <2>1, <1>3
    <3>2. CASE a \in DOMAIN p.agents /\ a \notin DOMAIN agents
      <4>1. agents'[a] = [session |-> s, first |-> p.agents[a].first, last |-> p.agents[a].last]
        BY <3>2, <2>3
      <4>2. p.agents[a].first \in Reads!Texts /\ p.agents[a].last \in Reads!Texts
        BY <3>2, <2>2 DEF Reads!Spans, Reads!Texts
      <4> QED BY <4>1, <4>2, <1>3 DEF Reads!AgentRow
    <3>3. CASE a \in DOMAIN p.agents /\ a \in DOMAIN agents
      <4>1. /\ p.agents[a].first \in Reads!Times \cup {None} /\ p.agents[a].last \in Reads!Times \cup {None}
            /\ agents[a].first \in Reads!Texts /\ agents[a].last \in Reads!Texts
        BY <3>3, <2>1, <2>2 DEF Reads!AgentRow, Reads!Spans
      <4>2. /\ Reads!Earlier(p.agents[a].first, agents[a].first) \in Reads!Texts
            /\ Reads!Later(p.agents[a].last, agents[a].last) \in Reads!Texts
        BY <4>1, EarlierLater
      <4>3. agents[a] \in Reads!AgentRow /\ agents[a].session \in DOMAIN sessions'
        BY <3>3, <2>1, <1>3
      <4>4. agents'[a] = [agents[a] EXCEPT !.first = Reads!Earlier(p.agents[a].first, agents[a].first),
                                           !.last = Reads!Later(p.agents[a].last, agents[a].last)]
        BY <3>3, <2>3
      <4> QED BY <4>2, <4>3, <4>4 DEF Reads!AgentRow
    <3> QED BY <3>1, <3>2, <3>3
  <2> QED BY <2>1, <2>2, <2>3, <2>4
<1>5. links' \subseteq Reads!Edges
  BY <1>1 DEF Reads!InsertEdges, Reads!Edges, Reads!Readable, Reads!TypeOK, Reads!WellFormed
<1>6. /\ Reads!Some(usage', Spoken, Reads!UsageRow)
      /\ \A m \in DOMAIN usage' : usage'[m].session \in DOMAIN sessions'
  <2>1. /\ DOMAIN usage \subseteq Spoken /\ usage \in [DOMAIN usage -> Reads!UsageRow]
        /\ \A m \in DOMAIN usage : usage[m].session \in DOMAIN sessions
    BY DEF Reads!TypeOK, Reads!WellFormed
  <2>2. DOMAIN p.usage \subseteq Spoken /\ p.usage \in [DOMAIN p.usage -> Reads!Uses]
    BY <1>1 DEF Reads!Readable
  <2> DEFINE ForeignNow(m) == m \in DOMAIN usage /\ usage[m].session # s
             SettlesNow(m) == m \notin DOMAIN usage \/ p.usage[m].out > usage[m].out
             Holder(m)   == IF p.usage[m].agent = None THEN s ELSE p.usage[m].agent
  <2>3. /\ DOMAIN usage' = DOMAIN usage \cup DOMAIN p.usage
        /\ \A m \in DOMAIN usage' : usage'[m] =
             IF m \notin DOMAIN p.usage \/ ForeignNow(m) THEN usage[m]
             ELSE IF SettlesNow(m)
               THEN [session |-> s, agent |-> Holder(m), model |-> p.usage[m].model,
                     at |-> p.usage[m].at, out |-> p.usage[m].out]
             ELSE [usage[m] EXCEPT !.agent = Holder(m)]
        /\ usage' = [m \in DOMAIN usage' |-> usage'[m]]
    BY DEF Reads!InsertUsage
  <2>4. ASSUME NEW m \in DOMAIN usage'
        PROVE  usage'[m] \in Reads!UsageRow /\ usage'[m].session \in DOMAIN sessions'
    <3>1. CASE m \notin DOMAIN p.usage \/ ForeignNow(m)
      BY <3>1, <2>1, <2>3, <1>3
    <3>2. CASE m \in DOMAIN p.usage /\ ~ForeignNow(m)
      <4>1. /\ p.usage[m].model \in Models /\ p.usage[m].at \in Reads!Times \cup {None}
            /\ p.usage[m].out \in Nat /\ Holder(m) \in Reads!Ids \cup {None}
        BY <3>2, <2>2 DEF Reads!Uses, Reads!Ids
      <4>2. CASE SettlesNow(m)
        <5>1. usage'[m] = [session |-> s, agent |-> Holder(m), model |-> p.usage[m].model,
                           at |-> p.usage[m].at, out |-> p.usage[m].out]
          BY <3>2, <4>2, <2>3
        <5> HIDE DEF Holder
        <5> QED BY <5>1, <4>1, <1>3 DEF Reads!UsageRow
      <4>3. CASE ~SettlesNow(m)
        <5>1. usage'[m] = [usage[m] EXCEPT !.agent = Holder(m)]
          BY <3>2, <4>3, <2>3
        <5>2. usage[m] \in Reads!UsageRow /\ usage[m].session \in DOMAIN sessions'
          BY <4>3, <2>1, <1>3
        <5> HIDE DEF Holder
        <5> QED BY <5>1, <5>2, <4>1 DEF Reads!UsageRow
      <4> QED BY <4>2, <4>3
    <3> QED BY <3>1, <3>2
  <2> QED BY <2>1, <2>2, <2>3, <2>4
<1>7. events' = events /\ writes' = writes + 1 /\ writes \in Nat
  BY DEF Reads!ProjectSession, Reads!TypeOK
<1>8. Reads!Some(events', 1 .. writes', [session : Mains \cup {None}, at : Reads!Times])
  BY <1>7 DEF Reads!TypeOK, Reads!Some
<1> QED
  BY <1>3, <1>4, <1>5, <1>6, <1>7, <1>8 DEF Reads!TypeOK, Reads!WellFormed

LEMMA AnswersTypedStep ==
  ASSUME Reads!TypeOK, [Reads!Next]_Reads!vars
  PROVE  Reads!TypeOK'
<1>1. ASSUME NEW s \in Mains, Reads!ProjectSession(s) PROVE Reads!TypeOK'
  BY <1>1, ProjectTyped
<1>2. ASSUME NEW eventCutoff \in Reads!Times, NEW usageCutoff \in Reads!Times,
             Reads!Prune(eventCutoff, usageCutoff)
      PROVE  Reads!TypeOK'
  <2>1. /\ DOMAIN usage' \subseteq DOMAIN usage
        /\ usage' = [m \in DOMAIN usage' |-> usage[m]]
        /\ DOMAIN events' \subseteq DOMAIN events
        /\ events' = [e \in DOMAIN events' |-> events[e]]
        /\ writes' = writes + 1 /\ writes \in Nat
        /\ UNCHANGED <<sessions, agents, links>>
    BY <1>2 DEF Reads!Prune, Reads!TypeOK
  <2>2. /\ Reads!Some(usage', Spoken, Reads!UsageRow)
        /\ \A m \in DOMAIN usage' : usage'[m].session \in DOMAIN sessions
    BY <2>1 DEF Reads!TypeOK, Reads!WellFormed, Reads!Some
  <2>3. Reads!Some(events', 1 .. writes', [session : Mains \cup {None}, at : Reads!Times])
    BY <2>1 DEF Reads!TypeOK, Reads!Some
  <2> QED BY <2>1, <2>2, <2>3 DEF Reads!TypeOK, Reads!WellFormed
<1>3. ASSUME NEW s \in Mains \cup {None}, NEW at \in Reads!Times, Reads!Hook(s, at) PROVE Reads!TypeOK'
  <2>1. writes \in Nat /\ writes' = writes + 1
    BY <1>3 DEF Reads!Hook, Reads!TypeOK
  <2>2. Reads!Some(events', 1 .. writes', [session : Mains \cup {None}, at : Reads!Times])
    BY <1>3, <2>1 DEF Reads!Hook, Reads!TypeOK, Reads!Some
  <2> QED BY <2>2, <1>3, <2>1 DEF Reads!Hook, Reads!TypeOK, Reads!WellFormed, Reads!Some, Reads!tables
<1>4. ASSUME UNCHANGED Reads!vars PROVE Reads!TypeOK'
  BY <1>4 DEF Reads!vars, Reads!TypeOK, Reads!WellFormed, Reads!Some
<1> QED BY <1>1, <1>2, <1>3, <1>4 DEF Reads!Next, Reads!Answering

LEMMA AnswersTypedInit ==
  ASSUME Reads!Init
  PROVE  Reads!TypeOK
BY AnswersAssumption DEF Reads!Init, Reads!TypeOK, Reads!Configured, Reads!WellFormed, Reads!Some

-----------------------------------------------------------------------------
(* Orders and pages *)

Ranked(rank) == /\ IsFiniteSet(DOMAIN rank)
                /\ rank \in [DOMAIN rank -> Nat \X Nat]
                /\ \A i, j \in DOMAIN rank : i # j => rank[i] # rank[j]

LEMMA Placed ==
  ASSUME NEW rank, Ranked(rank)
  PROVE  /\ \A i \in DOMAIN rank : Reads!Place(rank, i) \in Nat /\ Reads!Place(rank, i) < Cardinality(DOMAIN rank)
         /\ \A i, j \in DOMAIN rank :
              Reads!Ahead(rank[i], rank[j]) => Reads!Place(rank, i) < Reads!Place(rank, j)
         /\ \A i, j \in DOMAIN rank : i # j => Reads!Place(rank, i) # Reads!Place(rank, j)
<1> DEFINE AheadOf(i) == {j \in DOMAIN rank : Reads!Ahead(rank[j], rank[i])}
<1>1. ASSUME NEW i \in DOMAIN rank
      PROVE  /\ IsFiniteSet(AheadOf(i)) /\ Reads!Place(rank, i) = Cardinality(AheadOf(i))
             /\ Reads!Place(rank, i) \in Nat
             /\ i \notin AheadOf(i)
  <2>1. IsFiniteSet(AheadOf(i))
    BY FS_Subset DEF Ranked
  <2>2. i \notin AheadOf(i)
    BY DEF Reads!Ahead, Ranked
  <2> QED BY <2>1, <2>2, SameCount, FS_CardinalityType DEF Reads!Place
<1>2. ASSUME NEW i \in DOMAIN rank PROVE Reads!Place(rank, i) < Cardinality(DOMAIN rank)
  <2>1. AheadOf(i) \cup {i} \subseteq DOMAIN rank
    BY DEF AheadOf
  <2>2. Cardinality(AheadOf(i) \cup {i}) = Cardinality(AheadOf(i)) + 1
    BY <1>1, FS_AddElement
  <2>3. Cardinality(AheadOf(i) \cup {i}) <= Cardinality(DOMAIN rank)
    BY <2>1, FS_Subset DEF Ranked
  <2>4. Cardinality(DOMAIN rank) \in Nat
    BY FS_CardinalityType DEF Ranked
  <2>5. Reads!Place(rank, i) = Cardinality(AheadOf(i)) /\ Reads!Place(rank, i) \in Nat
    BY <1>1
  <2> HIDE DEF AheadOf
  <2> QED BY <2>2, <2>3, <2>4, <2>5
<1>3. ASSUME NEW i \in DOMAIN rank, NEW j \in DOMAIN rank, Reads!Ahead(rank[i], rank[j])
      PROVE  Reads!Place(rank, i) < Reads!Place(rank, j)
  <2>1. AheadOf(i) \cup {i} \subseteq AheadOf(j)
    BY <1>3 DEF Reads!Ahead, Ranked
  <2>2. Cardinality(AheadOf(i) \cup {i}) = Cardinality(AheadOf(i)) + 1
    BY <1>1, FS_AddElement
  <2>3. Cardinality(AheadOf(i) \cup {i}) <= Cardinality(AheadOf(j))
    BY <2>1, <1>1, FS_Subset
  <2>4. /\ Reads!Place(rank, i) = Cardinality(AheadOf(i)) /\ Reads!Place(rank, i) \in Nat
        /\ Reads!Place(rank, j) = Cardinality(AheadOf(j)) /\ Reads!Place(rank, j) \in Nat
    BY <1>1
  <2> HIDE DEF AheadOf
  <2> QED BY <2>2, <2>3, <2>4
<1>4. ASSUME NEW i \in DOMAIN rank, NEW j \in DOMAIN rank, i # j
      PROVE  Reads!Ahead(rank[i], rank[j]) \/ Reads!Ahead(rank[j], rank[i])
  BY <1>4 DEF Reads!Ahead, Ranked
<1>5. ASSUME NEW i \in DOMAIN rank, NEW j \in DOMAIN rank, i # j
      PROVE  Reads!Place(rank, i) # Reads!Place(rank, j)
  <2>1. Reads!Place(rank, i) \in Nat /\ Reads!Place(rank, j) \in Nat
    BY <1>1
  <2>2. Reads!Place(rank, i) < Reads!Place(rank, j) \/ Reads!Place(rank, j) < Reads!Place(rank, i)
    BY <1>3, <1>4, <1>5
  <2> QED BY <2>1, <2>2
<1>6. \A i \in DOMAIN rank : Reads!Place(rank, i) \in Nat
  BY <1>1
<1> HIDE DEF AheadOf
<1> QED BY <1>2, <1>3, <1>5, <1>6

LEMMA Paged ==
  ASSUME NEW rank, Ranked(rank), NEW limit \in Nat, NEW offset \in Nat
  PROVE  /\ Reads!Page(rank, limit, offset) \subseteq DOMAIN rank
         /\ IsFiniteSet(Reads!Page(rank, limit, offset))
         /\ Cardinality(Reads!Page(rank, limit, offset)) \in Nat
         /\ Cardinality(Reads!Page(rank, limit, offset)) <= limit
         /\ Cardinality(Reads!Page(rank, limit, offset)) <= Cardinality(DOMAIN rank)
         /\ Cardinality(DOMAIN rank) \in Nat
         /\ Reads!Page(rank, limit, offset) \cap Reads!Page(rank, limit, offset + limit) = {}
         /\ \A i \in Reads!Page(rank, limit, offset), j \in Reads!Page(rank, limit, offset + limit) :
              ~Reads!Ahead(rank[j], rank[i])
         /\ (offset = 0 /\ Cardinality(DOMAIN rank) <= limit) =>
              Reads!Page(rank, limit, offset) = DOMAIN rank
<1> DEFINE P == Reads!Page(rank, limit, offset)
<1>1. P \subseteq DOMAIN rank
  BY DEF Reads!Page
<1>2. IsFiniteSet(P) /\ Cardinality(P) <= Cardinality(DOMAIN rank)
  BY <1>1, FS_Subset DEF Ranked
<1>3. Cardinality(P) \in Nat /\ Cardinality(DOMAIN rank) \in Nat
  BY <1>2, FS_CardinalityType DEF Ranked
<1>4. Cardinality(P) <= limit
  <2> DEFINE T == (offset + 1) .. (offset + limit)
             f == [i \in P |-> Reads!Place(rank, i) + 1]
  <2>1. IsFiniteSet(T) /\ Cardinality(T) = limit
    BY FS_Interval
  <2>2. \A i \in P : f[i] \in T
    BY <1>1, Placed DEF Reads!Page
  <2>3. f \in [P -> T]
    BY <2>2
  <2>4. \A i, j \in P : f[i] = f[j] => i = j
    BY <1>1, Placed
  <2>5. f \in Injection(P, T)
    BY <2>3, <2>4 DEF Injection, IsInjective
  <2> HIDE DEF f, T
  <2> QED BY <2>1, <2>5, FS_Injection
<1>5. /\ P \cap Reads!Page(rank, limit, offset + limit) = {}
      /\ \A i \in P, j \in Reads!Page(rank, limit, offset + limit) : ~Reads!Ahead(rank[j], rank[i])
  BY Placed DEF Reads!Page
<1>6. ASSUME offset = 0, Cardinality(DOMAIN rank) <= limit
      PROVE  P = DOMAIN rank
  BY <1>3, <1>6, Placed DEF Reads!Page
<1> QED BY <1>1, <1>2, <1>3, <1>4, <1>5, <1>6

LEMMA Ranks ==
  ASSUME Reads!TypeOK
  PROVE  /\ Ranked(Reads!SessionRank) /\ Ranked(Reads!AgentRank)
         /\ \A s \in DOMAIN sessions : Reads!ChangedAt(s) \in Reads!Times \cup {None}
         /\ \A r \in Reads!Times \cup {None} : Reads!Recency(r) \in Nat
         /\ \A r, q \in Reads!Times : Reads!Recency(r) <= Reads!Recency(q) <=> r >= q
         /\ \A r \in Reads!Times : Reads!Recency(r) < Reads!Recency(None)
<1>1. /\ \A r \in Reads!Times \cup {None} : Reads!Recency(r) \in Nat
      /\ \A r, q \in Reads!Times : Reads!Recency(r) <= Reads!Recency(q) <=> r >= q
      /\ \A r \in Reads!Times : Reads!Recency(r) < Reads!Recency(None)
  <2>1. None \notin Nat /\ MaxTime \in Nat
    BY AnswersAssumption DEF Reads!Configured
  <2> QED BY <2>1 DEF Reads!Recency, Reads!Times
<1>2. \A text : Reads!Canonical(text) \in Reads!Times \cup {None}
  BY DEF Reads!Canonical
<1>3. /\ IsFiniteSet(Reads!Ids) /\ IsFiniteSet(Mains) /\ Reads!Ids \subseteq Nat /\ Mains \subseteq Nat
  BY AnswersAssumption, SameFinite, FS_Union DEF Reads!Configured, Reads!Ids
<1>4. /\ IsFiniteSet(DOMAIN sessions) /\ DOMAIN sessions \subseteq Nat
      /\ IsFiniteSet(DOMAIN agents) /\ DOMAIN agents \subseteq Nat
  BY <1>3, FS_Subset DEF Reads!TypeOK, Reads!WellFormed, Reads!Some
<1>5. Ranked(Reads!SessionRank)
  BY <1>1, <1>2, <1>4 DEF Ranked, Reads!SessionRank, Reads!ChangedAt
<1>6. Ranked(Reads!AgentRank)
  BY <1>1, <1>2, <1>4 DEF Ranked, Reads!AgentRank
<1> QED BY <1>1, <1>2, <1>5, <1>6 DEF Reads!ChangedAt

-----------------------------------------------------------------------------

LEMMA Splitting ==
  ASSUME NEW part, NEW rest, NEW whole,
         \A m \in whole : m \in rest \/ \E i \in DOMAIN part : m \in part[i],
         rest \subseteq whole, \A i \in DOMAIN part : part[i] \subseteq whole,
         \A i \in DOMAIN part :
           part[i] \cap rest = {} /\ \A j \in DOMAIN part \ {i} : part[i] \cap part[j] = {}
  PROVE  Reads!Splits(part, rest, whole)
<1> DEFINE parts == {part[i] : i \in DOMAIN part}
<1>1. ASSUME NEW m \in whole PROVE m \in (UNION parts) \cup rest
  <2>1. CASE m \in rest
    BY <2>1
  <2>2. CASE \E i \in DOMAIN part : m \in part[i]
    <3>1. PICK i \in DOMAIN part : m \in part[i]
      BY <2>2
    <3>2. part[i] \in parts
      OBVIOUS
    <3> QED BY <3>1, <3>2
  <2> QED BY <2>1, <2>2
<1>2. ASSUME NEW m \in (UNION parts) \cup rest PROVE m \in whole
  <2>1. \A q \in parts : q \subseteq whole
    OBVIOUS
  <2> HIDE DEF parts
  <2> QED BY <2>1
<1>3. (UNION parts) \cup rest = whole
  <2> HIDE DEF parts
  <2> QED BY <1>1, <1>2
<1> QED BY <1>3 DEF Reads!Splits

LEMMA AddingUp ==
  ASSUME Reads!TypeOK
  PROVE  Reads!FiguresAddUp
<1>1. \A m \in DOMAIN usage : usage[m].session \in DOMAIN sessions
  BY DEF Reads!TypeOK, Reads!WellFormed
<1>2. Reads!Splits([s \in DOMAIN sessions |-> Reads!Summary(s).spent], {}, DOMAIN usage)
  <2> DEFINE part == [s \in DOMAIN sessions |-> Reads!Summary(s).spent]
  <2>1. /\ DOMAIN part = DOMAIN sessions
        /\ \A s \in DOMAIN part : part[s] = {m \in DOMAIN usage : usage[m].session = s}
    BY DEF Reads!Summary, Reads!UsageOf
  <2> HIDE DEF part
  <2>2. \A m \in DOMAIN usage : \E s \in DOMAIN part : m \in part[s]
    BY <1>1, <2>1
  <2>3. /\ \A s \in DOMAIN part : part[s] \subseteq DOMAIN usage
        /\ \A s \in DOMAIN part : \A t \in DOMAIN part \ {s} : part[s] \cap part[t] = {}
    BY <2>1
  <2>4. Reads!Splits(part, {}, DOMAIN usage)
    BY <2>2, <2>3, Splitting
  <2> QED BY <2>4 DEF part
<1>3. ASSUME NEW s \in DOMAIN sessions
      PROVE  LET spent == Reads!SessionDetail(s).summary.spent
                 drawn == Reads!SessionTree(s)
             IN /\ Reads!Splits(Reads!SessionDetail(s).models, {}, spent)
                /\ Reads!Splits(drawn.agents, drawn.unattributed, spent)
  <2> DEFINE models == Reads!SessionDetail(s).models
             shown == Reads!SessionTree(s).agents
             rest == Reads!SessionTree(s).unattributed
  <2>1. /\ models = [d \in {usage[m].model : m \in Reads!UsageOf(s)} |->
                       {m \in Reads!UsageOf(s) : usage[m].model = d}]
        /\ Reads!SessionDetail(s).summary.spent = Reads!UsageOf(s)
    BY DEF Reads!SessionDetail, Reads!Summary
  <2>2. /\ shown = [a \in Reads!AgentsOf(s) |-> {m \in Reads!UsageOf(s) : usage[m].agent = a}]
        /\ rest = {m \in Reads!UsageOf(s) : usage[m].agent \notin Reads!AgentsOf(s)}
    BY DEF Reads!SessionTree
  <2> HIDE DEF models, shown, rest
  <2>3. Reads!Splits(models, {}, Reads!UsageOf(s))
    <3>1. \A d \in DOMAIN models : models[d] = {m \in Reads!UsageOf(s) : usage[m].model = d}
      BY <2>1
    <3>2. \A m \in Reads!UsageOf(s) : usage[m].model \in DOMAIN models
      BY <2>1
    <3>3. \A m \in Reads!UsageOf(s) : \E d \in DOMAIN models : m \in models[d]
      BY <3>1, <3>2
    <3>4. /\ \A d \in DOMAIN models : models[d] \subseteq Reads!UsageOf(s)
          /\ \A d \in DOMAIN models : \A e \in DOMAIN models \ {d} : models[d] \cap models[e] = {}
      BY <3>1
    <3> QED BY <3>3, <3>4, Splitting
  <2>4. Reads!Splits(shown, rest, Reads!UsageOf(s))
    <3>1. /\ DOMAIN shown = Reads!AgentsOf(s)
          /\ \A a \in Reads!AgentsOf(s) : shown[a] = {m \in Reads!UsageOf(s) : usage[m].agent = a}
      BY <2>2
    <3>2. \A m \in Reads!UsageOf(s) : m \in rest \/ \E a \in DOMAIN shown : m \in shown[a]
      BY <2>2, <3>1
    <3>3. rest \subseteq Reads!UsageOf(s) /\ \A a \in DOMAIN shown : shown[a] \subseteq Reads!UsageOf(s)
      BY <2>2, <3>1
    <3>4. \A a \in DOMAIN shown :
            /\ shown[a] \cap rest = {}
            /\ \A b \in DOMAIN shown \ {a} : shown[a] \cap shown[b] = {}
      BY <2>2, <3>1
    <3> QED BY <3>2, <3>3, <3>4, Splitting
  <2> QED BY <2>1, <2>3, <2>4 DEF models, shown, rest
<1> QED BY <1>2, <1>3 DEF Reads!FiguresAddUp

LEMMA Turning ==
  ASSUME Reads!TypeOK
  PROVE  Reads!PagesTurn
<1> SUFFICES ASSUME NEW limit \in Limits \ {0}, NEW offset \in Limits
    PROVE
    /\ LET this == Reads!ListSessions(limit, offset)
           next == Reads!ListSessions(limit, offset + limit)
       IN /\ DOMAIN this.sessions \cap DOMAIN next.sessions = {}
          /\ \A s \in DOMAIN this.sessions, t \in DOMAIN next.sessions :
               Reads!ChangedAt(t) # None => Reads!ChangedAt(s) # None /\ Reads!ChangedAt(s) >= Reads!ChangedAt(t)
          /\ (offset = 0 /\ this.total <= limit) => DOMAIN this.sessions = DOMAIN sessions
    /\ \A s \in DOMAIN sessions :
         LET this == Reads!SessionEvents(s, limit, offset)
             next == Reads!SessionEvents(s, limit, offset + limit)
         IN /\ this.events \cap next.events = {}
            /\ \A e \in this.events, f \in next.events : events[e].at <= events[f].at
            /\ (offset = 0 /\ this.total <= limit) =>
                 this.events = {e \in DOMAIN events : events[e].session = s}
  BY DEF Reads!PagesTurn
<1>1. limit \in Nat /\ offset \in Nat
  BY AnswersAssumption DEF Reads!Configured
<1>2. /\ DOMAIN Reads!SessionRank = DOMAIN sessions
      /\ \A s \in DOMAIN sessions : Reads!SessionRank[s] = <<Reads!Recency(Reads!ChangedAt(s)), s>>
  BY DEF Reads!SessionRank
<1>3. \A n \in Nat : /\ DOMAIN Reads!ListSessions(limit, n).sessions = Reads!Page(Reads!SessionRank, limit, n)
                     /\ Reads!ListSessions(limit, n).total = Cardinality(DOMAIN sessions)
  BY SameCount DEF Reads!ListSessions
<1>4. /\ Reads!Page(Reads!SessionRank, limit, offset) \cap Reads!Page(Reads!SessionRank, limit, offset + limit) = {}
      /\ \A s \in Reads!Page(Reads!SessionRank, limit, offset), t \in Reads!Page(Reads!SessionRank, limit, offset + limit) :
           s \in DOMAIN sessions /\ t \in DOMAIN sessions /\ ~Reads!Ahead(Reads!SessionRank[t], Reads!SessionRank[s])
      /\ (offset = 0 /\ Cardinality(DOMAIN sessions) <= limit) =>
           Reads!Page(Reads!SessionRank, limit, offset) = DOMAIN sessions
  <2>1. Reads!Page(Reads!SessionRank, limit, offset + limit) \subseteq DOMAIN sessions
    BY <1>2 DEF Reads!Page
  <2> QED BY <1>1, <1>2, <2>1, Paged, Ranks
<1>5. ASSUME NEW s \in Reads!Page(Reads!SessionRank, limit, offset),
             NEW t \in Reads!Page(Reads!SessionRank, limit, offset + limit), Reads!ChangedAt(t) # None
      PROVE  Reads!ChangedAt(s) # None /\ Reads!ChangedAt(s) >= Reads!ChangedAt(t)
  <2>1. s \in DOMAIN sessions /\ t \in DOMAIN sessions
    BY <1>4
  <2>2. /\ Reads!ChangedAt(t) \in Reads!Times /\ Reads!ChangedAt(s) \in Reads!Times \cup {None}
        /\ Reads!Recency(Reads!ChangedAt(s)) \in Nat /\ Reads!Recency(Reads!ChangedAt(t)) \in Nat
    BY <1>5, <2>1, Ranks
  <2>3. ~(Reads!Recency(Reads!ChangedAt(t)) < Reads!Recency(Reads!ChangedAt(s)))
    BY <1>4, <1>2, <2>1 DEF Reads!Ahead
  <2> QED BY <2>2, <2>3, Ranks
<1>6. ASSUME NEW s \in DOMAIN sessions
      PROVE  LET this == Reads!SessionEvents(s, limit, offset)
                 next == Reads!SessionEvents(s, limit, offset + limit)
             IN /\ this.events \cap next.events = {}
                /\ \A e \in this.events, f \in next.events : events[e].at <= events[f].at
                /\ (offset = 0 /\ this.total <= limit) =>
                     this.events = {e \in DOMAIN events : events[e].session = s}
  <2> DEFINE own == {e \in DOMAIN events : events[e].session = s}
             rank == [e \in own |-> <<events[e].at, e>>]
  <2>1. \A n \in Nat : /\ Reads!SessionEvents(s, limit, n).events = Reads!Page(rank, limit, n)
                       /\ Reads!SessionEvents(s, limit, n).total = Cardinality(own)
    BY SameCount DEF Reads!SessionEvents
  <2>2. /\ DOMAIN events \subseteq 1 .. writes /\ writes \in Nat
        /\ \A e \in DOMAIN events : events[e] \in [session : Mains \cup {None}, at : Reads!Times]
    BY DEF Reads!TypeOK, Reads!Some
  <2>3. IsFiniteSet(own)
    <3>1. IsFiniteSet(1 .. writes)
      BY <2>2, FS_Interval
    <3>2. own \in SUBSET (1 .. writes)
      BY <2>2
    <3> HIDE DEF own
    <3> QED BY <3>1, <3>2, FS_Subset
  <2>4. ASSUME NEW e \in own PROVE events[e].at \in Nat /\ e \in Nat
    <3>1. e \in 1 .. writes
      BY <2>2
    <3>2. events[e] \in [session : Mains \cup {None}, at : Reads!Times]
      BY <2>2
    <3> QED BY <2>2, <3>1, <3>2 DEF Reads!Times
  <2>5. Ranked(rank)
    BY <2>3, <2>4 DEF Ranked
  <2>6. \A e \in own : rank[e] = <<events[e].at, e>>
    OBVIOUS
  <2> HIDE DEF own, rank
  <2>7. DOMAIN rank = own
    BY DEF rank
  <2>8. /\ Reads!Page(rank, limit, offset) \cap Reads!Page(rank, limit, offset + limit) = {}
        /\ \A e \in Reads!Page(rank, limit, offset), f \in Reads!Page(rank, limit, offset + limit) :
             e \in own /\ f \in own /\ ~Reads!Ahead(rank[f], rank[e])
        /\ (offset = 0 /\ Cardinality(own) <= limit) => Reads!Page(rank, limit, offset) = own
    <3>1. Reads!Page(rank, limit, offset + limit) \subseteq own
      BY <2>7 DEF Reads!Page
    <3> QED BY <1>1, <2>5, <2>7, <3>1, Paged
  <2>9. ASSUME NEW e \in Reads!Page(rank, limit, offset), NEW f \in Reads!Page(rank, limit, offset + limit)
        PROVE  events[e].at <= events[f].at
    <3>1. e \in own /\ f \in own /\ ~Reads!Ahead(rank[f], rank[e])
      BY <2>8
    <3>2. ~(events[f].at < events[e].at)
      BY <2>6, <3>1 DEF Reads!Ahead
    <3> QED BY <2>4, <3>1, <3>2
  <2>10. /\ Reads!SessionEvents(s, limit, offset).events = Reads!Page(rank, limit, offset)
         /\ Reads!SessionEvents(s, limit, offset + limit).events = Reads!Page(rank, limit, offset + limit)
         /\ Reads!SessionEvents(s, limit, offset).total = Cardinality(own)
    BY <1>1, <2>1
  <2>11. own = {e \in DOMAIN events : events[e].session = s}
    BY DEF own
  <2> QED BY <2>8, <2>9, <2>10, <2>11
<1> QED BY <1>1, <1>3, <1>4, <1>5, <1>6

LEMMA LinksFinite ==
  ASSUME Reads!TypeOK
  PROVE  IsFiniteSet(links)
<1>1. IsFiniteSet(Reads!Ids) /\ IsFiniteSet(Mains)
  BY AnswersAssumption, SameFinite, FS_Union DEF Reads!Configured, Reads!Ids
<1>2. IsFiniteSet(Reads!Ids \X Reads!Ids)
  BY <1>1, FS_Product
<1>3. IsFiniteSet(Mains \X (Reads!Ids \X Reads!Ids))
  BY <1>1, <1>2, FS_Product
<1> DEFINE f == [e \in links |-> <<e.session, <<e.parent, e.child>>>>]
<1>4. f \in Injection(links, Mains \X (Reads!Ids \X Reads!Ids))
  BY DEF Injection, IsInjective, Reads!TypeOK, Reads!WellFormed, Reads!Edges
<1> HIDE DEF f
<1> QED BY <1>3, <1>4, FS_Injection

LEMMA GraphIs ==
  ASSUME Reads!TypeOK, NEW limit \in Limits \ {0}
  PROVE  LET kept == Reads!Page(Reads!AgentRank, limit, 0)
             dag == Reads!GlobalDag(limit)
         IN /\ kept \subseteq DOMAIN agents
            /\ Cardinality(kept) \in Nat /\ Cardinality(DOMAIN agents) \in Nat
            /\ Cardinality(kept) <= Cardinality(DOMAIN agents)
            /\ Cardinality(kept) = Cardinality(DOMAIN agents) <=> kept = DOMAIN agents
            /\ dag.nodes = [a \in kept |-> Reads!NodeUsage(a)]
            /\ DOMAIN dag.nodes = kept
            /\ dag.edges = {e \in links : {e.parent, e.child} \subseteq kept}
            /\ dag.totalAgents = Cardinality(DOMAIN agents)
            /\ dag.totalEdges = Cardinality(links)
            /\ dag.truncated <=> Cardinality(kept) < Cardinality(DOMAIN agents)
<1> DEFINE kept == Reads!Page(Reads!AgentRank, limit, 0)
           dag == Reads!GlobalDag(limit)
<1>1. limit \in Nat
  BY AnswersAssumption DEF Reads!Configured
<1>2. DOMAIN Reads!AgentRank = DOMAIN agents
  BY DEF Reads!AgentRank
<1>3. /\ kept \subseteq DOMAIN agents /\ IsFiniteSet(DOMAIN agents)
      /\ Cardinality(kept) \in Nat /\ Cardinality(DOMAIN agents) \in Nat
      /\ Cardinality(kept) <= Cardinality(DOMAIN agents)
  BY <1>1, <1>2, Paged, Ranks DEF Ranked
<1>4. Cardinality(kept) = Cardinality(DOMAIN agents) <=> kept = DOMAIN agents
  BY <1>3, FS_Subset
<1>5. /\ dag.nodes = [a \in kept |-> Reads!NodeUsage(a)]
      /\ dag.edges = {e \in links : {e.parent, e.child} \subseteq kept}
      /\ dag.totalAgents = Cardinality(DOMAIN agents)
      /\ dag.totalEdges = Cardinality(links)
      /\ dag.truncated <=> Cardinality(kept) < Cardinality(DOMAIN agents)
  BY SameCount DEF Reads!GlobalDag
<1> HIDE DEF kept, dag
<1> QED BY <1>3, <1>4, <1>5 DEF kept, dag

LEMMA Drawing ==
  ASSUME Reads!TypeOK
  PROVE  Reads!GraphAgrees
<1> SUFFICES ASSUME NEW limit \in Limits \ {0}
    PROVE LET dag == Reads!GlobalDag(limit)
    IN /\ \A a \in DOMAIN dag.nodes :
            dag.nodes[a] = Reads!SessionTree(agents[a].session).agents[a]
       /\ Reads!DagCaption(dag).agents = "all" <=> DOMAIN dag.nodes = DOMAIN agents
       /\ Reads!DagCaption(dag).agents # "disagreement"
       /\ DOMAIN dag.nodes # {} => (Reads!DagCaption(dag).edgesMissing <=> dag.edges # links)
       /\ \A top \in Limits \ {0} : Reads!Burners(dag, top).claim = "all" =>
            /\ Reads!Burners(dag, top).ranked \cup Reads!Burners(dag, top).unused = DOMAIN agents
            /\ \A m \in DOMAIN usage :
                 (usage[m].out > 0 /\ usage[m].agent \in Reads!AgentsOf(usage[m].session)) =>
                    usage[m].agent \in Reads!Burners(dag, top).ranked
  BY DEF Reads!GraphAgrees
<1> DEFINE kept == Reads!Page(Reads!AgentRank, limit, 0)
           dag == Reads!GlobalDag(limit)
<1>1. /\ kept \subseteq DOMAIN agents
      /\ Cardinality(kept) \in Nat /\ Cardinality(DOMAIN agents) \in Nat
      /\ Cardinality(kept) <= Cardinality(DOMAIN agents)
      /\ Cardinality(kept) = Cardinality(DOMAIN agents) <=> kept = DOMAIN agents
      /\ dag.nodes = [a \in kept |-> Reads!NodeUsage(a)]
      /\ DOMAIN dag.nodes = kept
      /\ dag.edges = {e \in links : {e.parent, e.child} \subseteq kept}
      /\ dag.totalAgents = Cardinality(DOMAIN agents)
      /\ dag.totalEdges = Cardinality(links)
      /\ dag.truncated <=> Cardinality(kept) < Cardinality(DOMAIN agents)
  BY GraphIs
<1> HIDE DEF kept, dag
<1>2. ASSUME NEW a \in DOMAIN dag.nodes
      PROVE  dag.nodes[a] = Reads!SessionTree(agents[a].session).agents[a]
  <2>1. a \in DOMAIN agents /\ dag.nodes[a] = Reads!NodeUsage(a)
    BY <1>1
  <2>2. agents[a].session \in DOMAIN sessions
    BY <2>1 DEF Reads!TypeOK, Reads!WellFormed
  <2>3. a \in Reads!AgentsOf(agents[a].session)
    BY <2>1 DEF Reads!AgentsOf
  <2> QED BY <2>1, <2>2, <2>3 DEF Reads!SessionTree, Reads!NodeUsage, Reads!UsageOf
<1>3. /\ Reads!DagCaption(dag).agents = "all" <=> kept = DOMAIN agents
      /\ Reads!DagCaption(dag).agents # "disagreement"
  BY <1>1, SameCount DEF Reads!DagCaption, Reads!CountsDisagree
<1>4. DOMAIN dag.nodes # {} => (Reads!DagCaption(dag).edgesMissing <=> dag.edges # links)
  <2>1. IsFiniteSet(links)
    BY LinksFinite
  <2>2. dag.edges \subseteq links
    BY <1>1
  <2>3. Cardinality(links) = Cardinality(dag.edges) => links = dag.edges
    BY <2>1, <2>2, FS_Subset
  <2> QED BY <1>1, <2>3, SameCount DEF Reads!DagCaption
<1>5. ASSUME NEW top \in Limits \ {0}, Reads!Burners(dag, top).claim = "all"
       PROVE  /\ Reads!Burners(dag, top).ranked \cup Reads!Burners(dag, top).unused = DOMAIN agents
              /\ \A m \in DOMAIN usage :
                   (usage[m].out > 0 /\ usage[m].agent \in Reads!AgentsOf(usage[m].session)) =>
                      usage[m].agent \in Reads!Burners(dag, top).ranked
  <2> DEFINE ranked == {a \in DOMAIN dag.nodes : \E m \in dag.nodes[a] : usage[m].out > 0}
  <2>1. /\ Reads!Burners(dag, top).ranked = ranked
        /\ Reads!Burners(dag, top).unused = DOMAIN dag.nodes \ ranked
        /\ ~(dag.truncated \/ Reads!CountsDisagree(dag))
    BY <1>5 DEF Reads!Burners, Reads!Ranking
  <2>2. kept = DOMAIN agents
    BY <2>1, <1>1
  <2>3. ASSUME NEW m \in DOMAIN usage, usage[m].out > 0,
               usage[m].agent \in Reads!AgentsOf(usage[m].session)
        PROVE  usage[m].agent \in ranked
    <3>1. usage[m].agent \in DOMAIN agents /\ agents[usage[m].agent].session = usage[m].session
      BY <2>3 DEF Reads!AgentsOf
    <3>2. m \in dag.nodes[usage[m].agent]
      BY <3>1, <2>2, <1>1 DEF Reads!NodeUsage
    <3> QED BY <2>3, <3>1, <3>2, <2>2, <1>1
  <2> QED BY <2>1, <2>2, <2>3, <1>1
<1> QED BY <1>1, <1>2, <1>3, <1>4, <1>5 DEF dag

LEMMA Newest ==
  ASSUME Reads!TypeOK, NEW since \in Reads!Times \cup {0}
  PROVE  /\ Reads!Boundary(since) \in Nat /\ since <= Reads!Boundary(since)
         /\ \A v \in Reads!Instants : v <= Reads!Boundary(since)
         /\ MaxTime \in Nat /\ since \in Nat
<1> DEFINE T == Reads!Instants \cup {since}
           Gaps == {MaxTime - v : v \in T}
<1>1. MaxTime \in Nat
  BY AnswersAssumption DEF Reads!Configured
<1>2. \A v \in T : v \in Nat /\ v <= MaxTime
  BY <1>1 DEF Reads!Instants, Reads!Times
<1>3. Gaps \in SUBSET Nat /\ Gaps # {}
  BY <1>1, <1>2
<1>4. PICK g \in Gaps : \A h \in Gaps : g <= h
  BY <1>3, LeastNumber
<1>5. PICK u \in T : g = MaxTime - u
  OBVIOUS
<1>6. \A v \in T : v <= u
  <2> TAKE v \in T
  <2>1. MaxTime - v \in Gaps
    OBVIOUS
  <2>2. MaxTime - u <= MaxTime - v
    BY <1>4, <1>5, <2>1
  <2> QED BY <1>1, <1>2, <2>2
<1>7. Reads!Boundary(since) \in T /\ \A v \in T : v <= Reads!Boundary(since)
  BY <1>6 DEF Reads!Boundary
<1> QED BY <1>1, <1>2, <1>7

\* What WindowAgrees says of one window, whose page may begin anywhere.
WindowSays(since, limit, offset) ==
  LET c == Reads!Changes(since, limit, offset)
      part == [s \in DOMAIN c.sessions |-> c.sessions[s].added]
  IN /\ Reads!Possible(c)
     /\ (offset = 0 /\ c.total <= limit) => Reads!Splits(part, c.outside, c.added)
     /\ (since = 0 /\ offset = 0 /\ c.total <= limit) =>
          DOMAIN c.sessions \cup c.undatedSessions = DOMAIN sessions
     /\ since = 0 =>
          /\ c.added \cup c.undatedUsage = DOMAIN usage
          /\ c.appeared \cup c.undatedAgents = DOMAIN agents

LEMMA WindowIs ==
  ASSUME Reads!TypeOK, NEW since \in Reads!Times \cup {0}, NEW limit \in Nat, NEW offset \in Nat
  PROVE  WindowSays(since, limit, offset)
<1> DEFINE until == Reads!Boundary(since)
           changed == Reads!Changed(since, until)
           rank == [s \in changed |-> Reads!SessionRank[s]]
           shown == Reads!Page(rank, limit, offset)
           spent == Reads!Spent(since, until)
           c == Reads!Changes(since, limit, offset)
<1>2. /\ until \in Nat /\ since <= until /\ since \in Nat
      /\ \A v \in Reads!Instants : v <= until
  BY Newest
<1>3. /\ changed \subseteq DOMAIN sessions
      /\ \A s \in DOMAIN sessions : s \in changed <=>
           Reads!ChangedAt(s) \in Reads!Times /\ since < Reads!ChangedAt(s) /\ Reads!ChangedAt(s) <= until
  BY DEF Reads!Changed, Reads!Within
<1>4. /\ c.since = since /\ c.until = until /\ c.limit = limit
      /\ DOMAIN c.sessions = shown
      /\ \A s \in shown : /\ c.sessions[s].changedAt = Reads!ChangedAt(s)
                          /\ c.sessions[s].added = spent \cap Reads!UsageOf(s)
      /\ c.new = Cardinality(Reads!Classified("new", since, until))
      /\ c.updated = Cardinality(Reads!Classified("updated", since, until))
      /\ c.unknown = Cardinality(Reads!Classified("unknown", since, until))
      /\ c.added = spent
      /\ c.outside = {m \in spent : usage[m].session \notin changed}
      /\ c.undatedSessions = {s \in DOMAIN sessions : Reads!ChangedAt(s) = None}
      /\ c.undatedUsage = {m \in DOMAIN usage : usage[m].at = None}
      /\ c.appeared = Reads!Appeared(since, until)
      /\ c.undatedAgents = {a \in DOMAIN agents : Reads!Canonical(agents[a].first) = None}
      /\ c.total = Cardinality(changed)
  BY SameCount DEF Reads!Changes
<1>5. /\ DOMAIN rank = changed
      /\ Ranked(rank) /\ IsFiniteSet(changed)
  BY <1>3, Ranks, FS_Subset DEF Ranked, Reads!SessionRank
<1>6. spent = {m \in DOMAIN usage : usage[m].at \in Reads!Times /\ since < usage[m].at /\ usage[m].at <= until}
  BY DEF Reads!Spent, Reads!Within
<1> HIDE DEF until, changed, rank, spent, c
<1>7. /\ shown \subseteq changed
      /\ Cardinality(shown) <= limit /\ Cardinality(shown) <= Cardinality(changed)
      /\ (offset = 0 /\ Cardinality(changed) <= limit) => shown = changed
  BY <1>5, Paged
<1> HIDE DEF shown
<1>8. c.new + c.updated + c.unknown = c.total
  <2> DEFINE N == Reads!Classified("new", since, until)
             U == Reads!Classified("updated", since, until)
             K == Reads!Classified("unknown", since, until)
  <2>1. /\ N \cup U \cup K = changed
        /\ N \cap U = {} /\ (N \cup U) \cap K = {}
    BY DEF Reads!Classified, Reads!ChangeKind, changed
  <2> HIDE DEF N, U, K
  <2>2. /\ IsFiniteSet(N) /\ IsFiniteSet(U) /\ IsFiniteSet(K) /\ IsFiniteSet(N \cup U)
    BY <2>1, <1>5, FS_Subset
  <2>3. /\ Cardinality(N \cup U) = Cardinality(N) + Cardinality(U) - Cardinality(N \cap U)
        /\ Cardinality((N \cup U) \cup K) =
             Cardinality(N \cup U) + Cardinality(K) - Cardinality((N \cup U) \cap K)
    BY <2>2, FS_Union
  <2>4. /\ Cardinality(N) \in Nat /\ Cardinality(U) \in Nat /\ Cardinality(K) \in Nat
        /\ Cardinality(N \cap U) = 0 /\ Cardinality((N \cup U) \cap K) = 0
    BY <2>1, <2>2, FS_CardinalityType, FS_EmptySet
  <2>5. c.new = Cardinality(N) /\ c.updated = Cardinality(U) /\ c.unknown = Cardinality(K)
    BY <1>4 DEF N, U, K, until
  <2>6. c.total = Cardinality((N \cup U) \cup K)
    BY <1>4, <2>1
  <2>7. Cardinality((N \cup U) \cup K) = Cardinality(N) + Cardinality(U) + Cardinality(K)
    BY <2>3, <2>4
  <2> QED BY <2>5, <2>6, <2>7
<1>9. Reads!Possible(c)
  <2>1. c.outside \subseteq c.added
    BY <1>4
  <2>2. ASSUME NEW s \in shown
        PROVE  /\ c.since < c.sessions[s].changedAt /\ c.sessions[s].changedAt <= c.until
               /\ c.sessions[s].added \subseteq c.added
               /\ \A t \in shown \ {s} : c.sessions[s].added \cap c.sessions[t].added = {}
    <3>1. s \in changed /\ s \in DOMAIN sessions
      BY <1>3, <1>7
    <3>2. \A t \in shown \ {s} : Reads!UsageOf(s) \cap Reads!UsageOf(t) = {}
      BY DEF Reads!UsageOf
    <3> QED BY <1>3, <1>4, <3>1, <3>2
  <2> QED BY <1>2, <1>4, <1>7, <1>8, <2>1, <2>2, SameCount DEF Reads!Possible
<1> DEFINE part == [s \in DOMAIN c.sessions |-> c.sessions[s].added]
<1>10. ASSUME offset = 0, c.total <= limit
       PROVE  Reads!Splits(part, c.outside, c.added)
  <2>1. shown = changed
    BY <1>4, <1>7, <1>10
  <2>2. /\ DOMAIN part = changed
        /\ \A s \in changed : part[s] = spent \cap Reads!UsageOf(s)
        /\ c.outside = {m \in spent : usage[m].session \notin changed}
        /\ c.added = spent /\ spent \subseteq DOMAIN usage
    BY <1>4, <1>6, <2>1
  <2> HIDE DEF part
  <2>3. \A m \in spent : m \in c.outside \/ \E s \in DOMAIN part : m \in part[s]
    BY <2>2 DEF Reads!UsageOf
  <2>4. c.outside \subseteq spent /\ \A s \in DOMAIN part : part[s] \subseteq spent
    BY <2>2
  <2>5. \A s \in DOMAIN part :
          /\ part[s] \cap c.outside = {}
          /\ \A t \in DOMAIN part \ {s} : part[s] \cap part[t] = {}
    BY <2>2 DEF Reads!UsageOf
  <2> QED BY <2>2, <2>3, <2>4, <2>5, Splitting
<1>11. ASSUME since = 0
       PROVE  c.added \cup c.undatedUsage = DOMAIN usage
  <2>1. ASSUME NEW m \in DOMAIN usage
        PROVE  m \in spent \/ m \in c.undatedUsage
    <3>1. usage[m].at \in Reads!Times \cup {None}
      BY DEF Reads!TypeOK, Reads!WellFormed, Reads!Some, Reads!UsageRow
    <3>2. usage[m].at \in Reads!Times => usage[m].at \in Reads!Instants
      BY DEF Reads!Instants
    <3> QED BY <1>2, <1>4, <1>6, <1>11, <3>1, <3>2 DEF Reads!Times
  <2> QED BY <1>4, <1>6, <2>1
<1>12. ASSUME since = 0, offset = 0, c.total <= limit
       PROVE  DOMAIN c.sessions \cup c.undatedSessions = DOMAIN sessions
  <2>1. shown = changed
    BY <1>4, <1>7, <1>12
  <2>2. ASSUME NEW s \in DOMAIN sessions
        PROVE  s \in changed \/ Reads!ChangedAt(s) = None
    <3>1. Reads!ChangedAt(s) \in Reads!Times \cup {None}
      BY Ranks
    <3>2. Reads!ChangedAt(s) \in Reads!Times => Reads!ChangedAt(s) \in Reads!Instants
      BY DEF Reads!Instants
    <3> QED BY <1>2, <1>3, <1>12, <3>1, <3>2 DEF Reads!Times
  <2> QED BY <1>3, <1>4, <2>1, <2>2
<1>13. ASSUME since = 0
       PROVE  c.appeared \cup c.undatedAgents = DOMAIN agents
  <2>1. c.appeared = {a \in DOMAIN agents :
          LET at == Reads!Canonical(agents[a].first)
          IN at \in Reads!Times /\ since < at /\ at <= until}
    BY <1>4 DEF Reads!Appeared, Reads!Within
  <2>2. ASSUME NEW a \in DOMAIN agents
        PROVE  a \in c.appeared \/ a \in c.undatedAgents
    <3> DEFINE at == Reads!Canonical(agents[a].first)
    <3>1. at \in Reads!Times \cup {None}
      BY DEF Reads!Canonical
    <3>2. at \in Reads!Times => at \in Reads!Instants
      BY DEF Reads!Instants
    <3>3. at \in Reads!Times => since < at /\ at <= until
      BY <1>2, <1>13, <3>2 DEF Reads!Times
    <3> HIDE DEF at
    <3>4. a \in c.appeared \/ at = None
      BY <2>1, <3>1, <3>3 DEF at
    <3> QED BY <1>4, <3>4 DEF at
  <2> QED BY <1>4, <2>1, <2>2
<1> QED BY <1>9, <1>10, <1>11, <1>12, <1>13 DEF c, WindowSays

LEMMA Windowed ==
  ASSUME Reads!TypeOK
  PROVE  Reads!WindowAgrees
<1>1. Limits \subseteq Nat
  BY AnswersAssumption DEF Reads!Configured
<1>2. \A since \in Reads!Times \cup {0}, limit \in Limits \ {0}, offset \in Limits :
        WindowSays(since, limit, offset)
  BY <1>1, WindowIs
<1> QED BY <1>2 DEF WindowSays, Reads!WindowAgrees

-----------------------------------------------------------------------------
(* What the page says of the answers *)

\* A page that has room for one shows one, when there is one.
LEMMA FirstPage ==
  ASSUME NEW rank, Ranked(rank), NEW limit \in Nat \ {0}, DOMAIN rank # {}
  PROVE  Reads!Page(rank, limit, 0) # {}
<1> DEFINE Places == {Reads!Place(rank, i) : i \in DOMAIN rank}
<1>1. Places \in SUBSET Nat /\ Places # {}
  BY Placed
<1>2. PICK n \in Places : \A k \in Places : n <= k
  BY <1>1, LeastNumber
<1>3. PICK i \in DOMAIN rank : n = Reads!Place(rank, i)
  OBVIOUS
<1>4. \A j \in DOMAIN rank : ~Reads!Ahead(rank[j], rank[i])
  <2> TAKE j \in DOMAIN rank
  <2>1. Reads!Place(rank, j) \in Places
    OBVIOUS
  <2>2. Reads!Place(rank, i) <= Reads!Place(rank, j)
    BY <1>2, <1>3, <2>1
  <2> QED BY <2>2, Placed
<1>5. Reads!Place(rank, i) = 0
  <2>1. {j \in DOMAIN rank : Reads!Ahead(rank[j], rank[i])} = {}
    BY <1>4
  <2> QED BY <2>1, SameCount, FS_EmptySet DEF Reads!Place
<1>6. i \in Reads!Page(rank, limit, 0)
  BY <1>5 DEF Reads!Page
<1> QED BY <1>6

LEMMA ListSaid ==
  ASSUME Reads!TypeOK, NEW limit \in Limits \ {0}
  PROVE  LET list == Reads!ListSessions(limit, 0)
         IN /\ Reads!ListCaption(list) # "disagreement"
            /\ Reads!ListCaption(list) \in {"none", "all"} => DOMAIN list.sessions = DOMAIN sessions
<1> DEFINE list == Reads!ListSessions(limit, 0)
           shown == Reads!Page(Reads!SessionRank, limit, 0)
<1>1. limit \in Nat \ {0}
  BY AnswersAssumption DEF Reads!Configured
<1>2. DOMAIN Reads!SessionRank = DOMAIN sessions /\ Ranked(Reads!SessionRank)
  BY Ranks DEF Reads!SessionRank
<1>3. DOMAIN list.sessions = shown /\ list.total = Cardinality(DOMAIN sessions)
  BY SameCount DEF Reads!ListSessions
<1>4. /\ shown \subseteq DOMAIN sessions /\ IsFiniteSet(shown)
      /\ Cardinality(shown) \in Nat /\ Cardinality(DOMAIN sessions) \in Nat
      /\ Cardinality(shown) <= Cardinality(DOMAIN sessions)
      /\ Cardinality(shown) <= limit
      /\ Cardinality(DOMAIN sessions) <= limit => shown = DOMAIN sessions
  BY <1>1, <1>2, Paged
<1>5. Cardinality(shown) = 0 => shown = DOMAIN sessions
  <2>1. Cardinality(shown) = 0 => shown = {}
    BY <1>4, FS_EmptySet
  <2> QED BY <1>1, <1>2, <2>1, FirstPage
<1> HIDE DEF list, shown
<1>6. /\ Reads!ListCaption(list) # "disagreement"
      /\ Reads!ListCaption(list) \in {"none", "all"} => shown = DOMAIN sessions
  BY <1>1, <1>3, <1>4, <1>5, SameCount DEF Reads!ListCaption
<1> QED BY <1>3, <1>6 DEF list

LEMMA TreeSaid ==
  ASSUME Reads!TypeOK, NEW s \in DOMAIN sessions
  PROVE  LET panel == Reads!TreePanel(Reads!SessionTree(s))
         IN /\ ~panel.disagreement
            /\ panel.drawn = {e \in Reads!EdgesOf(s) : {e.parent, e.child} \subseteq Reads!AgentsOf(s)}
            /\ panel.dropped <=> panel.text.undrawn # 0
            /\ panel.dropped <=> panel.drawn # Reads!EdgesOf(s)
<1> DEFINE shown == Reads!SessionTree(s)
           panel == Reads!TreePanel(shown)
           own == Reads!EdgesOf(s)
           drawn == {e \in own : {e.parent, e.child} \subseteq Reads!AgentsOf(s)}
<1>1. /\ DOMAIN shown.agents = Reads!AgentsOf(s) /\ shown.edges = own
      /\ shown.agentCount = Cardinality(Reads!AgentsOf(s))
      /\ shown.edgeCount = Cardinality(own)
  BY SameCount DEF Reads!SessionTree
<1>2. own \subseteq links /\ IsFiniteSet(own)
  BY LinksFinite, FS_Subset DEF Reads!EdgesOf
<1>3. drawn \subseteq own
  OBVIOUS
<1>4. Cardinality(drawn) = Cardinality(own) <=> drawn = own
  BY <1>2, <1>3, FS_Subset
<1>5. Cardinality(own \ drawn) = 0 <=> drawn = own
  <2>1. IsFiniteSet(own \ drawn)
    BY <1>2, FS_Subset
  <2>2. Cardinality(own \ drawn) = 0 <=> own \ drawn = {}
    BY <2>1, FS_EmptySet
  <2> QED BY <1>3, <2>2
<1>6. Reads!Placeable(Reads!AgentsOf(s), own) = drawn
  BY DEF Reads!Placeable
<1> HIDE DEF shown, own, drawn
<1>7. /\ ~panel.disagreement /\ panel.drawn = drawn
      /\ panel.dropped <=> Cardinality(drawn) # Cardinality(own)
      /\ panel.text.undrawn = Cardinality(own \ drawn)
  BY <1>1, <1>6, SameCount DEF Reads!TreePanel, Reads!TreeCountDisagreement, Reads!Description
<1> QED BY <1>4, <1>5, <1>7 DEF shown, own, drawn

LEMMA GraphSaid ==
  ASSUME Reads!TypeOK, NEW limit \in Limits \ {0}
  PROVE  LET dag == Reads!GlobalDag(limit)
         IN /\ Reads!DagCaption(dag).text.slice <=> Reads!DagCaption(dag).agents # "all"
            /\ DOMAIN dag.nodes # {} =>
                 (Reads!DagCaption(dag).text.unreturned <=> Reads!DagCaption(dag).edgesMissing)
            /\ Reads!DagCaption(dag).text.undrawn = 0
            /\ \A s \in DOMAIN sessions :
                 Reads!DagCaption(dag).text.slice
                   \/ Reads!TreePanel(Reads!SessionTree(s)).drawn \subseteq dag.edges
<1> DEFINE kept == Reads!Page(Reads!AgentRank, limit, 0)
           dag == Reads!GlobalDag(limit)
<1>1. /\ kept \subseteq DOMAIN agents
      /\ Cardinality(kept) \in Nat /\ Cardinality(DOMAIN agents) \in Nat
      /\ Cardinality(kept) <= Cardinality(DOMAIN agents)
      /\ Cardinality(kept) = Cardinality(DOMAIN agents) <=> kept = DOMAIN agents
      /\ DOMAIN dag.nodes = kept
      /\ dag.edges = {e \in links : {e.parent, e.child} \subseteq kept}
      /\ dag.totalAgents = Cardinality(DOMAIN agents)
      /\ dag.truncated <=> Cardinality(kept) < Cardinality(DOMAIN agents)
  BY GraphIs
<1> HIDE DEF kept, dag
<1>2. dag.edges \ Reads!Placeable(kept, dag.edges) = {}
  BY <1>1 DEF Reads!Placeable
<1>3. /\ Reads!DagCaption(dag).text.slice <=> dag.truncated \/ Reads!CountsDisagree(dag)
      /\ Reads!DagCaption(dag).text.undrawn = Cardinality({})
      /\ DOMAIN dag.nodes # {} =>
           (Reads!DagCaption(dag).text.unreturned <=> Reads!DagCaption(dag).edgesMissing)
      /\ Reads!DagCaption(dag).agents # "all" <=> dag.truncated \/ Reads!CountsDisagree(dag)
  BY <1>1, <1>2, SameCount DEF Reads!DagCaption, Reads!Description
<1>4. Reads!DagCaption(dag).text.undrawn = 0
  BY <1>3, FS_EmptySet
<1>5. ASSUME NEW s \in DOMAIN sessions, ~Reads!DagCaption(dag).text.slice
      PROVE  Reads!TreePanel(Reads!SessionTree(s)).drawn \subseteq dag.edges
  <2>1. kept = DOMAIN agents
    BY <1>1, <1>3, <1>5
  <2>2. Reads!TreePanel(Reads!SessionTree(s)).drawn =
          {e \in Reads!EdgesOf(s) : {e.parent, e.child} \subseteq Reads!AgentsOf(s)}
    BY TreeSaid
  <2> QED BY <1>1, <2>1, <2>2 DEF Reads!EdgesOf, Reads!AgentsOf
<1> QED BY <1>3, <1>4, <1>5 DEF dag

LEMMA WindowSaid ==
  ASSUME Reads!TypeOK, NEW since \in Reads!Times \cup {0}, NEW limit \in Limits \ {0}
  PROVE  LET c == Reads!Changes(since, limit, 0)
             said == Reads!ChangesResult(c)
         IN /\ said.rows # "disagreement"
            /\ (said.rows = "all" /\ said.addUp) =>
                 \A m \in c.added : usage[m].out > 0 =>
                   \E s \in DOMAIN c.sessions : m \in c.sessions[s].added
            /\ (since = 0 /\ said.rows = "all" /\ said.dated) =>
                 /\ DOMAIN c.sessions = DOMAIN sessions
                 /\ c.added = DOMAIN usage /\ c.appeared = DOMAIN agents
<1> DEFINE c == Reads!Changes(since, limit, 0)
           part == [s \in DOMAIN c.sessions |-> c.sessions[s].added]
           shown == Cardinality(DOMAIN c.sessions)
           said == Reads!ChangesResult(c)
<1>1. limit \in Nat
  BY AnswersAssumption DEF Reads!Configured
<1>2. /\ Reads!Possible(c)
      /\ c.total <= limit => Reads!Splits(part, c.outside, c.added)
      /\ (since = 0 /\ c.total <= limit) => DOMAIN c.sessions \cup c.undatedSessions = DOMAIN sessions
      /\ since = 0 => /\ c.added \cup c.undatedUsage = DOMAIN usage
                      /\ c.appeared \cup c.undatedAgents = DOMAIN agents
  BY <1>1, WindowIs DEF WindowSays
<1>3. c.limit = limit
  BY DEF Reads!Changes
<1> HIDE DEF c
<1>4. shown <= limit /\ shown <= c.total
  BY <1>2, <1>3, SameCount DEF Reads!Possible
<1>5. /\ said.rows = IF c.total > shown THEN "slice"
                     ELSE IF c.total < shown THEN "disagreement" ELSE "all"
      /\ said.addUp <=> \A m \in c.outside : usage[m].out = 0
      /\ said.dated <=> c.undatedSessions = {} /\ c.undatedAgents = {} /\ c.undatedUsage = {}
  BY SameCount DEF Reads!ChangesResult
<1>6. shown \in Nat /\ c.total \in Nat
  <2> DEFINE changed == Reads!Changed(since, Reads!Boundary(since))
             rank == [s \in changed |-> Reads!SessionRank[s]]
  <2>1. changed \subseteq DOMAIN sessions
    BY DEF Reads!Changed
  <2>2. DOMAIN c.sessions = Reads!Page(rank, limit, 0) /\ c.total = Cardinality(changed)
    BY SameCount DEF Reads!Changes, c
  <2> HIDE DEF changed
  <2>3. DOMAIN c.sessions \subseteq DOMAIN sessions
    BY <2>1, <2>2 DEF Reads!Page
  <2>4. IsFiniteSet(DOMAIN sessions)
    BY Ranks DEF Ranked, Reads!SessionRank
  <2>5. IsFiniteSet(DOMAIN c.sessions) /\ IsFiniteSet(changed)
    BY <2>1, <2>3, <2>4, FS_Subset
  <2> QED BY <2>2, <2>5, FS_CardinalityType
<1> HIDE DEF part, shown, said
<1>7. said.rows # "disagreement" /\ (said.rows = "all" => c.total <= limit)
  BY <1>1, <1>4, <1>5, <1>6
<1>8. ASSUME said.rows = "all", said.addUp, NEW m \in c.added, usage[m].out > 0
      PROVE  \E s \in DOMAIN c.sessions : m \in c.sessions[s].added
  <2>1. m \notin c.outside
    BY <1>5, <1>8
  <2>2. (UNION {part[s] : s \in DOMAIN part}) \cup c.outside = c.added
    BY <1>2, <1>7, <1>8 DEF Reads!Splits
  <2>3. \E s \in DOMAIN part : m \in part[s]
    BY <2>1, <2>2, <1>8
  <2> QED BY <2>3 DEF part
<1>9. ASSUME since = 0, said.rows = "all", said.dated
      PROVE  DOMAIN c.sessions = DOMAIN sessions /\ c.added = DOMAIN usage /\ c.appeared = DOMAIN agents
  BY <1>2, <1>5, <1>7, <1>9
<1> QED BY <1>7, <1>8, <1>9 DEF said, c

LEMMA Saying ==
  ASSUME Reads!TypeOK
  PROVE  Reads!PageTruthful
BY ListSaid, TreeSaid, GraphSaid, WindowSaid DEF Reads!PageTruthful

LEMMA AnswersStep ==
  ASSUME [IngestedNext]_all, subject' = "answers"
  PROVE  subject = "answers" /\ [Reads!Next]_Reads!vars
BY DEF IngestedNext, all, answers, Reads!vars

\* Whatever passes, prunes and hook events came in whatever order, the figures
\* of sessions, models and agents add up, a node of the graph shows what the
\* tree of its session shows, a cut graph is called one, a window is possible
\* and complete, pages neither overlap nor go back in time, and what the page
\* says of any of these, or lets be concluded from what it does not say, is so
\* (queries.ts; DagView, CostView, SessionsView, ChangesPanel, chart-summary).
THEOREM AnswersAgree == IngestedSpec => []ReadsAgree
<1> DEFINE AInv == subject = "answers" => Reads!TypeOK
<1>1. IngestedInit => AInv
  <2> SUFFICES ASSUME IngestedInit, subject = "answers" PROVE Reads!TypeOK
    OBVIOUS
  <2>1. Reads!Init
    BY DEF IngestedInit
  <2> QED BY <2>1, AnswersTypedInit
<1>2. AInv /\ [IngestedNext]_all => AInv'
  BY AnswersStep, AnswersTypedStep
<1>3. AInv => ReadsAgree
  BY AddingUp, Drawing, Windowed, Turning, Saying DEF ReadsAgree, Reads!ReadsAgree
<1> QED BY <1>1, <1>2, <1>3, PTL DEF IngestedSpec

-----------------------------------------------------------------------------
(* Sums over finite sets *)

LEMMA FewerWithout ==
  ASSUME NEW S, IsFiniteSet(S), NEW e \in S
  PROVE  /\ IsFiniteSet(S \ {e}) /\ Cardinality(S) \in Nat
         /\ Cardinality(S \ {e}) = Cardinality(S) - 1 /\ Cardinality(S) > 0
<1>1. Cardinality(S) \in Nat /\ IsFiniteSet(S \ {e}) /\ Cardinality(S \ {e}) \in Nat
  BY FS_CardinalityType, FS_RemoveElement
<1>2. Cardinality(S \ {e}) = Cardinality(S) - 1
  BY FS_RemoveElement
<1> QED BY <1>1, <1>2

LEMMA ImageIsFinite ==
  ASSUME NEW S, IsFiniteSet(S), NEW f
  PROVE  IsFiniteSet({f[p] : p \in S})
<1> DEFINE T == {f[p] : p \in S}
           h == [p \in S |-> f[p]]
<1>1. h \in [S -> T] /\ \A t \in T : \E p \in S : h[p] = t
  OBVIOUS
<1>2. h \in Surjection(S, T)
  <2> HIDE DEF h, T
  <2> QED BY <1>1 DEF Surjection
<1> QED BY <1>2, FS_Surjection

\* Complete induction on the size of the parts of a finite set: "Good" is a set,
\* so that no operator is a parameter.
LEMMA SizeInduction ==
  ASSUME NEW D, IsFiniteSet(D), NEW Good,
         \A T \in SUBSET D :
           (\A R \in SUBSET D : Cardinality(R) < Cardinality(T) => R \in Good) => T \in Good
  PROVE  \A T \in SUBSET D : T \in Good
<1> DEFINE Bad == {T \in SUBSET D : T \notin Good}
           Sizes == {Cardinality(T) : T \in Bad}
<1>1. SUFFICES ASSUME Bad # {} PROVE FALSE
  OBVIOUS
<1>2. \A T \in SUBSET D : Cardinality(T) \in Nat
  BY FS_Subset, FS_CardinalityType
<1>3. Sizes \in SUBSET Nat /\ Sizes # {}
  BY <1>1, <1>2
<1>4. PICK n \in Sizes : \A j \in Sizes : n <= j
  BY <1>3, LeastNumber
<1>5. PICK T \in Bad : n = Cardinality(T)
  BY <1>4
<1>6. \A R \in SUBSET D : Cardinality(R) < Cardinality(T) => R \in Good
  <2> SUFFICES ASSUME NEW R \in SUBSET D, Cardinality(R) < Cardinality(T), R \notin Good PROVE FALSE
    OBVIOUS
  <2>1. Cardinality(R) \in Sizes
    OBVIOUS
  <2> HIDE DEF Sizes
  <2> QED BY <1>2, <1>4, <1>5, <2>1
<1> QED BY <1>5, <1>6

One(S) == CHOOSE e \in S : TRUE

\* g has the sums of f over the parts of D, as FoldFunction takes them: one
\* element after another, and whichever One finds.
Sums(f, D, g) ==
  g = [S \in SUBSET D |-> IF S = {} THEN 0 ELSE f[One(S)] + g[S \ {One(S)}]]

LEMMA SumsExist ==
  ASSUME NEW D, IsFiniteSet(D), NEW f \in [D -> Int]
  PROVE  \E g : Sums(f, D, g)
<1> DEFINE Upto(n) == {S \in SUBSET D : Cardinality(S) <= n}
           Summing(n, g) ==
             /\ g \in [SUBSET D -> Int]
             /\ \A S \in Upto(n) : g[S] = IF S = {} THEN 0 ELSE f[One(S)] + g[S \ {One(S)}]
           Bad == {n \in Nat : ~ \E g : Summing(n, g)}
<1>1. \A S \in SUBSET D : IsFiniteSet(S) /\ Cardinality(S) \in Nat /\ (Cardinality(S) = 0 <=> S = {})
  BY FS_Subset, FS_CardinalityType, FS_EmptySet
<1>2. \A S \in SUBSET D : S # {} => One(S) \in S
  BY DEF One
<1>3. \E g : Summing(0, g)
  <2> DEFINE g == [S \in SUBSET D |-> 0]
  <2>1. \A S \in Upto(0) : S = {}
    BY <1>1
  <2>2. g \in [SUBSET D -> Int] /\ \A S \in SUBSET D : g[S] = 0
    OBVIOUS
  <2> HIDE DEF g
  <2>3. Summing(0, g)
    BY <2>1, <2>2
  <2> QED BY <2>3
<1>4. ASSUME NEW n \in Nat, NEW g, Summing(n, g) PROVE \E h : Summing(n + 1, h)
  <2> DEFINE h == [S \in SUBSET D |-> IF Cardinality(S) <= n THEN g[S]
                                      ELSE IF S = {} THEN 0 ELSE f[One(S)] + g[S \ {One(S)}]]
  <2>1. h \in [SUBSET D -> Int]
    <3> SUFFICES ASSUME NEW S \in SUBSET D, S # {} PROVE f[One(S)] + g[S \ {One(S)}] \in Int
      BY <1>4
    <3>1. One(S) \in D /\ S \ {One(S)} \in SUBSET D
      BY <1>2
    <3> QED BY <1>4, <3>1
  <2>2. ASSUME NEW S \in Upto(n + 1) PROVE h[S] = IF S = {} THEN 0 ELSE f[One(S)] + h[S \ {One(S)}]
    <3>1. CASE S = {}
      <4>1. Cardinality(S) <= n /\ S \in SUBSET D /\ S \in Upto(n)
        BY <1>1, <3>1
      <4>2. h[S] = g[S]
        BY <4>1
      <4> HIDE DEF h
      <4> QED BY <1>4, <3>1, <4>1, <4>2
    <3>2. CASE S # {}
      <4> DEFINE R == S \ {One(S)}
      <4>1. One(S) \in S /\ R \in SUBSET D /\ S \in SUBSET D
        BY <1>2, <3>2
      <4>2. Cardinality(R) = Cardinality(S) - 1 /\ Cardinality(S) \in Nat /\ Cardinality(S) <= n + 1
        BY <1>1, <4>1, FewerWithout
      <4>3. Cardinality(R) <= n
        <5> HIDE DEF R
        <5> QED BY <4>2
      <4>4. h[R] = g[R]
        <5> HIDE DEF R
        <5> QED BY <4>1, <4>3
      <4>5. h[S] = f[One(S)] + g[R]
        <5>1. CASE Cardinality(S) <= n
          <6>1. S \in Upto(n) /\ h[S] = g[S]
            BY <4>1, <5>1
          <6> QED BY <1>4, <3>2, <6>1
        <5>2. CASE ~(Cardinality(S) <= n)
          <6> QED BY <3>2, <4>1, <5>2
        <5> QED BY <5>1, <5>2
      <4> HIDE DEF h
      <4> QED BY <3>2, <4>4, <4>5
    <3> QED BY <3>1, <3>2
  <2> HIDE DEF h
  <2>3. Summing(n + 1, h)
    BY <2>1, <2>2
  <2> QED BY <2>3
<1>5. Bad = {}
  <2> SUFFICES ASSUME Bad # {} PROVE FALSE
    OBVIOUS
  <2>1. Bad \in SUBSET Nat
    OBVIOUS
  <2>2. PICK n \in Bad : \A j \in Bad : n <= j
    BY <2>1, LeastNumber
  <2>3. n \in Nat /\ n # 0
    <3>1. 0 \notin Bad
      BY <1>3
    <3> HIDE DEF Bad
    <3> QED BY <2>1, <2>2, <3>1
  <2>4. n - 1 \in Nat /\ n - 1 \notin Bad
    <3> HIDE DEF Bad
    <3> QED BY <2>2, <2>3
  <2>5. PICK g : Summing(n - 1, g)
    BY <2>4
  <2> HIDE DEF Summing
  <2>6. \E h : Summing(n - 1 + 1, h)
    BY <1>4, <2>4, <2>5
  <2>7. n - 1 + 1 = n
    BY <2>3
  <2> QED BY <2>2, <2>6, <2>7
<1>6. Cardinality(D) \in Nat
  BY FS_CardinalityType
<1>7. PICK g : Summing(Cardinality(D), g)
  <2> HIDE DEF Summing
  <2> QED BY <1>5, <1>6
<1>8. \A S \in SUBSET D : S \in Upto(Cardinality(D))
  BY FS_Subset
<1>9. /\ g = [S \in SUBSET D |-> g[S]]
      /\ \A S \in SUBSET D : g[S] = IF S = {} THEN 0 ELSE f[One(S)] + g[S \ {One(S)}]
  BY <1>7, <1>8
<1>10. Sums(f, D, g)
  BY <1>9 DEF Sums
<1> QED BY <1>10

\* Whichever element is taken off first, the sum is the same.
LEMMA SumsSay ==
  ASSUME NEW D, IsFiniteSet(D), NEW f \in [D -> Int], NEW g, Sums(f, D, g)
  PROVE  /\ g[{}] = 0
         /\ \A T \in SUBSET D : g[T] \in Int
         /\ \A T \in SUBSET D : \A e \in T : g[T] = f[e] + g[T \ {e}]
<1>1. \A S \in SUBSET D : g[S] = IF S = {} THEN 0 ELSE f[One(S)] + g[S \ {One(S)}]
  <2> DEFINE E(S) == IF S = {} THEN 0 ELSE f[One(S)] + g[S \ {One(S)}]
  <2>1. g = [S \in SUBSET D |-> E(S)]
    BY DEF Sums
  <2> HIDE DEF E
  <2>2. \A S \in SUBSET D : g[S] = E(S)
    BY <2>1
  <2> QED BY <2>2 DEF E
<1>2. \A S \in SUBSET D : S # {} => One(S) \in S
  BY DEF One
<1> DEFINE Good == {T \in SUBSET D : g[T] \in Int /\ \A e \in T : g[T] = f[e] + g[T \ {e}]}
<1>3. ASSUME NEW T \in SUBSET D, \A R \in SUBSET D : Cardinality(R) < Cardinality(T) => R \in Good
      PROVE  T \in Good
  <2>1. CASE T = {}
    <3>1. g[T] = 0
      BY <1>1, <2>1
    <3> QED BY <2>1, <3>1
  <2>2. CASE T # {}
    <3>1. IsFiniteSet(T) /\ One(T) \in T
      BY <1>2, <2>2, FS_Subset
    <3>2. \A e \in T : T \ {e} \in Good
      <4> TAKE e \in T
      <4>1. Cardinality(T \ {e}) < Cardinality(T)
        BY <3>1, FewerWithout
      <4> HIDE DEF Good
      <4> QED BY <1>3, <4>1
    <3>3. g[T] = f[One(T)] + g[T \ {One(T)}]
      BY <1>1, <2>2
    <3>4. g[T] \in Int
      BY <3>1, <3>2, <3>3
    <3>5. ASSUME NEW e \in T PROVE g[T] = f[e] + g[T \ {e}]
      <4>1. CASE e = One(T)
        BY <3>3, <4>1
      <4>2. CASE e # One(T)
        <5> DEFINE o == One(T)
                   R == (T \ {o}) \ {e}
        <5>1. R = (T \ {e}) \ {o} /\ e \in T \ {o} /\ o \in T \ {e}
          BY <3>1, <4>2
        <5>2. g[T \ {o}] = f[e] + g[R]
          BY <3>1, <3>2, <5>1
        <5>3. g[T \ {e}] = f[o] + g[R]
          BY <3>2, <5>1
        <5>4. f[e] \in Int /\ f[o] \in Int /\ g[T \ {o}] \in Int /\ g[T \ {e}] \in Int
          BY <3>1, <3>2
        <5>5. T \ {o} \in SUBSET D /\ T \ {o} \in Good /\ R \in SUBSET D
          BY <3>1, <3>2
        <5>6. g[R] \in Int
          <6>1. IsFiniteSet(T \ {o}) /\ Cardinality(R) = Cardinality(T \ {o}) - 1
            <7>1. IsFiniteSet(T \ {o})
              BY <3>1, FewerWithout
            <7> QED BY <5>1, <7>1, FewerWithout
          <6>2. Cardinality(T \ {o}) = Cardinality(T) - 1 /\ Cardinality(T) \in Nat
            BY <3>1, FewerWithout
          <6>3. Cardinality(R) < Cardinality(T)
            <7> HIDE DEF R
            <7> QED BY <6>1, <6>2
          <6>4. R \in Good
            <7> HIDE DEF R, Good
            <7> QED BY <1>3, <5>5, <6>3
          <6> HIDE DEF R
          <6> QED BY <6>4
        <5> HIDE DEF R
        <5>7. g[T] = f[o] + g[T \ {o}]
          BY <3>3
        <5> HIDE DEF o
        <5> QED BY <5>2, <5>3, <5>4, <5>6, <5>7
      <4> QED BY <4>1, <4>2
    <3> QED BY <3>4, <3>5
  <2> QED BY <2>1, <2>2
<1>4. \A T \in SUBSET D : T \in Good
  <2> HIDE DEF Good
  <2> QED BY <1>3, SizeInduction
<1> QED BY <1>1, <1>4

LEMMA TotalIs ==
  ASSUME NEW D, IsFiniteSet(D), NEW f \in [D -> Int]
  PROVE  \E g : Sums(f, D, g) /\ Total(f) = g[D]
<1>1. Total(f) = (CHOOSE g : Sums(f, DOMAIN f, g))[DOMAIN f]
  BY Zenon DEF Total, FoldFunction, FoldFunctionOnSet, MapThenFoldSet, Sums, One
<1>2. DOMAIN f = D
  OBVIOUS
<1>3. Sums(f, D, CHOOSE g : Sums(f, D, g))
  BY SumsExist
<1> QED BY <1>1, <1>2, <1>3

\* A sum over a part of the set is read off the same partial sums.
LEMMA PartOfSum ==
  ASSUME NEW D, IsFiniteSet(D), NEW f \in [D -> Int], NEW g, Sums(f, D, g), NEW E \in SUBSET D
  PROVE  Total([e \in E |-> f[e]]) = g[E]
<1> DEFINE part == [e \in E |-> f[e]]
<1>1. part \in [E -> Int] /\ \A e \in E : part[e] = f[e]
  OBVIOUS
<1>2. IsFiniteSet(E)
  BY FS_Subset
<1> HIDE DEF part
<1>3. PICK h : Sums(part, E, h) /\ Total(part) = h[E]
  BY <1>1, <1>2, TotalIs
<1>4. /\ g[{}] = 0 /\ \A T \in SUBSET D : \A e \in T : g[T] = f[e] + g[T \ {e}]
      /\ \A T \in SUBSET D : g[T] \in Int
  BY SumsSay
<1>5. /\ h[{}] = 0 /\ \A T \in SUBSET E : \A e \in T : h[T] = part[e] + h[T \ {e}]
  BY <1>1, <1>2, <1>3, SumsSay
<1> DEFINE Good == {T \in SUBSET E : h[T] = g[T]}
<1>6. ASSUME NEW T \in SUBSET E, \A R \in SUBSET E : Cardinality(R) < Cardinality(T) => R \in Good
      PROVE  T \in Good
  <2>1. CASE T = {}
    BY <1>4, <1>5, <2>1
  <2>2. CASE T # {}
    <3>1. PICK e \in T : TRUE
      BY <2>2
    <3>2. IsFiniteSet(T)
      BY <1>2, FS_Subset
    <3>3. Cardinality(T \ {e}) < Cardinality(T)
      BY <3>2, FewerWithout
    <3>4. T \ {e} \in Good
      <4> HIDE DEF Good
      <4> QED BY <1>6, <3>3
    <3>5. T \in SUBSET D /\ part[e] = f[e]
      BY <1>1
    <3> QED BY <1>4, <1>5, <3>4, <3>5
  <2> QED BY <2>1, <2>2
<1>7. \A T \in SUBSET E : T \in Good
  <2> HIDE DEF Good
  <2> QED BY <1>2, <1>6, SizeInduction
<1>8. E \in Good
  <2> HIDE DEF Good
  <2> QED BY <1>7
<1> QED BY <1>3, <1>8 DEF part

\* A function without one of its arguments.
Without(f, e) == [d \in DOMAIN f \ {e} |-> f[d]]

LEMMA TotalOf ==
  ASSUME NEW D, IsFiniteSet(D), NEW f \in [D -> Int]
  PROVE  /\ Total(f) \in Int
         /\ D = {} => Total(f) = 0
         /\ \A e \in D : Total(f) = f[e] + Total(Without(f, e)) /\ Total(Without(f, e)) \in Int
<1>1. PICK g : Sums(f, D, g) /\ Total(f) = g[D]
  BY TotalIs
<1>2. /\ g[{}] = 0 /\ \A T \in SUBSET D : g[T] \in Int
      /\ \A T \in SUBSET D : \A e \in T : g[T] = f[e] + g[T \ {e}]
  BY <1>1, SumsSay
<1>3. ASSUME NEW e \in D PROVE Total(Without(f, e)) = g[D \ {e}]
  <2>1. Without(f, e) = [d \in D \ {e} |-> f[d]]
    BY DEF Without
  <2>2. D \ {e} \in SUBSET D
    OBVIOUS
  <2> QED BY <1>1, <2>1, <2>2, PartOfSum
<1> QED BY <1>1, <1>2, <1>3

LEMMA TotalOfNought ==
  ASSUME NEW D, IsFiniteSet(D), NEW f \in [D -> Int], \A e \in D : f[e] = 0
  PROVE  Total(f) = 0
<1>1. PICK g : Sums(f, D, g) /\ Total(f) = g[D]
  BY TotalIs
<1>2. /\ g[{}] = 0
      /\ \A T \in SUBSET D : \A e \in T : g[T] = f[e] + g[T \ {e}]
  BY <1>1, SumsSay
<1> DEFINE Good == {T \in SUBSET D : g[T] = 0}
<1>3. ASSUME NEW T \in SUBSET D, \A R \in SUBSET D : Cardinality(R) < Cardinality(T) => R \in Good
      PROVE  T \in Good
  <2>1. CASE T = {}
    BY <1>2, <2>1
  <2>2. CASE T # {}
    <3>1. PICK e \in T : TRUE
      BY <2>2
    <3>2. IsFiniteSet(T)
      BY FS_Subset
    <3>3. Cardinality(T \ {e}) < Cardinality(T)
      BY <3>2, FewerWithout
    <3>4. T \ {e} \in Good
      <4> HIDE DEF Good
      <4> QED BY <1>3, <3>3
    <3> QED BY <1>2, <3>4
  <2> QED BY <2>1, <2>2
<1>4. D \in Good
  <2> HIDE DEF Good
  <2> QED BY <1>3, SizeInduction
<1> QED BY <1>1, <1>4

LEMMA SharesOut == \A a, b, c \in Int : (a + b) * c = a * c + b * c /\ a * c \in Int /\ 0 * c = 0
  BY SMT

\* Sums taken group by group, each weighed by what its group weighs; and row
\* by row.
GroupSum(S, tok, key, k) == Total([p \in {q \in S : key[q] = k} |-> tok[p]])
WeighedGroups(S, tok, key, w) == [k \in {key[p] : p \in S} |-> GroupSum(S, tok, key, k) * w[k]]
WeighedRows(S, tok, key, w) == [p \in S |-> tok[p] * w[key[p]]]

\* One sum, taken group by group or row by row.
LEMMA WeighedByGroup ==
  ASSUME NEW S, IsFiniteSet(S), NEW tok \in [S -> Int], NEW key, NEW w,
         \A p \in S : w[key[p]] \in Int
  PROVE  Total(WeighedGroups(S, tok, key, w)) = Total(WeighedRows(S, tok, key, w))
<1> DEFINE K == {key[p] : p \in S}
           Of(T, k) == {q \in T : key[q] = k}
           Sum(T, k) == Total([p \in Of(T, k) |-> tok[p]])
           G(T) == [k \in K |-> Sum(T, k) * w[k]]
           H(T) == [p \in T |-> tok[p] * w[key[p]]]
           Good == {T \in SUBSET S : Total(G(T)) = Total(H(T))}
<1>1. IsFiniteSet(K) /\ \A T \in SUBSET S : IsFiniteSet(T) /\ \A k : IsFiniteSet(Of(T, k))
  <2>1. IsFiniteSet(K)
    BY ImageIsFinite
  <2>2. \A T \in SUBSET S : IsFiniteSet(T) /\ \A k : Of(T, k) \in SUBSET T
    BY FS_Subset
  <2>3. \A T \in SUBSET S : \A k : IsFiniteSet(Of(T, k))
    <3> HIDE DEF Of
    <3> QED BY <2>2, FS_Subset
  <2> QED BY <2>1, <2>2, <2>3
<1>2. \A T \in SUBSET S : \A k : Sum(T, k) \in Int /\ (Of(T, k) = {} => Sum(T, k) = 0)
  <2> TAKE T \in SUBSET S
  <2> TAKE k
  <2> DEFINE f == [p \in Of(T, k) |-> tok[p]]
  <2>1. f \in [Of(T, k) -> Int] /\ IsFiniteSet(Of(T, k))
    BY <1>1
  <2> QED BY <2>1, TotalOf
<1>3. \A T \in SUBSET S : G(T) \in [K -> Int] /\ H(T) \in [T -> Int]
  <2> TAKE T \in SUBSET S
  <2>1. ASSUME NEW k \in K PROVE Sum(T, k) * w[k] \in Int
    <3>1. w[k] \in Int /\ Sum(T, k) \in Int
      BY <1>2
    <3> HIDE DEF Sum
    <3> QED BY <3>1, SharesOut
  <2>2. ASSUME NEW p \in T PROVE tok[p] * w[key[p]] \in Int
    <3>1. tok[p] \in Int /\ w[key[p]] \in Int
      OBVIOUS
    <3> QED BY <3>1, SharesOut
  <2> HIDE DEF Sum, K
  <2> QED BY <2>1, <2>2
<1>4. ASSUME NEW T \in SUBSET S, \A R \in SUBSET S : Cardinality(R) < Cardinality(T) => R \in Good
      PROVE  T \in Good
  <2>1. CASE T = {}
    <3>1. \A k \in K : G(T)[k] = 0
      <4> SUFFICES ASSUME NEW k \in K PROVE Sum(T, k) * w[k] = 0
        OBVIOUS
      <4>1. Of(T, k) = {}
        BY <2>1
      <4>2. Sum(T, k) = 0 /\ w[k] \in Int
        BY <1>2, <4>1
      <4> HIDE DEF Sum
      <4> QED BY <4>2
    <3>2. Total(G(T)) = 0
      <4> DEFINE g == G(T)
      <4>1. g \in [K -> Int] /\ \A k \in K : g[k] = 0
        BY <1>3, <3>1
      <4> HIDE DEF g, K
      <4> QED BY <1>1, <4>1, TotalOfNought DEF g
    <3>3. Total(H(T)) = 0
      <4> DEFINE h == H(T)
      <4>1. h \in [T -> Int] /\ IsFiniteSet(T)
        BY <1>1, <1>3
      <4> HIDE DEF h
      <4> QED BY <2>1, <4>1, TotalOf DEF h
    <3> HIDE DEF G, H
    <3> QED BY <3>2, <3>3
  <2>2. CASE T # {}
    <3>1. PICK e \in T : TRUE
      BY <2>2
    <3> DEFINE R == T \ {e}
               o == key[e]
               g == G(T)
               f == G(R)
               h == H(T)
    <3>2. R \in SUBSET S /\ R \in Good /\ o \in K
      <4>1. Cardinality(R) < Cardinality(T)
        <5>1. IsFiniteSet(T)
          BY FS_Subset
        <5> QED BY <3>1, <5>1, FewerWithout
      <4>2. R \in SUBSET S /\ o \in K
        BY <3>1
      <4> HIDE DEF Good, R
      <4> QED BY <1>4, <4>1, <4>2
    <3>3. Total(f) = Total(H(R))
      BY <3>2
    <3>4. g \in [K -> Int] /\ f \in [K -> Int] /\ h \in [T -> Int]
      <4> HIDE DEF G, H, R, K
      <4> QED BY <1>3, <3>2
    <3>5. Total(h) = tok[e] * w[o] + Total(H(R))
      <4>1. h[e] = tok[e] * w[o] /\ H(R) = Without(h, e)
        BY DEF Without
      <4>2. Total(h) = h[e] + Total(Without(h, e))
        <5> HIDE DEF h
        <5> QED BY <1>1, <3>1, <3>4, TotalOf
      <4> HIDE DEF h, H
      <4> QED BY <4>1, <4>2
    <3>6. Without(g, o) = Without(f, o)
      <4>1. ASSUME NEW k \in K \ {o} PROVE Of(T, k) = Of(R, k)
        OBVIOUS
      <4>2. \A k \in K \ {o} : g[k] = f[k]
        <5> TAKE k \in K \ {o}
        <5>1. Sum(T, k) = Sum(R, k)
          BY <4>1
        <5> HIDE DEF Sum
        <5> QED BY <5>1
      <4>3. DOMAIN g = K /\ DOMAIN f = K
        OBVIOUS
      <4> HIDE DEF g, f
      <4> QED BY <4>2, <4>3 DEF Without
    <3>7. Sum(T, o) = tok[e] + Sum(R, o)
      <4> DEFINE q == [p \in Of(T, o) |-> tok[p]]
      <4>1. e \in Of(T, o) /\ IsFiniteSet(Of(T, o)) /\ q \in [Of(T, o) -> Int] /\ q[e] = tok[e]
        BY <1>1
      <4>2. Of(T, o) \ {e} = Of(R, o)
        OBVIOUS
      <4>3. Without(q, e) = [p \in Of(R, o) |-> tok[p]]
        BY <4>2 DEF Without
      <4>4. Total(q) = q[e] + Total(Without(q, e))
        <5> HIDE DEF q, Of
        <5> QED BY <4>1, TotalOf
      <4> QED BY <4>1, <4>3, <4>4
    <3>8. /\ Sum(T, o) \in Int /\ Sum(R, o) \in Int /\ tok[e] \in Int /\ w[o] \in Int
      BY <1>2, <3>2
    <3>9. g[o] = Sum(T, o) * w[o] /\ f[o] = Sum(R, o) * w[o]
      <4> HIDE DEF Sum
      <4> QED BY <3>2
    <3>10. g[o] = tok[e] * w[o] + f[o] /\ tok[e] * w[o] \in Int
      <4> HIDE DEF Sum, g, f, o
      <4> QED BY <3>7, <3>8, <3>9, SharesOut
    <3>11. /\ Total(g) = g[o] + Total(Without(g, o))
           /\ Total(f) = f[o] + Total(Without(f, o))
           /\ Total(Without(f, o)) \in Int
      <4> HIDE DEF g, f, K, o
      <4> QED BY <1>1, <3>2, <3>4, TotalOf
    <3>12. f[o] \in Int
      <4> HIDE DEF f, K, o
      <4> QED BY <3>2, <3>4
    <3>13. Total(g) = Total(h)
      <4> DEFINE rest == Total(Without(f, o))
      <4>1. /\ Total(g) = g[o] + rest /\ Total(f) = f[o] + rest /\ rest \in Int
        BY <3>6, <3>11
      <4> HIDE DEF rest, g, f, h, o, G, H, R
      <4> QED BY <3>3, <3>5, <3>10, <3>12, <4>1
    <3> QED BY <3>13
  <2> QED BY <2>1, <2>2
<1>5. S \in Good
  <2> HIDE DEF Good
  <2> QED BY <1>4, SizeInduction
<1>6. WeighedGroups(S, tok, key, w) = G(S)
  BY Zenon DEF WeighedGroups, GroupSum
<1>7. WeighedRows(S, tok, key, w) = H(S)
  BY DEF WeighedRows
<1> HIDE DEF G, H
<1> QED BY <1>5, <1>6, <1>7

-----------------------------------------------------------------------------
(* The rollup *)

\* A ledger whose rows have numbers and are finitely many.
Countable(led) ==
  /\ IsFiniteSet(DOMAIN led)
  /\ \A p \in DOMAIN led : led[p].tokens \in Int

\* The rows of a group, and what a row of the rollup says of them.
Members(tbl, led, k) == {p \in DOMAIN led : GroupKey(tbl, p, led[p]) = k}
CountOf(tbl, led, k) ==
  [tokens |-> Total([p \in Members(tbl, led, k) |-> led[p].tokens]),
   rows   |-> Cardinality(Members(tbl, led, k))]

\* The groups there are.
Keys(tbl, led) == {GroupKey(tbl, p, led[p]) : p \in DOMAIN led}

\* The rollup while a trigger runs: groups in "extra" may be empty.
Loose(roll, tbl, led, extra) ==
  roll = [k \in Keys(tbl, led) \cup extra |-> CountOf(tbl, led, k)]

LEMMA LooseGrouped ==
  ASSUME NEW tbl, NEW led
  PROVE  Grouped(tbl, led, DOMAIN led) = [k \in Keys(tbl, led) \cup {} |-> CountOf(tbl, led, k)]
<1>1. Keys(tbl, led) \cup {} = Keys(tbl, led)
  OBVIOUS
<1>2. Grouped(tbl, led, DOMAIN led) = [k \in Keys(tbl, led) |-> CountOf(tbl, led, k)]
  BY Zenon DEF Grouped, Keys, CountOf, Members
<1> QED BY <1>1, <1>2

LEMMA CountOfIs ==
  ASSUME NEW tbl, NEW led, Countable(led), NEW k
  PROVE  /\ IsFiniteSet(Members(tbl, led, k))
         /\ [p \in Members(tbl, led, k) |-> led[p].tokens] \in [Members(tbl, led, k) -> Int]
         /\ CountOf(tbl, led, k).tokens \in Int /\ CountOf(tbl, led, k).rows \in Nat
         /\ Members(tbl, led, k) = {} => CountOf(tbl, led, k) = [tokens |-> 0, rows |-> 0]
         /\ Members(tbl, led, k) # {} => CountOf(tbl, led, k).rows # 0
         /\ Members(tbl, led, k) = {} <=> k \notin Keys(tbl, led)
<1> DEFINE M == Members(tbl, led, k)
           f == [p \in M |-> led[p].tokens]
<1>1. M \in SUBSET DOMAIN led /\ (M = {} <=> k \notin Keys(tbl, led))
  BY DEF Members, Keys
<1>2. IsFiniteSet(M) /\ f \in [M -> Int]
  BY <1>1, FS_Subset DEF Countable
<1>3. CountOf(tbl, led, k) = [tokens |-> Total(f), rows |-> Cardinality(M)]
  BY DEF CountOf
<1> HIDE DEF M, f
<1>4. Total(f) \in Int /\ (M = {} => Total(f) = 0)
  BY <1>2, TotalOf
<1>5. Cardinality(M) \in Nat /\ (M = {} <=> Cardinality(M) = 0)
  BY <1>2, FS_CardinalityType, FS_EmptySet
<1> QED BY <1>1, <1>2, <1>3, <1>4, <1>5 DEF M, f

\* Two ledgers, of which the second has one row more.
OneMore(led, more, p) ==
  /\ Countable(led) /\ Countable(more)
  /\ p \notin DOMAIN led /\ DOMAIN more = DOMAIN led \cup {p}
  /\ \A q \in DOMAIN led : more[q] = led[q]

\* What the row p more changes of the figures: those of its group o alone.
RowCounted(tbl, led, more, p, o) ==
  /\ Keys(tbl, more) = Keys(tbl, led) \cup {o}
  /\ CountOf(tbl, more, o) = [tokens |-> CountOf(tbl, led, o).tokens + more[p].tokens,
                              rows |-> CountOf(tbl, led, o).rows + 1]
  /\ \A k : k # o => CountOf(tbl, more, k) = CountOf(tbl, led, k)

\* One row more or less changes what is counted of its own group alone.
LEMMA OneRowMore ==
  ASSUME NEW tbl, NEW led, NEW more, NEW p, OneMore(led, more, p)
  PROVE  RowCounted(tbl, led, more, p, GroupKey(tbl, p, more[p]))
<1> DEFINE o == GroupKey(tbl, p, more[p])
<1>0. o = GroupKey(tbl, p, more[p])
  OBVIOUS
<1> HIDE DEF o
<1> USE DEF OneMore
<1> DEFINE M(k) == Members(tbl, led, k)
           N(k) == Members(tbl, more, k)
           f(k) == [q \in M(k) |-> led[q].tokens]
           h(k) == [q \in N(k) |-> more[q].tokens]
<1>1. Keys(tbl, more) = Keys(tbl, led) \cup {o}
  <2>1. \A q \in DOMAIN led : GroupKey(tbl, q, more[q]) = GroupKey(tbl, q, led[q])
    OBVIOUS
  <2>2. p \in DOMAIN more
    OBVIOUS
  <2> QED BY <1>0, <2>1, <2>2 DEF Keys
<1>2. \A k : N(k) = IF k = o THEN M(k) \cup {p} ELSE M(k)
  <2>1. \A q \in DOMAIN led : GroupKey(tbl, q, more[q]) = GroupKey(tbl, q, led[q])
    OBVIOUS
  <2> QED BY <1>0, <2>1 DEF Members
<1>3. \A k : M(k) \subseteq DOMAIN led
  BY DEF Members
<1>4. ASSUME NEW k, k # o PROVE CountOf(tbl, more, k) = CountOf(tbl, led, k)
  <2>1. N(k) = M(k) /\ \A q \in M(k) : more[q] = led[q]
    BY <1>2, <1>3, <1>4
  <2>2. h(k) = f(k)
    <3> HIDE DEF M, N
    <3> QED BY <2>1
  <2>3. CountOf(tbl, more, k) = [tokens |-> Total(h(k)), rows |-> Cardinality(N(k))]
    BY DEF CountOf
  <2>4. CountOf(tbl, led, k) = [tokens |-> Total(f(k)), rows |-> Cardinality(M(k))]
    BY DEF CountOf
  <2> HIDE DEF f, h, M, N
  <2> QED BY <2>1, <2>2, <2>3, <2>4
<1>5. /\ CountOf(tbl, more, o).tokens = CountOf(tbl, led, o).tokens + more[p].tokens
      /\ CountOf(tbl, more, o).rows = CountOf(tbl, led, o).rows + 1
  <2>1. N(o) = M(o) \cup {p} /\ p \notin M(o) /\ \A q \in M(o) : more[q] = led[q]
    BY <1>2, <1>3
  <2>2. IsFiniteSet(M(o)) /\ IsFiniteSet(N(o)) /\ h(o) \in [N(o) -> Int] /\ f(o) \in [M(o) -> Int]
    BY CountOfIs
  <2>3. h(o)[p] = more[p].tokens /\ Without(h(o), p) = f(o) /\ p \in N(o)
    <3> HIDE DEF M, N
    <3> QED BY <2>1 DEF Without
  <2>4. CountOf(tbl, more, o) = [tokens |-> Total(h(o)), rows |-> Cardinality(N(o))]
    BY DEF CountOf
  <2>5. CountOf(tbl, led, o) = [tokens |-> Total(f(o)), rows |-> Cardinality(M(o))]
    BY DEF CountOf
  <2> DEFINE hh == h(o) ff == f(o) NN == N(o) MM == M(o)
  <2> HIDE DEF hh, ff, NN, MM
  <2>6. Total(hh) = hh[p] + Total(Without(hh, p)) /\ Total(Without(hh, p)) \in Int
    BY <2>2, <2>3, TotalOf DEF hh, NN
  <2>7. Cardinality(NN) = Cardinality(MM) + 1 /\ Cardinality(MM) \in Nat
    BY <2>1, <2>2, FS_AddElement, FS_CardinalityType DEF NN, MM
  <2>8. Total(hh) = more[p].tokens + Total(ff) /\ Total(ff) \in Int /\ more[p].tokens \in Int
    <3>1. more[p].tokens \in Int
      BY DEF Countable
    <3> QED BY <2>3, <2>6, <3>1 DEF hh, ff
  <2>9. /\ CountOf(tbl, more, o).tokens = Total(hh) /\ CountOf(tbl, more, o).rows = Cardinality(NN)
        /\ CountOf(tbl, led, o).tokens = Total(ff) /\ CountOf(tbl, led, o).rows = Cardinality(MM)
    BY <2>4, <2>5 DEF hh, ff, NN, MM
  <2> QED BY <2>7, <2>8, <2>9
<1>6. CountOf(tbl, more, o) = [tokens |-> CountOf(tbl, more, o).tokens, rows |-> CountOf(tbl, more, o).rows]
  BY DEF CountOf
<1>7. CountOf(tbl, more, o) =
                  [tokens |-> CountOf(tbl, led, o).tokens + more[p].tokens,
                   rows |-> CountOf(tbl, led, o).rows + 1]
  BY <1>5, <1>6
<1>8. RowCounted(tbl, led, more, p, o)
  BY <1>1, <1>4, <1>7 DEF RowCounted
<1> QED BY <1>0, <1>8

\* The upsert adds a row to its group, or opens it.
LEMMA LooseInsert ==
  ASSUME NEW tbl, NEW led, NEW more, NEW p, OneMore(led, more, p),
         NEW roll, NEW extra, Loose(roll, tbl, led, extra)
  PROVE  Loose(Delta(roll, GroupKey(tbl, p, more[p]), more[p].tokens, 1), tbl, more, extra)
<1> DEFINE o == GroupKey(tbl, p, more[p])
           after == Delta(roll, o, more[p].tokens, 1)
<1>0. o = GroupKey(tbl, p, more[p])
  OBVIOUS
<1> HIDE DEF o
<1>1. /\ Keys(tbl, more) = Keys(tbl, led) \cup {o}
      /\ CountOf(tbl, more, o) = [tokens |-> CountOf(tbl, led, o).tokens + more[p].tokens,
                                  rows |-> CountOf(tbl, led, o).rows + 1]
      /\ \A k : k # o => CountOf(tbl, more, k) = CountOf(tbl, led, k)
  <2>1. RowCounted(tbl, led, more, p, GroupKey(tbl, p, more[p]))
    BY OneRowMore
  <2> QED BY <1>0, <2>1 DEF RowCounted
<1> USE DEF OneMore
<1> HIDE DEF o
<1>2. DOMAIN roll = Keys(tbl, led) \cup extra /\ \A k \in DOMAIN roll : roll[k] = CountOf(tbl, led, k)
  BY DEF Loose
<1>3. after = [k \in DOMAIN roll \cup {o} |-> CountOf(tbl, more, k)]
  <2>1. CASE o \in DOMAIN roll
    <3>1. after = [roll EXCEPT ![o] = [tokens |-> roll[o].tokens + more[p].tokens, rows |-> roll[o].rows + 1]]
      BY <2>1 DEF Delta
    <3>2. after[o] = CountOf(tbl, more, o) /\ DOMAIN after = DOMAIN roll \cup {o}
      BY <1>1, <1>2, <2>1, <3>1
    <3>3. \A k \in DOMAIN roll : k # o => after[k] = CountOf(tbl, more, k)
      BY <1>1, <1>2, <2>1, <3>1
    <3>4. after = [k \in DOMAIN after |-> after[k]]
      BY <3>1
    <3> HIDE DEF after
    <3> QED BY <2>1, <3>2, <3>3, <3>4
  <2>2. CASE o \notin DOMAIN roll
    <3>1. after = [k \in DOMAIN roll \cup {o} |->
                     IF k = o THEN [tokens |-> more[p].tokens, rows |-> 1] ELSE roll[k]]
      BY <2>2 DEF Delta
    <3>2. o \notin Keys(tbl, led)
      BY <1>2, <2>2
    <3>3. CountOf(tbl, led, o) = [tokens |-> 0, rows |-> 0]
      BY <3>2, CountOfIs
    <3>4. CountOf(tbl, more, o) = [tokens |-> more[p].tokens, rows |-> 1]
      <4>1. more[p].tokens \in Int
        BY DEF Countable
      <4> QED BY <1>1, <3>3, <4>1
    <3> HIDE DEF after
    <3> QED BY <1>1, <1>2, <2>2, <3>1, <3>4
  <2> QED BY <2>1, <2>2
<1>4. DOMAIN roll \cup {o} = Keys(tbl, more) \cup extra
  BY <1>1, <1>2
<1> QED BY <1>3, <1>4 DEF Loose, o

\* The subtraction takes it off its group, and may leave the group at zero rows.
LEMMA LooseDelete ==
  ASSUME NEW tbl, NEW led, NEW less, NEW p, OneMore(less, led, p),
         NEW roll, Loose(roll, tbl, led, {})
  PROVE  Loose(Delta(roll, GroupKey(tbl, p, led[p]), -led[p].tokens, -1), tbl, less,
               {GroupKey(tbl, p, led[p])})
<1> DEFINE o == GroupKey(tbl, p, led[p])
           after == Delta(roll, o, -led[p].tokens, -1)
<1>0. o = GroupKey(tbl, p, led[p])
  OBVIOUS
<1> HIDE DEF o
<1>1. /\ Keys(tbl, led) = Keys(tbl, less) \cup {o}
      /\ CountOf(tbl, led, o) = [tokens |-> CountOf(tbl, less, o).tokens + led[p].tokens,
                                 rows |-> CountOf(tbl, less, o).rows + 1]
      /\ \A k : k # o => CountOf(tbl, led, k) = CountOf(tbl, less, k)
  <2>1. RowCounted(tbl, less, led, p, GroupKey(tbl, p, led[p]))
    BY OneRowMore
  <2> QED BY <1>0, <2>1 DEF RowCounted
<1> USE DEF OneMore
<1>2. CountOf(tbl, less, o).tokens \in Int /\ CountOf(tbl, less, o).rows \in Nat /\ led[p].tokens \in Int
  BY CountOfIs DEF Countable
<1>3. CountOf(tbl, less, o) = [tokens |-> CountOf(tbl, less, o).tokens, rows |-> CountOf(tbl, less, o).rows]
  BY DEF CountOf
<1> HIDE DEF o
<1>4. DOMAIN roll = Keys(tbl, led) /\ \A k \in DOMAIN roll : roll[k] = CountOf(tbl, led, k)
  BY DEF Loose
<1>5. o \in DOMAIN roll
  BY <1>1, <1>4
<1>6. after = [roll EXCEPT ![o] = [tokens |-> roll[o].tokens + (-led[p].tokens), rows |-> roll[o].rows + (-1)]]
  BY <1>5 DEF Delta
<1>7. after[o] = CountOf(tbl, less, o)
  <2>1. after[o] = [tokens |-> roll[o].tokens + (-led[p].tokens), rows |-> roll[o].rows + (-1)]
    BY <1>5, <1>6
  <2>2. /\ roll[o].tokens + (-led[p].tokens) = CountOf(tbl, less, o).tokens
        /\ roll[o].rows + (-1) = CountOf(tbl, less, o).rows
    <3>1. roll[o] = [tokens |-> CountOf(tbl, less, o).tokens + led[p].tokens,
                     rows |-> CountOf(tbl, less, o).rows + 1]
      BY <1>1, <1>4, <1>5
    <3>2. /\ roll[o].tokens = CountOf(tbl, less, o).tokens + led[p].tokens
          /\ roll[o].rows = CountOf(tbl, less, o).rows + 1
      BY <3>1
    <3> HIDE DEF after
    <3>3. \A a, b \in Int : (a + b) + (-b) = a
      OBVIOUS
    <3>4. (CountOf(tbl, less, o).tokens + led[p].tokens) + (-led[p].tokens) = CountOf(tbl, less, o).tokens
      BY <1>2, <3>3
    <3>5. (CountOf(tbl, less, o).rows + 1) + (-1) = CountOf(tbl, less, o).rows
      BY <1>2
    <3> QED BY <3>2, <3>4, <3>5
  <2> HIDE DEF after
  <2> QED BY <1>3, <2>1, <2>2
<1>8. \A k \in DOMAIN roll : k # o => after[k] = CountOf(tbl, less, k)
  BY <1>1, <1>4, <1>5, <1>6
<1>9. DOMAIN after = DOMAIN roll /\ after = [k \in DOMAIN after |-> after[k]]
  BY <1>6
<1>10. after = [k \in DOMAIN roll |-> CountOf(tbl, less, k)]
  <2> HIDE DEF after
  <2> QED BY <1>7, <1>8, <1>9
<1>11. DOMAIN roll = Keys(tbl, less) \cup {o}
  BY <1>1, <1>4
<1> QED BY <1>10, <1>11 DEF Loose, o

\* The last statement of a body removes the group if it has no rows, and only then.
LEMMA LooseEmptied ==
  ASSUME NEW tbl, NEW led, Countable(led), NEW roll, NEW o, Loose(roll, tbl, led, {o})
  PROVE  Loose(Emptied(roll, o), tbl, led, {})
<1>1. DOMAIN roll = Keys(tbl, led) \cup {o} /\ \A k \in DOMAIN roll : roll[k] = CountOf(tbl, led, k)
  BY DEF Loose
<1>2. roll[o].rows # 0 <=> o \in Keys(tbl, led)
  <2>1. o \in DOMAIN roll /\ roll[o] = CountOf(tbl, led, o)
    BY <1>1
  <2>2. CountOf(tbl, led, o).rows # 0 <=> o \in Keys(tbl, led)
    BY CountOfIs
  <2> QED BY <2>1, <2>2
<1>3. {l \in DOMAIN roll : l # o \/ roll[l].rows # 0} = Keys(tbl, led) \cup {}
  BY <1>1, <1>2
<1>4. Emptied(roll, o) = [k \in {l \in DOMAIN roll : l # o \/ roll[l].rows # 0} |-> roll[k]]
  BY DEF Emptied
<1>5. Emptied(roll, o) = [k \in Keys(tbl, led) \cup {} |-> CountOf(tbl, led, k)]
  BY <1>1, <1>3, <1>4
<1> QED BY <1>5 DEF Loose

\* The rollup as the grouped scan would have it.
Exact(tbl, led) == Grouped(tbl, led, DOMAIN led)

LEMMA LooseExact == \A roll, tbl, led : Loose(roll, tbl, led, {}) <=> roll = Exact(tbl, led)
  BY LooseGrouped DEF Loose, Exact

\* One row trigger keeps the rollup exact.
LEMMA InsertKeepsExact ==
  ASSUME NEW tbl, NEW led, NEW more, Countable(led), Countable(more), NEW p,
         p \notin DOMAIN led, DOMAIN more = DOMAIN led \cup {p},
         \A q \in DOMAIN led : more[q] = led[q]
  PROVE  OnUsageInsert(tbl, Exact(tbl, led), p, more[p]) = Exact(tbl, more)
<1> DEFINE roll == Exact(tbl, led)
<1>1. Loose(roll, tbl, led, {})
  BY LooseExact
<1> HIDE DEF roll
<1>2. Loose(Delta(roll, GroupKey(tbl, p, more[p]), more[p].tokens, 1), tbl, more, {})
  <2>1. OneMore(led, more, p)
    BY DEF OneMore
  <2> QED BY <1>1, <2>1, LooseInsert
<1> QED BY <1>2, LooseExact DEF OnUsageInsert, roll

LEMMA DeleteKeepsExact ==
  ASSUME NEW tbl, NEW led, NEW less, Countable(led), Countable(less), NEW p,
         p \notin DOMAIN less, DOMAIN led = DOMAIN less \cup {p},
         \A q \in DOMAIN less : led[q] = less[q]
  PROVE  OnUsageDelete(tbl, Exact(tbl, led), p, led[p]) = Exact(tbl, less)
<1> DEFINE roll == Exact(tbl, led)
           o == GroupKey(tbl, p, led[p])
<1>1. Loose(roll, tbl, led, {})
  BY LooseExact
<1> HIDE DEF roll
<1>2. Loose(Delta(roll, o, -led[p].tokens, -1), tbl, less, {o})
  <2>1. OneMore(less, led, p)
    BY DEF OneMore
  <2> QED BY <1>1, <2>1, LooseDelete
<1> DEFINE mid == Delta(roll, o, -led[p].tokens, -1)
<1>3. OnUsageDelete(tbl, roll, p, led[p]) = Emptied(mid, o)
  BY DEF OnUsageDelete
<1> HIDE DEF o, mid
<1>4. Loose(mid, tbl, less, {o})
  BY <1>2 DEF mid
<1>5. Loose(Emptied(mid, o), tbl, less, {})
  BY <1>4, LooseEmptied
<1> QED BY <1>3, <1>5, LooseExact DEF roll

LEMMA UpdateKeepsExact ==
  ASSUME NEW tbl, NEW led, NEW more, Countable(led), Countable(more), NEW p \in DOMAIN led,
         DOMAIN more = DOMAIN led, \A q \in DOMAIN led \ {p} : more[q] = led[q]
  PROVE  OnUsageUpdate(tbl, Exact(tbl, led), p, led[p], more[p]) = Exact(tbl, more)
<1> DEFINE roll == Exact(tbl, led)
           less == [q \in DOMAIN led \ {p} |-> led[q]]
           o == GroupKey(tbl, p, led[p])
           n == GroupKey(tbl, p, more[p])
           mid == Delta(roll, o, -led[p].tokens, -1)
           last == Delta(mid, n, more[p].tokens, 1)
<1>1. Loose(roll, tbl, led, {})
  BY LooseExact
<1>2. OneMore(less, led, p) /\ OneMore(less, more, p)
  <2>1. IsFiniteSet(DOMAIN led \ {p})
    BY FS_Subset DEF Countable
  <2>2. Countable(less) /\ DOMAIN less = DOMAIN led \ {p}
    BY <2>1 DEF Countable
  <2> QED BY <2>2 DEF OneMore
<1>3. OnUsageUpdate(tbl, roll, p, led[p], more[p]) = Emptied(last, o)
  BY DEF OnUsageUpdate
<1> HIDE DEF roll, less
<1>4. Loose(mid, tbl, less, {o})
  BY <1>1, <1>2, LooseDelete
<1> HIDE DEF mid, o
<1>5. Loose(last, tbl, more, {o})
  BY <1>2, <1>4, LooseInsert
<1> HIDE DEF last
<1>6. Loose(Emptied(last, o), tbl, more, {})
  BY <1>5, LooseEmptied
<1> QED BY <1>3, <1>6, LooseExact DEF roll

-----------------------------------------------------------------------------
(* The row triggers of one statement *)

\* The trigger that fires for row p of a write.
Fired(new, p, roll) ==
  IF p \in DOMAIN ledger THEN OnUsageUpdate(prices, roll, p, ledger[p], new[p])
  ELSE OnUsageInsert(prices, roll, p, new[p])

\* The rollups met while they fire for the parts of D, and for a run of deletes.
Firing(new, D, g) ==
  g = [S \in SUBSET D |-> IF S = {} THEN rollup ELSE Fired(new, One(S), g[S \ {One(S)}])]

\* The rows a write inserts or changes.
Touched(new) == {p \in DOMAIN new : p \notin DOMAIN ledger \/ new[p] # ledger[p]}

\* The ledger once the rows of a set have been written.
Partly(new, S) == [p \in DOMAIN ledger \cup S |-> IF p \in S THEN new[p] ELSE ledger[p]]

\* After the triggers of all the rows of a write the rollup is exact again.
LEMMA TriggeredExactly ==
  ASSUME Countable(ledger), rollup = Exact(prices, ledger),
         NEW new, Countable(new), new = [p \in DOMAIN new |-> new[p]],
         DOMAIN ledger \subseteq DOMAIN new, ledger = [p \in DOMAIN ledger |-> ledger[p]]
  PROVE  Triggered(new) = Exact(prices, new)
<1> DEFINE D == Touched(new)
           g0 == [S \in SUBSET D |-> Exact(prices, Partly(new, S))]
<1>1. Triggered(new) = (CHOOSE g : Firing(new, D, g))[D]
  BY Zenon DEF Triggered, FoldSet, MapThenFoldSet, Firing, Fired, Touched, One
<1>2. D \subseteq DOMAIN new /\ IsFiniteSet(D)
  <2>1. D \subseteq DOMAIN new
    BY DEF Touched
  <2> QED BY <2>1, FS_Subset DEF Countable
<1>3. \A S \in SUBSET D : Countable(Partly(new, S)) /\ DOMAIN Partly(new, S) = DOMAIN ledger \cup S
  <2> TAKE S \in SUBSET D
  <2>1. IsFiniteSet(DOMAIN ledger \cup S)
    BY <1>2, FS_Subset, FS_Union DEF Countable
  <2>2. \A p \in DOMAIN ledger \cup S : Partly(new, S)[p].tokens \in Int
    BY <1>2 DEF Countable, Partly
  <2> QED BY <2>1, <2>2 DEF Countable, Partly
<1> HIDE DEF D
<1>4. ASSUME NEW S \in SUBSET D, S # {}
      PROVE  Fired(new, One(S), Exact(prices, Partly(new, S \ {One(S)}))) = Exact(prices, Partly(new, S))
  <2> DEFINE p == One(S)
             R == S \ {p}
             led == Partly(new, R)
             more == Partly(new, S)
  <2>1. p \in S /\ p \notin R /\ R \in SUBSET D
    BY <1>4 DEF One
  <2>2. /\ Countable(led) /\ Countable(more)
        /\ DOMAIN led = DOMAIN ledger \cup R /\ DOMAIN more = DOMAIN ledger \cup S
    BY <1>3, <2>1
  <2>3. \A q \in DOMAIN led \ {p} : more[q] = led[q]
    BY <2>1 DEF Partly
  <2>4. more[p] = new[p]
    BY <2>1 DEF Partly
  <2> HIDE DEF p
  <2>5. CASE p \in DOMAIN ledger
    <3>1. p \in DOMAIN led /\ led[p] = ledger[p] /\ DOMAIN more = DOMAIN led
      BY <2>1, <2>2, <2>5 DEF Partly
    <3> HIDE DEF led, more
    <3>2. OnUsageUpdate(prices, Exact(prices, led), p, led[p], more[p]) = Exact(prices, more)
      BY <2>2, <2>3, <3>1, UpdateKeepsExact
    <3> QED BY <2>4, <2>5, <3>1, <3>2 DEF Fired, led, more, p
  <2>6. CASE p \notin DOMAIN ledger
    <3>1. p \notin DOMAIN led /\ DOMAIN more = DOMAIN led \cup {p}
      BY <2>1, <2>2, <2>6
    <3> HIDE DEF led, more
    <3>2. OnUsageInsert(prices, Exact(prices, led), p, more[p]) = Exact(prices, more)
      BY <2>2, <2>3, <3>1, InsertKeepsExact
    <3> QED BY <2>4, <2>6, <3>2 DEF Fired, led, more, p
  <2> QED BY <2>5, <2>6
<1>5. Partly(new, {}) = ledger
  BY DEF Partly
<1>6. Firing(new, D, g0)
  <2>1. ASSUME NEW S \in SUBSET D
        PROVE  g0[S] = IF S = {} THEN rollup ELSE Fired(new, One(S), g0[S \ {One(S)}])
    <3>1. g0[S] = Exact(prices, Partly(new, S))
      OBVIOUS
    <3>2. S \ {One(S)} \in SUBSET D /\ g0[S \ {One(S)}] = Exact(prices, Partly(new, S \ {One(S)}))
      OBVIOUS
    <3> HIDE DEF g0
    <3> QED BY <1>4, <1>5, <3>1, <3>2
  <2>2. g0 = [S \in SUBSET D |-> g0[S]]
    OBVIOUS
  <2> HIDE DEF g0
  <2> QED BY <2>1, <2>2 DEF Firing
<1> DEFINE g1 == CHOOSE g : Firing(new, D, g)
<1>7. Firing(new, D, g1)
  <2> HIDE DEF g0
  <2> QED BY <1>6
<1> HIDE DEF g1
<1>8. \A S \in SUBSET D : g1[S] = IF S = {} THEN rollup ELSE Fired(new, One(S), g1[S \ {One(S)}])
  <2> DEFINE E(S) == IF S = {} THEN rollup ELSE Fired(new, One(S), g1[S \ {One(S)}])
  <2>1. g1 = [S \in SUBSET D |-> E(S)]
    BY <1>7 DEF Firing
  <2> HIDE DEF E
  <2>2. \A S \in SUBSET D : g1[S] = E(S)
    BY <2>1
  <2> QED BY <2>2 DEF E
<1> DEFINE Good == {S \in SUBSET D : g1[S] = Exact(prices, Partly(new, S))}
<1>9. ASSUME NEW S \in SUBSET D, \A R \in SUBSET D : Cardinality(R) < Cardinality(S) => R \in Good
      PROVE  S \in Good
  <2>1. CASE S = {}
    BY <1>5, <1>8, <2>1
  <2>2. CASE S # {}
    <3>1. One(S) \in S /\ IsFiniteSet(S)
      BY <1>2, <2>2, FS_Subset DEF One
    <3>2. Cardinality(S \ {One(S)}) < Cardinality(S) /\ S \ {One(S)} \in SUBSET D
      BY <3>1, FewerWithout
    <3>3. S \ {One(S)} \in Good
      <4> HIDE DEF Good
      <4> QED BY <1>9, <3>2
    <3> QED BY <1>4, <1>8, <2>2, <3>3
  <2> QED BY <2>1, <2>2
<1>10. D \in Good
  <2> HIDE DEF Good
  <2> QED BY <1>2, <1>9, SizeInduction
<1>11. Partly(new, D) = new
  <2>1. DOMAIN ledger \cup D = DOMAIN new
    BY <1>2 DEF D, Touched
  <2>2. \A p \in DOMAIN new : p \notin D => ledger[p] = new[p]
    BY DEF D, Touched
  <2>3. Partly(new, D) = [p \in DOMAIN new |-> new[p]]
    BY <2>1, <2>2 DEF Partly
  <2> QED BY <2>3
<1> QED BY <1>1, <1>10, <1>11 DEF g1

\* The rollup after the delete triggers of a retention run.
Pruned(gone) ==
  FoldSet(LAMBDA p, roll : OnUsageDelete(prices, roll, p, ledger[p]), rollup, gone)

Deleting(D, g) ==
  g = [S \in SUBSET D |->
         IF S = {} THEN rollup
         ELSE OnUsageDelete(prices, g[S \ {One(S)}], One(S), ledger[One(S)])]

\* The ledger without the rows of a set.
Left(S) == [p \in DOMAIN ledger \ S |-> ledger[p]]

\* After the triggers of all the rows of a retention run it is.
LEMMA PrunedExactly ==
  ASSUME Countable(ledger), rollup = Exact(prices, ledger), ledger = [p \in DOMAIN ledger |-> ledger[p]],
         NEW D \in SUBSET DOMAIN ledger
  PROVE  Pruned(D) = Exact(prices, Left(D)) /\ Countable(Left(D))
<1> DEFINE g0 == [S \in SUBSET D |-> Exact(prices, Left(S))]
           Fall(S, roll) == OnUsageDelete(prices, roll, One(S), ledger[One(S)])
<1>1. Pruned(D) = (CHOOSE g : Deleting(D, g))[D]
  BY Zenon DEF Pruned, FoldSet, MapThenFoldSet, Deleting, One
<1>2. IsFiniteSet(D)
  BY FS_Subset DEF Countable
<1>3. \A S \in SUBSET D : Countable(Left(S)) /\ DOMAIN Left(S) = DOMAIN ledger \ S
  <2> TAKE S \in SUBSET D
  <2>1. IsFiniteSet(DOMAIN ledger \ S)
    BY FS_Subset DEF Countable
  <2> QED BY <2>1 DEF Countable, Left
<1>4. ASSUME NEW S \in SUBSET D, S # {}
      PROVE  Fall(S, Exact(prices, Left(S \ {One(S)}))) = Exact(prices, Left(S))
  <2> DEFINE p == One(S)
             R == S \ {p}
             led == Left(R)
             less == Left(S)
  <2>1. p \in S /\ p \notin R /\ R \in SUBSET D /\ p \in DOMAIN ledger
    BY <1>4 DEF One
  <2>2. /\ Countable(led) /\ Countable(less)
        /\ DOMAIN led = DOMAIN ledger \ R /\ DOMAIN less = DOMAIN ledger \ S
    BY <1>3, <2>1
  <2>3. p \notin DOMAIN less /\ DOMAIN led = DOMAIN less \cup {p}
    BY <2>1, <2>2
  <2>4. /\ \A q \in DOMAIN less : led[q] = less[q]
        /\ led[p] = ledger[p]
    BY <2>1 DEF Left
  <2> HIDE DEF p, led, less
  <2>5. OnUsageDelete(prices, Exact(prices, led), p, led[p]) = Exact(prices, less)
    BY <2>2, <2>3, <2>4, DeleteKeepsExact
  <2> QED BY <2>4, <2>5 DEF led, less, p
<1>5. Left({}) = ledger
  BY DEF Left
<1>6. Deleting(D, g0)
  <2>1. ASSUME NEW S \in SUBSET D
        PROVE  g0[S] = IF S = {} THEN rollup ELSE Fall(S, g0[S \ {One(S)}])
    <3>1. g0[S] = Exact(prices, Left(S))
      OBVIOUS
    <3>2. S \ {One(S)} \in SUBSET D /\ g0[S \ {One(S)}] = Exact(prices, Left(S \ {One(S)}))
      OBVIOUS
    <3> HIDE DEF g0
    <3> QED BY <1>4, <1>5, <3>1, <3>2
  <2>2. g0 = [S \in SUBSET D |-> g0[S]]
    OBVIOUS
  <2> HIDE DEF g0
  <2> QED BY <2>1, <2>2 DEF Deleting
<1> DEFINE g1 == CHOOSE g : Deleting(D, g)
<1>7. Deleting(D, g1)
  <2> HIDE DEF g0
  <2> QED BY <1>6
<1> HIDE DEF g1
<1>8. \A S \in SUBSET D : g1[S] = IF S = {} THEN rollup ELSE Fall(S, g1[S \ {One(S)}])
  <2> DEFINE E(S) == IF S = {} THEN rollup ELSE Fall(S, g1[S \ {One(S)}])
  <2>1. g1 = [S \in SUBSET D |-> E(S)]
    BY <1>7 DEF Deleting
  <2> HIDE DEF E
  <2>2. \A S \in SUBSET D : g1[S] = E(S)
    BY <2>1
  <2> QED BY <2>2 DEF E
<1> DEFINE Good == {S \in SUBSET D : g1[S] = Exact(prices, Left(S))}
<1>9. ASSUME NEW S \in SUBSET D, \A R \in SUBSET D : Cardinality(R) < Cardinality(S) => R \in Good
      PROVE  S \in Good
  <2>1. CASE S = {}
    BY <1>5, <1>8, <2>1
  <2>2. CASE S # {}
    <3>1. One(S) \in S /\ IsFiniteSet(S)
      BY <1>2, <2>2, FS_Subset DEF One
    <3>2. Cardinality(S \ {One(S)}) < Cardinality(S) /\ S \ {One(S)} \in SUBSET D
      BY <3>1, FewerWithout
    <3>3. S \ {One(S)} \in Good
      <4> HIDE DEF Good
      <4> QED BY <1>9, <3>2
    <3> QED BY <1>4, <1>8, <2>2, <3>3
  <2> QED BY <2>1, <2>2
<1>10. D \in Good
  <2> HIDE DEF Good
  <2> QED BY <1>2, <1>9, SizeInduction
<1> QED BY <1>1, <1>3, <1>10 DEF g1

-----------------------------------------------------------------------------
(* The pricing triggers *)

\* An edit of one model and bucket moves the groups of its slice alone.
SameElsewhere(tbl, was, model, b) ==
  \A k : (k.model # model \/ k.bucket # b) => (k \in DOMAIN tbl <=> k \in DOMAIN was)

LEMMA KeyFields ==
  \A tbl, p, row :
    /\ GroupKey(tbl, p, row).session = row.session /\ GroupKey(tbl, p, row).model = row.model
    /\ GroupKey(tbl, p, row).bucket = p[2] /\ GroupKey(tbl, p, row).day = Day(row)
    /\ GroupKey(tbl, p, row).rate = WinningDate(tbl, p, row)
  BY DEF GroupKey

\* It leaves the group of every other row where it was.
LEMMA KeysElsewhere ==
  ASSUME NEW tbl, NEW was, NEW model, NEW b, SameElsewhere(tbl, was, model, b),
         NEW p, NEW row, row.model # model \/ p[2] # b
  PROVE  GroupKey(tbl, p, row) = GroupKey(was, p, row)
<1>1. RatesOf(tbl, row.model, p[2]) = RatesOf(was, row.model, p[2])
  BY DEF RatesOf, SameElsewhere
<1>2. WinningDate(tbl, p, row) = WinningDate(was, p, row)
  BY <1>1 DEF WinningDate
<1> QED BY <1>2 DEF GroupKey

\* So the rebuild of a slice needs the rollup to be exact outside it only, under
\* the prices from before.
LEMMA RecomputedExactly ==
  ASSUME NEW tbl, NEW was, NEW model, NEW b, SameElsewhere(tbl, was, model, b),
         NEW roll,
         \A k : (k.model # model \/ k.bucket # b) =>
           /\ k \in DOMAIN roll <=> k \in Keys(was, ledger)
           /\ k \in DOMAIN roll => roll[k] = CountOf(was, ledger, k)
  PROVE  Recompute(tbl, roll, model, b) = Exact(tbl, ledger)
<1> DEFINE Off(k) == k.model # model \/ k.bucket # b
           kept == {k \in DOMAIN roll : Off(k)}
           slice == {p \in DOMAIN ledger : ledger[p].model = model /\ p[2] = b}
           rebuilt == Grouped(tbl, ledger, slice)
           KeyOf(p) == GroupKey(tbl, p, ledger[p])
           Group(k) == {p \in slice : KeyOf(p) = k}
           Value(k) == [tokens |-> Total([p \in Group(k) |-> ledger[p].tokens]),
                        rows |-> Cardinality(Group(k))]
<1>1. Recompute(tbl, roll, model, b) =
        [k \in kept \cup DOMAIN rebuilt |-> IF k \in kept THEN roll[k] ELSE rebuilt[k]]
  BY Zenon DEF Recompute
<1>2. rebuilt = [k \in {KeyOf(p) : p \in slice} |-> Value(k)]
  BY Zenon DEF Grouped
<1>3. \A p : KeyOf(p).model = ledger[p].model /\ KeyOf(p).bucket = p[2]
  BY KeyFields
<1>4. \A p \in DOMAIN ledger : p \in slice <=> ~Off(KeyOf(p))
  <2> HIDE DEF KeyOf
  <2> QED BY <1>3
<1>5. ASSUME NEW k, ~Off(k) PROVE Group(k) = Members(tbl, ledger, k)
  BY <1>4, <1>5 DEF Members
<1>6. ASSUME NEW k, Off(k) PROVE Members(tbl, ledger, k) = Members(was, ledger, k)
  <2>1. ASSUME NEW p \in DOMAIN ledger
        PROVE  KeyOf(p) = k <=> GroupKey(was, p, ledger[p]) = k
    <3>1. Off(KeyOf(p)) => KeyOf(p) = GroupKey(was, p, ledger[p])
      <4>1. Off(KeyOf(p)) => ledger[p].model # model \/ p[2] # b
        <5> HIDE DEF KeyOf
        <5> QED BY <1>3
      <4> QED BY <4>1, KeysElsewhere
    <3>2. Off(GroupKey(was, p, ledger[p])) => KeyOf(p) = GroupKey(was, p, ledger[p])
      <4>1. Off(GroupKey(was, p, ledger[p])) => ledger[p].model # model \/ p[2] # b
        BY KeyFields
      <4> QED BY <4>1, KeysElsewhere
    <3> HIDE DEF KeyOf
    <3> QED BY <1>6, <3>1, <3>2
  <2> QED BY <2>1 DEF Members
<1>7. \A k : k \in Keys(tbl, ledger) <=> Members(tbl, ledger, k) # {}
  BY DEF Keys, Members
<1>8. \A k : k \in Keys(was, ledger) <=> Members(was, ledger, k) # {}
  BY DEF Keys, Members
<1>9. \A k : k \in DOMAIN rebuilt <=> k \in Keys(tbl, ledger) /\ ~Off(k)
  <2>1. DOMAIN rebuilt = {KeyOf(p) : p \in slice}
    BY <1>2
  <2>2. \A p \in slice : ~Off(KeyOf(p)) /\ KeyOf(p) \in Keys(tbl, ledger)
    <3>1. \A p \in slice : KeyOf(p) \in Keys(tbl, ledger)
      BY DEF Keys
    <3> HIDE DEF KeyOf, Off
    <3> QED BY <1>4, <3>1
  <2>3. \A k \in Keys(tbl, ledger) : \E p \in DOMAIN ledger : k = KeyOf(p)
    BY DEF Keys
  <2> HIDE DEF rebuilt, slice, KeyOf, Off
  <2> QED BY <1>4, <2>1, <2>2, <2>3
<1>10. \A k : k \in kept <=> k \in Keys(tbl, ledger) /\ Off(k)
  <2> TAKE k
  <2>1. CASE Off(k)
    <3>1. k \in DOMAIN roll <=> k \in Keys(was, ledger)
      BY <2>1
    <3>2. Members(tbl, ledger, k) = Members(was, ledger, k)
      BY <1>6, <2>1
    <3> HIDE DEF Off
    <3> QED BY <1>7, <1>8, <2>1, <3>1, <3>2
  <2>2. CASE ~Off(k)
    <3> HIDE DEF Off
    <3> QED BY <2>2
  <2> QED BY <2>1, <2>2
<1>11. kept \cup DOMAIN rebuilt = Keys(tbl, ledger)
  <2> HIDE DEF kept, rebuilt, Off
  <2> QED BY <1>9, <1>10
<1>12. \A k \in Keys(tbl, ledger) : (IF k \in kept THEN roll[k] ELSE rebuilt[k]) = CountOf(tbl, ledger, k)
  <2> TAKE k \in Keys(tbl, ledger)
  <2>1. CASE Off(k)
    <3>1. k \in kept /\ k \in DOMAIN roll
      <4>1. k \in kept
        <5> HIDE DEF kept, Off
        <5> QED BY <1>10, <2>1
      <4> QED BY <4>1
    <3>2. roll[k] = CountOf(was, ledger, k)
      BY <2>1, <3>1
    <3>3. Members(tbl, ledger, k) = Members(was, ledger, k)
      BY <1>6, <2>1
    <3>4. CountOf(was, ledger, k) = CountOf(tbl, ledger, k)
      BY <3>3 DEF CountOf
    <3> HIDE DEF kept, rebuilt, Off
    <3> QED BY <3>1, <3>2, <3>4
  <2>2. CASE ~Off(k)
    <3>1. k \notin kept /\ k \in DOMAIN rebuilt
      <4> HIDE DEF kept, rebuilt, Off
      <4> QED BY <1>9, <1>10, <2>2
    <3>2. rebuilt[k] = Value(k)
      <4>1. DOMAIN rebuilt = {KeyOf(p) : p \in slice}
        BY <1>2
      <4>2. k \in {KeyOf(p) : p \in slice}
        <5> HIDE DEF rebuilt, KeyOf, slice
        <5> QED BY <3>1, <4>1
      <4> HIDE DEF rebuilt, Value, KeyOf, slice
      <4> QED BY <1>2, <4>2
    <3>3. Value(k) = CountOf(tbl, ledger, k)
      <4>1. Group(k) = Members(tbl, ledger, k)
        BY <1>5, <2>2
      <4> HIDE DEF Group
      <4> QED BY <4>1 DEF CountOf
    <3> HIDE DEF kept, rebuilt, Value
    <3> QED BY <3>1, <3>2, <3>3
  <2> QED BY <2>1, <2>2
<1>13. Exact(tbl, ledger) = [k \in Keys(tbl, ledger) |-> CountOf(tbl, ledger, k)]
  <2>1. Keys(tbl, ledger) \cup {} = Keys(tbl, ledger)
    OBVIOUS
  <2> QED BY <2>1, LooseGrouped DEF Exact
<1> HIDE DEF kept, rebuilt
<1> QED BY <1>1, <1>11, <1>12, <1>13

-----------------------------------------------------------------------------
(* The summary *)

\* The figures of a bucket of the summary, and a fold that adds buckets up.
Spends == [tokens : Int, cost : Int, unpriced : Int]

AddedOver(slices, S) ==
  FoldSet(LAMBDA i, sum : Add(slices[i].spend, sum), NoSpend, S)

Adding(slices, D, g) ==
  g = [S \in SUBSET D |->
         IF S = {} THEN NoSpend ELSE Add(slices[One(S)].spend, g[S \ {One(S)}])]

\* Adding up buckets adds up each of their figures.
LEMMA AddedUp ==
  ASSUME NEW slices, NEW D, IsFiniteSet(D), \A i \in D : slices[i].spend \in Spends
  PROVE  AddedOver(slices, D) =
           [tokens   |-> Total([i \in D |-> slices[i].spend.tokens]),
            cost     |-> Total([i \in D |-> slices[i].spend.cost]),
            unpriced |-> Total([i \in D |-> slices[i].spend.unpriced])]
<1> DEFINE ft == [i \in D |-> slices[i].spend.tokens]
           fc == [i \in D |-> slices[i].spend.cost]
           fu == [i \in D |-> slices[i].spend.unpriced]
<1>1. AddedOver(slices, D) = (CHOOSE g : Adding(slices, D, g))[D]
  BY Zenon DEF AddedOver, FoldSet, MapThenFoldSet, Adding, One
<1>2. ft \in [D -> Int] /\ fc \in [D -> Int] /\ fu \in [D -> Int]
  BY DEF Spends
<1>3. \A i \in D : /\ slices[i].spend.tokens = ft[i] /\ slices[i].spend.cost = fc[i]
                   /\ slices[i].spend.unpriced = fu[i]
  OBVIOUS
<1> HIDE DEF ft, fc, fu
<1>4. PICK gt : Sums(ft, D, gt) /\ Total(ft) = gt[D]
  BY <1>2, TotalIs
<1>5. PICK gc : Sums(fc, D, gc) /\ Total(fc) = gc[D]
  BY <1>2, TotalIs
<1>6. PICK gu : Sums(fu, D, gu) /\ Total(fu) = gu[D]
  BY <1>2, TotalIs
<1>7. /\ gt[{}] = 0 /\ \A S \in SUBSET D : \A e \in S : gt[S] = ft[e] + gt[S \ {e}]
      /\ gc[{}] = 0 /\ \A S \in SUBSET D : \A e \in S : gc[S] = fc[e] + gc[S \ {e}]
      /\ gu[{}] = 0 /\ \A S \in SUBSET D : \A e \in S : gu[S] = fu[e] + gu[S \ {e}]
  <2>1. gt[{}] = 0 /\ \A S \in SUBSET D : \A e \in S : gt[S] = ft[e] + gt[S \ {e}]
    BY <1>2, <1>4, SumsSay
  <2>2. gc[{}] = 0 /\ \A S \in SUBSET D : \A e \in S : gc[S] = fc[e] + gc[S \ {e}]
    BY <1>2, <1>5, SumsSay
  <2>3. gu[{}] = 0 /\ \A S \in SUBSET D : \A e \in S : gu[S] = fu[e] + gu[S \ {e}]
    BY <1>2, <1>6, SumsSay
  <2> QED BY <2>1, <2>2, <2>3
<1> DEFINE Rec(S) == [tokens |-> gt[S], cost |-> gc[S], unpriced |-> gu[S]]
           g0 == [S \in SUBSET D |-> Rec(S)]
           Fall(S, sum) == Add(slices[One(S)].spend, sum)
<1>8. ASSUME NEW S \in SUBSET D, S # {} PROVE Fall(S, Rec(S \ {One(S)})) = Rec(S)
  <2>1. One(S) \in S /\ One(S) \in D
    BY <1>8 DEF One
  <2>2. /\ gt[S] = ft[One(S)] + gt[S \ {One(S)}] /\ gc[S] = fc[One(S)] + gc[S \ {One(S)}]
        /\ gu[S] = fu[One(S)] + gu[S \ {One(S)}]
    BY <1>7, <2>1
  <2> QED BY <1>3, <2>1, <2>2 DEF Add
<1>9. Rec({}) = NoSpend
  BY <1>7 DEF NoSpend
<1>10. Adding(slices, D, g0)
  <2>1. ASSUME NEW S \in SUBSET D
        PROVE  g0[S] = IF S = {} THEN NoSpend ELSE Fall(S, g0[S \ {One(S)}])
    <3>1. g0[S] = Rec(S)
      OBVIOUS
    <3>2. S \ {One(S)} \in SUBSET D /\ g0[S \ {One(S)}] = Rec(S \ {One(S)})
      OBVIOUS
    <3> HIDE DEF g0, Rec, Fall
    <3> QED BY <1>8, <1>9, <3>1, <3>2
  <2>2. g0 = [S \in SUBSET D |-> g0[S]]
    OBVIOUS
  <2> HIDE DEF g0
  <2> QED BY <2>1, <2>2 DEF Adding
<1> DEFINE g1 == CHOOSE g : Adding(slices, D, g)
<1>11. Adding(slices, D, g1)
  <2> HIDE DEF g0
  <2> QED BY <1>10
<1> HIDE DEF g1
<1>12. \A S \in SUBSET D : g1[S] = IF S = {} THEN NoSpend ELSE Fall(S, g1[S \ {One(S)}])
  <2> DEFINE E(S) == IF S = {} THEN NoSpend ELSE Fall(S, g1[S \ {One(S)}])
  <2>1. g1 = [S \in SUBSET D |-> E(S)]
    BY <1>11 DEF Adding
  <2> HIDE DEF E
  <2>2. \A S \in SUBSET D : g1[S] = E(S)
    BY <2>1
  <2> QED BY <2>2 DEF E
<1> DEFINE Good == {S \in SUBSET D : g1[S] = Rec(S)}
<1> HIDE DEF Rec, Fall
<1>13. ASSUME NEW S \in SUBSET D, \A R \in SUBSET D : Cardinality(R) < Cardinality(S) => R \in Good
      PROVE  S \in Good
  <2>1. CASE S = {}
    BY <1>9, <1>12, <2>1
  <2>2. CASE S # {}
    <3>1. One(S) \in S /\ IsFiniteSet(S)
      BY <2>2, FS_Subset DEF One
    <3>2. Cardinality(S \ {One(S)}) < Cardinality(S) /\ S \ {One(S)} \in SUBSET D
      BY <3>1, FewerWithout
    <3>3. S \ {One(S)} \in Good
      <4> HIDE DEF Good
      <4> QED BY <1>13, <3>2
    <3> QED BY <1>8, <1>12, <2>2, <3>3
  <2> QED BY <2>1, <2>2
<1>14. D \in Good
  <2> HIDE DEF Good
  <2> QED BY <1>13, SizeInduction
<1>15. AddedOver(slices, D) = Rec(D)
  BY <1>1, <1>14 DEF g1
<1> QED BY <1>4, <1>5, <1>6, <1>15 DEF Rec, ft, fc, fu

LEMMA GreatestInt ==
  ASSUME NEW S \in SUBSET Int, S # {}, NEW top \in Int, \A n \in S : n <= top
  PROVE  Greatest(S) \in S /\ \A n \in S : n <= Greatest(S)
<1> DEFINE Gaps == {top - n : n \in S}
<1>1. Gaps \in SUBSET Nat /\ Gaps # {}
  <2>1. \A n \in S : top - n \in Nat
    OBVIOUS
  <2> QED BY <2>1
<1>2. PICK d \in Gaps : \A j \in Gaps : d <= j
  BY <1>1, LeastNumber
<1>3. PICK k \in S : d = top - k
  BY <1>2
<1>4. \A n \in S : n <= k
  <2> TAKE n \in S
  <2>1. top - n \in Gaps
    OBVIOUS
  <2>2. d <= top - n
    BY <1>2, <2>1
  <2> QED BY <1>3, <2>2
<1>5. \E n \in S : \A j \in S : j <= n
  BY <1>4
<1> QED BY <1>5 DEF Greatest

\* Every rate's date is stored in its canonical spelling.
PricesTyped ==
  \A k \in DOMAIN prices :
    /\ prices[k] \in Int /\ k.from.wall \in Int
    /\ k = RateKey(<<k.model, k.bucket>>, [wall |-> k.from.wall, zone |-> 0])

Dated(row) == row.at.wall \in Int /\ row.at.zone = 0

\* The rate the priced scan finds for a row is the one its group was rolled up
\* under: text and instant order canonical dates alike.
LEMMA RateOfGroup ==
  ASSUME PricesTyped, NEW p, NEW row, Dated(row)
  PROVE  /\ SqlRate(prices, row, p[2]) = GroupRate(GroupKey(prices, p, row))
         /\ SqlRate(prices, row, p[2]) \in Int \cup {None}
<1> DEFINE rates == RatesOf(prices, row.model, p[2])
           due == {k \in rates : k.from.wall <= row.at.wall}
           dates == {Instant(k.from) : k \in {l \in rates : Instant(l.from) <= Instant(row.at)}}
           key == GroupKey(prices, p, row)
<1>1. \A k \in rates :
        /\ k \in DOMAIN prices /\ k.model = row.model /\ k.bucket = p[2]
        /\ k.from.wall \in Int /\ k.from.zone = 0 /\ Instant(k.from) = k.from.wall
        /\ k = RateKey(<<row.model, p[2]>>, [wall |-> k.from.wall, zone |-> 0])
  <2> TAKE k \in rates
  <2>1. k \in DOMAIN prices /\ k.model = row.model /\ k.bucket = p[2]
    BY DEF RatesOf
  <2>2. /\ k.from.wall \in Int
        /\ k = RateKey(<<k.model, k.bucket>>, [wall |-> k.from.wall, zone |-> 0])
    BY <2>1 DEF PricesTyped
  <2>3. k.from = [wall |-> k.from.wall, zone |-> 0]
    BY <2>2 DEF RateKey
  <2>4. k.from.zone = 0
    BY <2>3
  <2> QED BY <2>1, <2>2, <2>4 DEF Instant
<1>2. Instant(row.at) = row.at.wall /\ row.at.wall \in Int
  BY DEF Dated, Instant
<1> HIDE DEF rates
<1>3. dates = {k.from.wall : k \in due}
  <2>1. {l \in rates : Instant(l.from) <= Instant(row.at)} = due
    BY <1>1, <1>2
  <2> HIDE DEF due
  <2>2. \A k \in due : Instant(k.from) = k.from.wall
    BY <1>1 DEF due
  <2> QED BY <2>1, <2>2
<1>4. /\ key.model = row.model /\ key.bucket = p[2]
      /\ key.rate = IF dates = {} THEN None ELSE Greatest(dates)
  <2>1. key.rate = WinningDate(prices, p, row)
    BY KeyFields
  <2>2. WinningDate(prices, p, row) = IF dates = {} THEN None ELSE Greatest(dates)
    BY Zenon DEF WinningDate, rates
  <2> QED BY <2>1, <2>2, KeyFields
<1>5. SqlRate(prices, row, p[2]) =
        IF due = {} THEN None
        ELSE IF prices[CHOOSE k \in due : \A l \in due : l.from.wall <= k.from.wall] >= 0
             THEN prices[CHOOSE k \in due : \A l \in due : l.from.wall <= k.from.wall] ELSE None
  BY Zenon DEF SqlRate, rates
<1>6. GroupRate(key) =
        IF key.rate = None THEN None
        ELSE IF prices[RateKey(<<key.model, key.bucket>>, [wall |-> key.rate, zone |-> 0])] >= 0
             THEN prices[RateKey(<<key.model, key.bucket>>, [wall |-> key.rate, zone |-> 0])] ELSE None
  BY Zenon DEF GroupRate
<1> HIDE DEF key
<1>7. CASE due = {}
  <2>1. dates = {}
    BY <1>3, <1>7
  <2> HIDE DEF due, dates
  <2> QED BY <1>4, <1>5, <1>6, <1>7, <2>1 DEF key
<1>8. CASE due # {}
  <2>1. dates # {} /\ dates \in SUBSET Int /\ \A n \in dates : n <= row.at.wall
    BY <1>1, <1>3, <1>8
  <2> DEFINE top == Greatest(dates)
             best == CHOOSE k \in due : \A l \in due : l.from.wall <= k.from.wall
  <2>2. top \in dates /\ \A n \in dates : n <= top
    <3> HIDE DEF dates
    <3> QED BY <1>2, <2>1, GreatestInt
  <2>3. \E k \in due : \A l \in due : l.from.wall <= k.from.wall
    <3>1. PICK k \in due : top = k.from.wall
      BY <1>3, <2>2
    <3>2. \A l \in due : l.from.wall \in dates
      BY <1>3
    <3> HIDE DEF due, dates, top
    <3> QED BY <2>2, <3>1, <3>2
  <2>4. best \in due /\ \A l \in due : l.from.wall <= best.from.wall
    <3> HIDE DEF due
    <3> QED BY <2>3
  <2>5. best.from.wall = top
    <3>1. best.from.wall \in dates
      BY <1>3, <2>4
    <3>2. PICK k \in due : top = k.from.wall
      BY <1>3, <2>2
    <3>3. top <= best.from.wall /\ best.from.wall <= top /\ top \in Int /\ best.from.wall \in Int
      <4> HIDE DEF best, dates, top
      <4> QED BY <2>1, <2>2, <2>4, <3>1, <3>2
    <3> HIDE DEF best, top
    <3> QED BY <3>3
  <2>6. best = RateKey(<<row.model, p[2]>>, [wall |-> top, zone |-> 0])
    <3>1. best \in rates
      BY <2>4
    <3> HIDE DEF best, top
    <3> QED BY <1>1, <2>5, <3>1
  <2>7. top # None
    <3>1. top \in Int
      BY <2>1, <2>2
    <3> QED BY <3>1, LedgerAssumption
  <2>8. key.rate = top
    <3> HIDE DEF dates
    <3> QED BY <1>4, <2>1
  <2> HIDE DEF due, dates, top
  <2>9. SqlRate(prices, row, p[2]) = IF prices[best] >= 0 THEN prices[best] ELSE None
    BY <1>5, <1>8
  <2>11. prices[best] \in Int
    <3>1. best \in DOMAIN prices
      BY <1>1, <2>4 DEF due
    <3> QED BY <3>1 DEF PricesTyped
  <2>10. GroupRate(key) = IF prices[best] >= 0 THEN prices[best] ELSE None
    <3> HIDE DEF best
    <3> QED BY <1>4, <1>6, <2>6, <2>7, <2>8
  <2> HIDE DEF best
  <2> QED BY <2>9, <2>10, <2>11 DEF key
<1> QED BY <1>7, <1>8

\* What one token adds to a figure.
Weight(field, rate) ==
  CASE field = "tokens" -> 1
    [] field = "cost" -> IF rate = None THEN 0 ELSE rate
    [] field = "unpriced" -> IF rate = None THEN 1 ELSE 0

Figures == {"tokens", "cost", "unpriced"}

\* Every figure of a spend is its tokens, weighed by what the rate makes of one.
LEMMA SpendIs ==
  ASSUME NEW tokens \in Int, NEW rate \in Int \cup {None}
  PROVE  /\ Spend(tokens, rate) \in Spends
         /\ \A field \in Figures : /\ Weight(field, rate) \in Int
                                   /\ Spend(tokens, rate)[field] = tokens * Weight(field, rate)
<1>1. tokens * 1 = tokens /\ tokens * 0 = 0
  BY SMT
<1>2. CASE rate = None
  <2>1. Spend(tokens, rate) = [tokens |-> tokens, cost |-> 0, unpriced |-> tokens]
    BY <1>2 DEF Spend
  <2>2. Weight("tokens", rate) = 1 /\ Weight("cost", rate) = 0 /\ Weight("unpriced", rate) = 1
    BY <1>2 DEF Weight
  <2> QED BY <1>1, <2>1, <2>2 DEF Spends, Figures
<1>3. CASE rate # None
  <2>1. Spend(tokens, rate) = [tokens |-> tokens, cost |-> tokens * rate, unpriced |-> 0]
    BY <1>3 DEF Spend
  <2>2. Weight("tokens", rate) = 1 /\ Weight("cost", rate) = rate /\ Weight("unpriced", rate) = 0
    BY <1>3 DEF Weight
  <2>3. rate \in Int /\ tokens * rate \in Int
    BY <1>3, SharesOut
  <2> QED BY <1>1, <2>1, <2>2, <2>3 DEF Spends, Figures
<1> QED BY <1>2, <1>3

RowSlices ==
  [p \in DOMAIN ledger |->
    LET row == ledger[p]
    IN Slice(row.model, Day(row), row.session, Spend(row.tokens, SqlRate(prices, row, p[2])))]
GroupSlices ==
  [k \in DOMAIN rollup |->
    Slice(k.model, k.day, k.session, Spend(rollup[k].tokens, GroupRate(k)))]

\* While the rollup is exact, a summary of its groups is one of the rows.
LEMMA SummariesAgree ==
  ASSUME Countable(ledger), \A p \in DOMAIN ledger : Dated(ledger[p]), PricesTyped,
         rollup = Exact(prices, ledger)
  PROVE  SummaryOfRollup = SummaryOfLedger
<1> DEFINE Key(p) == GroupKey(prices, p, ledger[p])
           key == [p \in DOMAIN ledger |-> Key(p)]
           ls == RowSlices
           rs == GroupSlices
           Labels == {"all", "model", "day", "session"}
<1>1. /\ DOMAIN rollup = {key[p] : p \in DOMAIN ledger}
      /\ \A k \in DOMAIN rollup : rollup[k] = CountOf(prices, ledger, k)
  <2>1. Keys(prices, ledger) \cup {} = {key[p] : p \in DOMAIN ledger}
    BY DEF Keys
  <2>2. rollup = [k \in Keys(prices, ledger) \cup {} |-> CountOf(prices, ledger, k)]
    BY LooseGrouped DEF Exact
  <2> HIDE DEF key
  <2> QED BY <2>1, <2>2
<1>2. \A p \in DOMAIN ledger : key[p] = Key(p) /\ key[p] \in DOMAIN rollup
  BY <1>1
<1>3. \A p \in DOMAIN ledger :
        /\ SqlRate(prices, ledger[p], p[2]) = GroupRate(key[p])
        /\ GroupRate(key[p]) \in Int \cup {None}
  <2> TAKE p \in DOMAIN ledger
  <2>1. Dated(ledger[p])
    OBVIOUS
  <2>2. /\ SqlRate(prices, ledger[p], p[2]) = GroupRate(GroupKey(prices, p, ledger[p]))
        /\ SqlRate(prices, ledger[p], p[2]) \in Int \cup {None}
    BY <2>1, RateOfGroup
  <2> QED BY <1>2, <2>2
<1>4. \A p \in DOMAIN ledger :
        /\ key[p].model = ledger[p].model /\ key[p].day = Day(ledger[p])
        /\ key[p].session = ledger[p].session
  <2> HIDE DEF key
  <2> QED BY <1>2, KeyFields DEF Key
<1> HIDE DEF Key, key
<1>5. \A k \in DOMAIN rollup : rs[k] = Slice(k.model, k.day, k.session, Spend(rollup[k].tokens, GroupRate(k)))
  BY DEF GroupSlices
<1>6. \A p \in DOMAIN ledger :
        ls[p] = Slice(key[p].model, key[p].day, key[p].session, Spend(ledger[p].tokens, GroupRate(key[p])))
  <2> TAKE p \in DOMAIN ledger
  <2>1. ls[p] = Slice(ledger[p].model, Day(ledger[p]), ledger[p].session,
                      Spend(ledger[p].tokens, SqlRate(prices, ledger[p], p[2])))
    BY DEF RowSlices
  <2> QED BY <1>3, <1>4, <2>1
<1>7. \A model, day, session, spend :
        /\ Slice(model, day, session, spend).spend = spend
        /\ Slice(model, day, session, spend)["all"] = "all"
        /\ Slice(model, day, session, spend)["model"] = model
        /\ Slice(model, day, session, spend)["day"] = day
        /\ Slice(model, day, session, spend)["session"] = session
  BY DEF Slice
<1>8. DOMAIN rs = DOMAIN rollup /\ DOMAIN ls = DOMAIN ledger
  BY DEF RowSlices, GroupSlices
<1> HIDE DEF ls, rs
<1>9. /\ \A p \in DOMAIN ledger : ls[p].spend = Spend(ledger[p].tokens, GroupRate(key[p]))
      /\ \A k \in DOMAIN rollup : rs[k].spend = Spend(rollup[k].tokens, GroupRate(k))
  BY <1>5, <1>6, <1>7
<1>10. \A p \in DOMAIN ledger : \A label \in Labels : ls[p][label] = rs[key[p]][label]
  <2> TAKE p \in DOMAIN ledger
  <2>1. key[p] \in DOMAIN rollup
    BY <1>2
  <2>2. rs[key[p]] = Slice(key[p].model, key[p].day, key[p].session, Spend(rollup[key[p]].tokens, GroupRate(key[p])))
    BY <1>5, <2>1
  <2>3. ls[p] = Slice(key[p].model, key[p].day, key[p].session, Spend(ledger[p].tokens, GroupRate(key[p])))
    BY <1>6
  <2> QED BY <1>7, <2>2, <2>3
<1>11. /\ \A p \in DOMAIN ledger : ledger[p].tokens \in Int
       /\ \A k \in DOMAIN rollup : rollup[k].tokens \in Int /\ GroupRate(k) \in Int \cup {None}
  <2>1. \A k \in DOMAIN rollup : rollup[k].tokens \in Int
    <3> TAKE k \in DOMAIN rollup
    <3>1. rollup[k] = CountOf(prices, ledger, k)
      BY <1>1
    <3>2. CountOf(prices, ledger, k).tokens \in Int
      BY CountOfIs
    <3> QED BY <3>1, <3>2
  <2>2. \A k \in DOMAIN rollup : GroupRate(k) \in Int \cup {None}
    BY <1>1, <1>3
  <2> QED BY <2>1, <2>2 DEF Countable
<1>12. /\ IsFiniteSet(DOMAIN ledger) /\ IsFiniteSet(DOMAIN rollup)
  BY <1>1, ImageIsFinite DEF Countable
<1>13. ASSUME NEW label \in Labels PROVE Regrouped(rs, label) = Regrouped(ls, label)
  <2> DEFINE R(l) == {k \in DOMAIN rollup : rs[k][label] = l}
             L(l) == {p \in DOMAIN ledger : ls[p][label] = l}
  <2>1. Regrouped(rs, label) = [l \in {rs[k][label] : k \in DOMAIN rollup} |-> AddedOver(rs, R(l))]
    BY <1>8, Zenon DEF Regrouped, AddedOver
  <2>2. Regrouped(ls, label) = [l \in {ls[p][label] : p \in DOMAIN ledger} |-> AddedOver(ls, L(l))]
    BY <1>8, Zenon DEF Regrouped, AddedOver
  <2>3. {rs[k][label] : k \in DOMAIN rollup} = {ls[p][label] : p \in DOMAIN ledger}
    BY <1>1, <1>10
  <2>4. ASSUME NEW l PROVE AddedOver(rs, R(l)) = AddedOver(ls, L(l))
    <3> DEFINE Rl == R(l)
               Ll == L(l)
    <3>1. IsFiniteSet(Rl) /\ Rl \subseteq DOMAIN rollup /\ IsFiniteSet(Ll) /\ Ll \subseteq DOMAIN ledger
      BY <1>12, FS_Subset
    <3>2. Rl = {key[p] : p \in Ll}
      BY <1>1, <1>10
    <3>3. ASSUME NEW k \in Rl PROVE {q \in Ll : key[q] = k} = Members(prices, ledger, k)
      <4>1. \A q \in DOMAIN ledger : key[q] = k => q \in Ll
        BY <1>10, <3>3
      <4>2. \A q \in DOMAIN ledger : key[q] = GroupKey(prices, q, ledger[q])
        BY <1>2 DEF Key
      <4> HIDE DEF Rl, Ll
      <4> QED BY <3>1, <4>1, <4>2 DEF Members
    <3> HIDE DEF Rl, Ll
    <3>4. ASSUME NEW field \in Figures
          PROVE  Total([k \in Rl |-> rs[k].spend[field]]) = Total([p \in Ll |-> ls[p].spend[field]])
      <4> DEFINE w == [k \in DOMAIN rollup |-> Weight(field, GroupRate(k))]
                 tok == [p \in Ll |-> ledger[p].tokens]
                 Part(k) == Total([p \in {q \in Ll : key[q] = k} |-> tok[p]])
      <4>1. \A p \in Ll : w[key[p]] = Weight(field, GroupRate(key[p])) /\ w[key[p]] \in Int
        <5> TAKE p \in Ll
        <5>1. key[p] \in DOMAIN rollup
          BY <1>2, <3>1
        <5>2. w[key[p]] = Weight(field, GroupRate(key[p]))
          BY <5>1
        <5>3. Weight(field, GroupRate(key[p])) \in Int
          BY <1>11, <5>1, SpendIs
        <5> QED BY <5>2, <5>3
      <4>2. tok \in [Ll -> Int] /\ \A p \in Ll : tok[p] = ledger[p].tokens
        BY <1>11, <3>1
      <4>3. \A k \in DOMAIN rollup : w[k] = Weight(field, GroupRate(k))
        OBVIOUS
      <4> HIDE DEF w
      <4>4. \A k \in Rl : Part(k) = rollup[k].tokens
        <5> TAKE k \in Rl
        <5>1. {q \in Ll : key[q] = k} = Members(prices, ledger, k)
          BY <3>3
        <5>2. Members(prices, ledger, k) \subseteq Ll
          BY <5>1
        <5>3. [p \in Members(prices, ledger, k) |-> tok[p]] = [p \in Members(prices, ledger, k) |-> ledger[p].tokens]
          <6> HIDE DEF tok
          <6> QED BY <4>2, <5>2
        <5>4. rollup[k].tokens = Total([p \in Members(prices, ledger, k) |-> ledger[p].tokens])
          <6>1. k \in DOMAIN rollup /\ rollup[k] = CountOf(prices, ledger, k)
            BY <1>1, <3>1
          <6> QED BY <6>1 DEF CountOf
        <5> HIDE DEF tok
        <5> QED BY <5>1, <5>3, <5>4
      <4> HIDE DEF tok
      <4> DEFINE a == [k \in Rl |-> rs[k].spend[field]]
                 b == [p \in Ll |-> ls[p].spend[field]]
      <4>6. ASSUME NEW k \in Rl PROVE a[k] = Part(k) * w[k]
        <5>1. k \in DOMAIN rollup /\ Part(k) = rollup[k].tokens
          BY <3>1, <4>4
        <5>2. rs[k].spend[field] = rollup[k].tokens * Weight(field, GroupRate(k))
          <6>1. rs[k].spend = Spend(rollup[k].tokens, GroupRate(k))
            BY <1>9, <5>1
          <6>2. rollup[k].tokens \in Int /\ GroupRate(k) \in Int \cup {None}
            BY <1>11, <5>1
          <6> QED BY <6>1, <6>2, SpendIs
        <5> HIDE DEF Part
        <5> QED BY <4>3, <5>1, <5>2
      <4>7. ASSUME NEW p \in Ll PROVE b[p] = tok[p] * w[key[p]]
        <5>1. p \in DOMAIN ledger /\ key[p] \in DOMAIN rollup
          BY <1>2, <3>1
        <5>2. ls[p].spend[field] = ledger[p].tokens * Weight(field, GroupRate(key[p]))
          <6>1. ls[p].spend = Spend(ledger[p].tokens, GroupRate(key[p]))
            BY <1>9, <5>1
          <6>2. ledger[p].tokens \in Int /\ GroupRate(key[p]) \in Int \cup {None}
            BY <1>11, <5>1
          <6> QED BY <6>1, <6>2, SpendIs
        <5> QED BY <4>1, <4>2, <5>2
      <4>8. /\ a = [k \in DOMAIN a |-> a[k]] /\ DOMAIN a = {key[p] : p \in Ll}
            /\ b = [p \in Ll |-> b[p]] /\ DOMAIN a = Rl
        BY <3>2
      <4> HIDE DEF a, b
      <4>9. \A k \in DOMAIN a : a[k] = GroupSum(Ll, tok, key, k) * w[k]
        <5> HIDE DEF Part
        <5>1. \A k \in Rl : Part(k) = GroupSum(Ll, tok, key, k)
          BY DEF Part, GroupSum
        <5> QED BY <4>6, <4>8, <5>1
      <4>10. a = WeighedGroups(Ll, tok, key, w)
        BY <4>8, <4>9 DEF WeighedGroups
      <4>11. b = WeighedRows(Ll, tok, key, w)
        BY <4>7, <4>8 DEF WeighedRows
      <4>12. Total(WeighedGroups(Ll, tok, key, w)) = Total(WeighedRows(Ll, tok, key, w))
        BY <3>1, <4>1, <4>2, WeighedByGroup
      <4> QED BY <4>10, <4>11, <4>12 DEF a, b
    <3>5. AddedOver(rs, Rl) = [tokens   |-> Total([i \in Rl |-> rs[i].spend.tokens]),
                               cost     |-> Total([i \in Rl |-> rs[i].spend.cost]),
                               unpriced |-> Total([i \in Rl |-> rs[i].spend.unpriced])]
      <4>1. \A i \in Rl : rs[i].spend \in Spends
        <5> TAKE i \in Rl
        <5>1. i \in DOMAIN rollup
          BY <3>1
        <5>2. rs[i].spend = Spend(rollup[i].tokens, GroupRate(i))
          BY <1>9, <5>1
        <5>3. rollup[i].tokens \in Int /\ GroupRate(i) \in Int \cup {None}
          BY <1>11, <5>1
        <5> QED BY <5>2, <5>3, SpendIs
      <4> QED BY <3>1, <4>1, AddedUp
    <3>6. AddedOver(ls, Ll) = [tokens   |-> Total([i \in Ll |-> ls[i].spend.tokens]),
                               cost     |-> Total([i \in Ll |-> ls[i].spend.cost]),
                               unpriced |-> Total([i \in Ll |-> ls[i].spend.unpriced])]
      <4>1. \A i \in Ll : ls[i].spend \in Spends
        <5> TAKE i \in Ll
        <5>1. i \in DOMAIN ledger /\ key[i] \in DOMAIN rollup
          BY <1>2, <3>1
        <5>2. ls[i].spend = Spend(ledger[i].tokens, GroupRate(key[i]))
          BY <1>9, <5>1
        <5>3. ledger[i].tokens \in Int /\ GroupRate(key[i]) \in Int \cup {None}
          BY <1>11, <5>1
        <5> QED BY <5>2, <5>3, SpendIs
      <4> QED BY <3>1, <4>1, AddedUp
    <3>7. /\ Total([i \in Rl |-> rs[i].spend.tokens]) = Total([i \in Ll |-> ls[i].spend.tokens])
          /\ Total([i \in Rl |-> rs[i].spend.cost]) = Total([i \in Ll |-> ls[i].spend.cost])
          /\ Total([i \in Rl |-> rs[i].spend.unpriced]) = Total([i \in Ll |-> ls[i].spend.unpriced])
      <4>1. "tokens" \in Figures /\ "cost" \in Figures /\ "unpriced" \in Figures
        BY DEF Figures
      <4>2. Total([i \in Rl |-> rs[i].spend["tokens"]]) = Total([i \in Ll |-> ls[i].spend["tokens"]])
        BY <3>4, <4>1
      <4>3. Total([i \in Rl |-> rs[i].spend["cost"]]) = Total([i \in Ll |-> ls[i].spend["cost"]])
        BY <3>4, <4>1
      <4>4. Total([i \in Rl |-> rs[i].spend["unpriced"]]) = Total([i \in Ll |-> ls[i].spend["unpriced"]])
        BY <3>4, <4>1
      <4> QED BY <4>2, <4>3, <4>4
    <3>8. AddedOver(rs, Rl) = AddedOver(ls, Ll)
      BY <3>5, <3>6, <3>7
    <3> QED BY <3>8 DEF Rl, Ll
  <2> HIDE DEF R, L
  <2> QED BY <2>1, <2>2, <2>3, <2>4
<1>14. Summarised(rs) = Summarised(ls)
  <2>1. /\ Regrouped(rs, "all") = Regrouped(ls, "all") /\ Regrouped(rs, "model") = Regrouped(ls, "model")
        /\ Regrouped(rs, "day") = Regrouped(ls, "day")
        /\ Regrouped(rs, "session") = Regrouped(ls, "session")
    BY <1>13
  <2> QED BY <2>1, Zenon DEF Summarised
<1>15. SummaryOfRollup = Summarised(rs) /\ SummaryOfLedger = Summarised(ls)
  BY Zenon DEF SummaryOfRollup, SummaryOfLedger, rs, ls, GroupSlices, RowSlices
<1> QED BY <1>14, <1>15

-----------------------------------------------------------------------------
(* Rows that go and rows that come *)

\* Every rank has its place: ranks are places in the order of the numbers.
LEMMA NthIsOne ==
  ASSUME NEW places \in SUBSET Nat, IsFiniteSet(places), NEW k \in 1..Cardinality(places)
  PROVE  Nth(places, k) \in places /\ Cardinality({j \in places : j < Nth(places, k)}) = k - 1
<1> DEFINE rank == [i \in places |-> <<i, 0>>]
           top == 1..Cardinality(places)
           f == [i \in places |-> Reads!Place(rank, i) + 1]
<1>1. Ranked(rank) /\ DOMAIN rank = places
  BY DEF Ranked
<1>2. \A i \in places : Reads!Place(rank, i) = Cardinality({j \in places : j < i})
  <2> TAKE i \in places
  <2>1. \A j \in places : Reads!Ahead(rank[j], rank[i]) <=> j < i
    BY DEF Reads!Ahead
  <2>2. {j \in places : Reads!Ahead(rank[j], rank[i])} = {j \in places : j < i}
    BY <2>1
  <2> HIDE DEF rank
  <2> QED BY <1>1, <2>2, SameCount DEF Reads!Place
<1>3. Cardinality(places) \in Nat
  BY FS_CardinalityType
<1>4. f \in Injection(places, top)
  <2>1. \A i \in places : Reads!Place(rank, i) \in Nat /\ Reads!Place(rank, i) < Cardinality(places)
    <3> HIDE DEF rank
    <3> QED BY <1>1, Placed
  <2>2. \A i, j \in places : i # j => Reads!Place(rank, i) # Reads!Place(rank, j)
    <3> HIDE DEF rank
    <3> QED BY <1>1, Placed
  <2> HIDE DEF rank
  <2>3. f \in [places -> top]
    BY <1>3, <2>1
  <2>4. \A i, j \in places : f[i] = f[j] => i = j
    BY <2>1, <2>2
  <2> HIDE DEF f, top
  <2> QED BY <2>3, <2>4 DEF Injection, IsInjective
<1>5. IsFiniteSet(top) /\ Cardinality(top) = Cardinality(places)
  BY <1>3, FS_Interval
<1>6. \E i \in places : f[i] = k
  <2>1. k \in top
    OBVIOUS
  <2>2. f \in Surjection(places, top)
    <3> HIDE DEF f, top
    <3> QED BY <1>4, <1>5, FS_Injection
  <2> HIDE DEF f, top
  <2> QED BY <2>1, <2>2 DEF Surjection
<1>7. PICK i \in places : f[i] = k
  BY <1>6
<1>8. Cardinality({j \in places : j < i}) = k - 1
  <2>1. Reads!Place(rank, i) \in Nat
    <3> HIDE DEF rank
    <3> QED BY <1>1, Placed
  <2> HIDE DEF rank
  <2> QED BY <1>2, <1>7, <2>1
<1> QED BY <1>8 DEF Nth

\* A list keeps elements of the kind that was asked for.
LEMMA KeptAmong ==
  ASSUME NEW T, NEW n \in Nat, NEW list, NEW places \in SUBSET (1..n), \A i \in places : list[i] \in T
  PROVE  Kept(list, places) \in Seq(T)
<1>1. IsFiniteSet(places) /\ Cardinality(places) \in Nat /\ places \in SUBSET Nat
  <2>1. IsFiniteSet(1..n)
    BY FS_Interval
  <2>2. IsFiniteSet(places)
    BY <2>1, FS_Subset
  <2> QED BY <2>2, FS_CardinalityType
<1>2. \A k \in 1..Cardinality(places) : list[Nth(places, k)] \in T
  BY <1>1, NthIsOne
<1> QED BY <1>1, <1>2 DEF Kept

\* What dedupe makes of the lines of a message has counts and a date.
LEMMA EntryTyped ==
  ASSUME NEW n, NEW lines, Lines(n, lines), NEW m \in MessagesOf(lines), NEW e,
         e = Collapsed(lines, LinesOf(lines, m))
  PROVE  /\ \A b \in Buckets : e.use[b] \in Int
         /\ e.stamp.wall \in Int /\ e.stamp.zone \in Int
         /\ e.msg = m
<1> DEFINE at == LinesOf(lines, m)
<1>1. at # {} /\ at \in SUBSET (1..n) /\ at \in SUBSET Nat
  <2>1. at # {}
    BY CollapsedIs
  <2>2. DOMAIN lines = 1..n
    BY DEF Lines
  <2>3. at \subseteq DOMAIN lines
    BY DEF LinesOf
  <2> HIDE DEF at
  <2> QED BY <2>1, <2>2, <2>3
<1>2. \A i \in at : /\ lines[i].use \in [Buckets -> Nat] /\ lines[i].stamp \in [wall : Nat, zone : Int]
  BY <1>1 DEF Lines, Records
<1>3. First(at) \in at /\ PairLine(lines, at) \in at /\ \A b \in Buckets : MaxUse(lines, at, b) \in Nat
  <2> HIDE DEF at
  <2> QED BY <1>1, FirstIs, PairLineIs, MaxUseIs
<1>4. e.stamp = lines[First(at)].stamp
  BY DEF Collapsed
<1>5. \A b \in Buckets : e.use[b] = IF b \in MaxBuckets THEN MaxUse(lines, at, b)
                                    ELSE lines[PairLine(lines, at)].use[b]
  BY DEF Collapsed
<1>6. e.msg = m
  BY CollapsedIs
<1> HIDE DEF at
<1>7. \A b \in Buckets : e.use[b] \in Int
  BY <1>2, <1>3, <1>5
<1> QED BY <1>2, <1>3, <1>4, <1>6, <1>7

\* A table of rows that can be counted and dated, by UTC.
Typed(led) ==
  /\ Countable(led) /\ led = [p \in DOMAIN led |-> led[p]]
  /\ \A p \in DOMAIN led : Dated(led[p])

LedgerTyped == Typed(ledger) /\ rowids \in Seq(DOMAIN ledger)

LEMMA UpsertedTyped ==
  ASSUME LedgerTyped, NEW s, NEW e, NEW b, e.use[b] \in Int, e.stamp.wall \in Int, e.stamp.zone \in Int
  PROVE  Upserted(s, e, b).tokens \in Int /\ Dated(Upserted(s, e, b))
<1> DEFINE new == Fresh(s, e, b)
           p == <<e.msg, b>>
<1>1. new.tokens \in Int /\ Dated(new)
  BY DEF Fresh, Dated, Canonical, Instant
<1>2. CASE p \notin DOMAIN ledger
  <2>1. Upserted(s, e, b) = new
    BY <1>2 DEF Upserted
  <2> HIDE DEF new
  <2> QED BY <1>1, <2>1
<1>3. CASE p \in DOMAIN ledger
  <2>1. ledger[p].tokens \in Int /\ Dated(ledger[p])
    BY <1>3 DEF LedgerTyped, Typed, Countable
  <2>2. /\ Upserted(s, e, b).tokens = IF new.tokens > ledger[p].tokens THEN new.tokens ELSE ledger[p].tokens
        /\ Upserted(s, e, b).at = IF Settles(e) THEN new.at ELSE ledger[p].at
    <3> HIDE DEF new
    <3>1. Upserted(s, e, b) =
            [session |-> ledger[p].session, agent |-> new.agent,
             model |-> IF Settles(e) THEN new.model ELSE ledger[p].model,
             tokens |-> IF new.tokens > ledger[p].tokens THEN new.tokens ELSE ledger[p].tokens,
             at |-> IF Settles(e) THEN new.at ELSE ledger[p].at]
      BY <1>3, Zenon DEF Upserted, new
    <3> QED BY <3>1
  <2> HIDE DEF new, p
  <2> QED BY <1>1, <2>1, <2>2 DEF Dated
<1> QED BY <1>2, <1>3

LEMMA BucketsFinite == IsFiniteSet(Buckets)
<1>1. IsFiniteSet({"input"})
  BY FS_Singleton
<1>2. IsFiniteSet({"input"} \cup {"output"})
  BY <1>1, FS_AddElement
<1>3. IsFiniteSet({"input"} \cup {"output"} \cup {"cache_read"})
  BY <1>2, FS_AddElement
<1>4. IsFiniteSet({"input"} \cup {"output"} \cup {"cache_read"} \cup {"cache_write_5m"})
  BY <1>3, FS_AddElement
<1>5. IsFiniteSet({"input"} \cup {"output"} \cup {"cache_read"} \cup {"cache_write_5m"}
                    \cup {"cache_write_1h"})
  BY <1>4, FS_AddElement
<1>6. Buckets = {"input"} \cup {"output"} \cup {"cache_read"} \cup {"cache_write_5m"}
                  \cup {"cache_write_1h"}
  BY DEF Buckets
<1> QED BY <1>5, <1>6

\* A write adds countable, dated rows and removes none.
LEMMA WrittenTyped ==
  ASSUME ReadBelow, LedgerTyped, NEW s \in Sessions, NEW new,
         new = Written(s, DedupeUsageByMessageId(OnDisk(s)))
  PROVE  Typed(new) /\ DOMAIN ledger \subseteq DOMAIN new
<1> DEFINE n == written[s]
           lines == OnDisk(s)
           entries == DedupeUsageByMessageId(lines)
           mine == {e \in entries : Owned(s, e)}
           ms == {e.msg : e \in mine}
           pairs == ms \X Buckets
           entry(m) == CHOOSE e \in mine : e.msg = m
<1>1. Lines(n, lines)
  BY PrefixIs DEF ReadBelow, OnDisk
<1>2. new = [p \in DOMAIN ledger \cup pairs |->
               IF p \in pairs THEN Upserted(s, entry(p[1]), p[2]) ELSE ledger[p]]
  BY Zenon DEF Written
<1> HIDE DEF lines, n
<1>3. ASSUME NEW e \in mine
      PROVE  /\ e.msg \in MessagesOf(lines)
             /\ \A b \in Buckets : e.use[b] \in Int
             /\ e.stamp.wall \in Int /\ e.stamp.zone \in Int
  <2>1. PICK m \in MessagesOf(lines) : e = Collapsed(lines, LinesOf(lines, m))
    BY <1>3 DEF DedupeUsageByMessageId
  <2> QED BY <1>1, <2>1, EntryTyped
<1>4. IsFiniteSet(pairs)
  <2>1. IsFiniteSet(MessagesOf(lines))
    <3> DEFINE f == [i \in 1..n |-> lines[i].msg]
    <3>1. IsFiniteSet(1..n) /\ DOMAIN lines = 1..n
      BY <1>1, FS_Interval DEF Lines
    <3>2. {f[i] : i \in 1..n} = MessagesOf(lines)
      BY <3>1 DEF MessagesOf
    <3>3. IsFiniteSet({f[i] : i \in 1..n})
      <4> HIDE DEF f
      <4> QED BY <3>1, ImageIsFinite
    <3> QED BY <3>2, <3>3
  <2>2. ms \subseteq MessagesOf(lines)
    <3> HIDE DEF mine
    <3> QED BY <1>3
  <2> HIDE DEF ms
  <2>3. IsFiniteSet(ms)
    BY <2>1, <2>2, FS_Subset
  <2> QED BY <2>3, BucketsFinite, FS_Product
<1>5. IsFiniteSet(DOMAIN ledger \cup pairs)
  <2> HIDE DEF pairs
  <2> QED BY <1>4, FS_Union DEF LedgerTyped, Typed, Countable
<1>6. ASSUME NEW p \in pairs
      PROVE  Upserted(s, entry(p[1]), p[2]).tokens \in Int /\ Dated(Upserted(s, entry(p[1]), p[2]))
  <2>1. entry(p[1]) \in mine /\ p[2] \in Buckets
    <3> HIDE DEF mine
    <3> QED OBVIOUS
  <2> HIDE DEF entry, mine
  <2> QED BY <1>3, <2>1, UpsertedTyped
<1> HIDE DEF pairs, entry
<1>7. DOMAIN new = DOMAIN ledger \cup pairs /\ new = [p \in DOMAIN new |-> new[p]]
  BY <1>2
<1>8. ASSUME NEW p \in DOMAIN new PROVE new[p].tokens \in Int /\ Dated(new[p])
  BY <1>2, <1>6, <1>7 DEF LedgerTyped, Typed, Countable
<1> QED BY <1>5, <1>7, <1>8 DEF Typed, Countable

-----------------------------------------------------------------------------
(* What is served *)

\* The memo holds what a scan of the ledger gives, until something moves.
MemoFresh ==
  cache # None /\ ~moved => cache.prices = prices /\ cache.summary = SummaryOfLedger

\* The invariant: a mirror that is exact and a memo that is right, over rows and
\* rates that can be counted, dated and ordered.
FreshBody == ReadBelow /\ LedgerTyped /\ PricesTyped /\ RollupExact /\ MemoFresh

\* Statements that write move the change counter under a memo.
Moves == moved' = (cache # None) /\ cache' = cache

LEMMA MovedMemo ==
  ASSUME Moves
  PROVE  MemoFresh'
BY Zenon DEF Moves, MemoFresh

LEMMA RollupIs == RollupExact <=> rollup = Exact(prices, ledger)
BY DEF RollupExact, Exact

LEMMA IngestKeepsFresh ==
  ASSUME FreshBody, NEW s \in Sessions, IngestSession(s)
  PROVE  LedgerTyped' /\ PricesTyped' /\ RollupExact' /\ MemoFresh'
<1> DEFINE lines == OnDisk(s)
           new == Written(s, DedupeUsageByMessageId(lines))
           order == InsertionOrder(lines, new)
<1>1. /\ ledger' = new /\ rowids' = rowids \o order /\ rollup' = Triggered(new)
      /\ prices' = prices /\ Moves
  BY Zenon DEF IngestSession, Moves
<1>2. Typed(new) /\ DOMAIN ledger \subseteq DOMAIN new
  <2>1. \E w : w = new
    OBVIOUS
  <2>2. PICK w : w = new
    BY <2>1
  <2>3. ReadBelow /\ LedgerTyped
    BY DEF FreshBody
  <2>4. w = Written(s, DedupeUsageByMessageId(OnDisk(s)))
    BY <2>2
  <2> HIDE DEF new
  <2>5. Typed(w) /\ DOMAIN ledger \subseteq DOMAIN w
    BY <2>3, <2>4, WrittenTyped
  <2> QED BY <2>2, <2>5
<1>3. order \in Seq(DOMAIN new)
  <2> HIDE DEF new
  <2> DEFINE firsts == {i \in DOMAIN lines : \A j \in 1..(i - 1) : lines[j].msg # lines[i].msg}
             five == <<"input", "output", "cache_read", "cache_write_5m", "cache_write_1h">>
             list == [k \in 1..(5 * Cardinality(firsts)) |->
                        <<lines[Nth(firsts, 1 + ((k - 1) \div 5))].msg, five[1 + ((k - 1) % 5)]>>]
             places == {k \in DOMAIN list : list[k] \in DOMAIN new \ DOMAIN ledger}
  <2>1. order = Kept(list, places)
    BY Zenon DEF InsertionOrder
  <2>2. Cardinality(firsts) \in Nat
    <3>1. Lines(written[s], lines)
      BY PrefixIs DEF FreshBody, ReadBelow, OnDisk
    <3>2. IsFiniteSet(DOMAIN lines)
      BY <3>1, FS_Interval DEF Lines
    <3>3. IsFiniteSet(firsts)
      <4> HIDE DEF lines
      <4> QED BY <3>2, FS_Subset
    <3> HIDE DEF firsts
    <3> QED BY <3>3, FS_CardinalityType
  <2>3. 5 * Cardinality(firsts) \in Nat
    <3> HIDE DEF firsts
    <3> QED BY <2>2
  <2>4. DOMAIN list = 1..(5 * Cardinality(firsts))
    BY Zenon
  <2> HIDE DEF list, firsts
  <2>5. places \in SUBSET (1..(5 * Cardinality(firsts))) /\ \A i \in places : list[i] \in DOMAIN new
    BY <2>4
  <2> HIDE DEF places
  <2>6. Kept(list, places) \in Seq(DOMAIN new)
    BY <2>3, <2>5, KeptAmong
  <2> QED BY <2>1, <2>6
<1> HIDE DEF new, order
<1>4. rowids' \in Seq(DOMAIN new)
  <2>1. rowids \in Seq(DOMAIN ledger)
    BY DEF FreshBody, LedgerTyped
  <2>2. rowids \in Seq(DOMAIN new)
    BY <1>2, <2>1
  <2> QED BY <1>1, <1>3, <2>2
<1>5. LedgerTyped'
  BY <1>1, <1>2, <1>4 DEF LedgerTyped
<1>6. PricesTyped'
  BY <1>1 DEF PricesTyped, FreshBody
<1>7. Triggered(new) = Exact(prices, new)
  <2>1. Countable(ledger) /\ ledger = [p \in DOMAIN ledger |-> ledger[p]] /\ rollup = Exact(prices, ledger)
    BY RollupIs DEF FreshBody, LedgerTyped, Typed
  <2>2. Countable(new) /\ new = [p \in DOMAIN new |-> new[p]]
    BY <1>2 DEF Typed
  <2> QED BY <1>2, <2>1, <2>2, TriggeredExactly
<1>8. RollupExact'
  BY <1>1, <1>7 DEF RollupExact, Exact
<1> QED BY <1>1, <1>5, <1>6, <1>8, MovedMemo

\* A rebuild leaves the other slices as they were.
LEMMA RecomputedElsewhere ==
  ASSUME NEW tbl, NEW roll, NEW model, NEW b
  PROVE  \A k : (k.model # model \/ k.bucket # b) =>
           /\ k \in DOMAIN Recompute(tbl, roll, model, b) <=> k \in DOMAIN roll
           /\ k \in DOMAIN roll => Recompute(tbl, roll, model, b)[k] = roll[k]
<1> DEFINE kept == {k \in DOMAIN roll : k.model # model \/ k.bucket # b}
           slice == {p \in DOMAIN ledger : ledger[p].model = model /\ p[2] = b}
           rebuilt == Grouped(tbl, ledger, slice)
<1>1. Recompute(tbl, roll, model, b) =
        [k \in kept \cup DOMAIN rebuilt |-> IF k \in kept THEN roll[k] ELSE rebuilt[k]]
  BY Zenon DEF Recompute
<1>2. DOMAIN rebuilt = {GroupKey(tbl, p, ledger[p]) : p \in slice}
  BY Zenon DEF Grouped
<1>3. \A k \in DOMAIN rebuilt : k.model = model /\ k.bucket = b
  BY <1>2, KeyFields
<1> HIDE DEF rebuilt
<1> QED BY <1>1, <1>3

LEMMA RateKeyIs ==
  ASSUME NEW slice, NEW st
  PROVE  /\ RateKey(slice, st).model = slice[1] /\ RateKey(slice, st).bucket = slice[2]
         /\ RateKey(slice, st).from = st
         /\ RateKey(slice, st) = RateKey(<<slice[1], slice[2]>>, st)
BY DEF RateKey

LEMMA RepricedKeepsFresh ==
  ASSUME FreshBody, NEW tbl, NEW roll, Repriced(tbl, roll),
         \A k \in DOMAIN tbl : /\ tbl[k] \in Int /\ k.from.wall \in Int
                               /\ k = RateKey(<<k.model, k.bucket>>, [wall |-> k.from.wall, zone |-> 0]),
         roll = Exact(tbl, ledger)
  PROVE  LedgerTyped' /\ PricesTyped' /\ RollupExact' /\ MemoFresh'
<1>1. prices' = tbl /\ rollup' = roll /\ ledger' = ledger /\ rowids' = rowids /\ Moves
  BY Zenon DEF Repriced, Moves
<1>2. PricesTyped'
  BY <1>1 DEF PricesTyped
<1>3. LedgerTyped'
  BY <1>1 DEF FreshBody, LedgerTyped
<1>4. RollupExact'
  BY <1>1 DEF RollupExact, Exact
<1> QED BY <1>1, <1>2, <1>3, <1>4, MovedMemo

LEMMA CanonicalIs ==
  ASSUME NEW st \in Stamps
  PROVE  Canonical(st) = [wall |-> Canonical(st).wall, zone |-> 0] /\ Canonical(st).wall \in Int
BY LedgerAssumption DEF Canonical, Instant

LEMMA DeleteKeepsFresh ==
  ASSUME FreshBody, NEW slice, NEW st, DeleteRate(slice, st)
  PROVE  LedgerTyped' /\ PricesTyped' /\ RollupExact' /\ MemoFresh'
<1> DEFINE key == RateKey(slice, Canonical(st))
           tbl == [k \in DOMAIN prices \ {key} |-> prices[k]]
           roll == Recompute(tbl, rollup, slice[1], slice[2])
<1>1. Repriced(tbl, roll)
  BY Zenon DEF DeleteRate
<1>2. key.model = slice[1] /\ key.bucket = slice[2]
  BY RateKeyIs
<1> HIDE DEF key
<1>3. DOMAIN tbl = DOMAIN prices \ {key} /\ \A k \in DOMAIN tbl : tbl[k] = prices[k]
  OBVIOUS
<1> HIDE DEF tbl
<1>4. SameElsewhere(tbl, prices, slice[1], slice[2])
  BY <1>2, <1>3 DEF SameElsewhere
<1>5. rollup = [k \in Keys(prices, ledger) |-> CountOf(prices, ledger, k)]
  BY RollupIs, LooseExact DEF FreshBody, Loose
<1>6. roll = Exact(tbl, ledger)
  BY <1>4, <1>5, RecomputedExactly
<1>7. \A k \in DOMAIN tbl :
        /\ tbl[k] \in Int /\ k.from.wall \in Int
        /\ k = RateKey(<<k.model, k.bucket>>, [wall |-> k.from.wall, zone |-> 0])
  BY <1>3 DEF FreshBody, PricesTyped
<1> HIDE DEF roll
<1> QED BY <1>1, <1>6, <1>7, RepricedKeepsFresh

LEMMA SetKeepsFresh ==
  ASSUME FreshBody, NEW slice, NEW st, NEW rate \in NewRates, SetRate(slice, st, rate)
  PROVE  LedgerTyped' /\ PricesTyped' /\ RollupExact' /\ MemoFresh'
<1> DEFINE key == RateKey(slice, Canonical(st))
           tbl == [prices EXCEPT ![key] = rate]
<1>1. Repriced(tbl, rollup) /\ key \in DOMAIN prices
  BY Zenon DEF SetRate
<1> HIDE DEF key
<1>2. DOMAIN tbl = DOMAIN prices /\ \A k \in DOMAIN tbl : tbl[k] = IF k = key THEN rate ELSE prices[k]
  OBVIOUS
<1> HIDE DEF tbl
<1>3. \A k \in DOMAIN tbl :
        /\ tbl[k] \in Int /\ k.from.wall \in Int
        /\ k = RateKey(<<k.model, k.bucket>>, [wall |-> k.from.wall, zone |-> 0])
  BY <1>2, LedgerAssumption DEF FreshBody, PricesTyped
<1>4. \A p, row : GroupKey(tbl, p, row) = GroupKey(prices, p, row)
  <2>1. \A model, b : RatesOf(tbl, model, b) = RatesOf(prices, model, b)
    BY <1>2 DEF RatesOf
  <2>2. \A p, row : WinningDate(tbl, p, row) = WinningDate(prices, p, row)
    BY <2>1, Zenon DEF WinningDate
  <2> QED BY <2>2, Zenon DEF GroupKey
<1>5. Keys(tbl, ledger) = Keys(prices, ledger) /\ \A k : CountOf(tbl, ledger, k) = CountOf(prices, ledger, k)
  <2>1. \A k : Members(tbl, ledger, k) = Members(prices, ledger, k)
    BY <1>4 DEF Members
  <2> QED BY <1>4, <2>1 DEF Keys, CountOf
<1>6. rollup = Exact(tbl, ledger)
  <2>1. rollup = [k \in Keys(prices, ledger) |-> CountOf(prices, ledger, k)]
    BY RollupIs, LooseExact DEF FreshBody, Loose
  <2>2. rollup = [k \in Keys(tbl, ledger) |-> CountOf(tbl, ledger, k)]
    BY <1>5, <2>1
  <2> QED BY <2>2, LooseExact DEF Loose
<1> QED BY <1>1, <1>3, <1>6, RepricedKeepsFresh

\* The first of the two rebuilds may group by the spelling the row came in; the
\* second does not read the slice it left.
LEMMA InsertKeepsFresh ==
  ASSUME FreshBody, NEW slice, NEW st \in Stamps, NEW rate \in NewRates, InsertRate(slice, st, rate)
  PROVE  LedgerTyped' /\ PricesTyped' /\ RollupExact' /\ MemoFresh'
<1> DEFINE raw == RateKey(slice, st)
           key == RateKey(slice, Canonical(st))
           inRaw == [k \in DOMAIN prices \cup {raw} |-> IF k = raw THEN rate ELSE prices[k]]
           inUtc == [k \in DOMAIN prices \cup {key} |-> IF k = key THEN rate ELSE prices[k]]
           Once(tbl, roll) == Recompute(tbl, roll, slice[1], slice[2])
<1>1. PICK tbl : Repriced(inUtc, Once(inUtc, Once(tbl, rollup)))
  <2>1. \/ Repriced(inUtc, Once(inUtc, Once(inRaw, rollup)))
        \/ Repriced(inUtc, Once(inUtc, Once(inUtc, rollup)))
    BY Zenon DEF InsertRate
  <2> HIDE DEF inRaw, inUtc, Once
  <2> QED BY <2>1
<1>2. /\ key.model = slice[1] /\ key.bucket = slice[2] /\ key.from.wall \in Int
      /\ key = RateKey(<<key.model, key.bucket>>, [wall |-> key.from.wall, zone |-> 0])
  <2>1. Canonical(st) = [wall |-> Canonical(st).wall, zone |-> 0] /\ Canonical(st).wall \in Int
    BY CanonicalIs
  <2>2. key.model = slice[1] /\ key.bucket = slice[2] /\ key.from = Canonical(st)
    BY RateKeyIs
  <2>3. key = RateKey(<<slice[1], slice[2]>>, Canonical(st))
    BY RateKeyIs
  <2> HIDE DEF key
  <2> QED BY <2>1, <2>2, <2>3
<1> HIDE DEF key
<1>3. /\ DOMAIN inUtc = DOMAIN prices \cup {key}
      /\ \A k \in DOMAIN inUtc : inUtc[k] = IF k = key THEN rate ELSE prices[k]
  OBVIOUS
<1> HIDE DEF inUtc
<1>4. SameElsewhere(inUtc, prices, slice[1], slice[2])
  BY <1>2, <1>3 DEF SameElsewhere
<1>5. rollup = [k \in Keys(prices, ledger) |-> CountOf(prices, ledger, k)]
  BY RollupIs, LooseExact DEF FreshBody, Loose
<1>6. Once(inUtc, Once(tbl, rollup)) = Exact(inUtc, ledger)
  <2>1. \A k : (k.model # slice[1] \/ k.bucket # slice[2]) =>
          /\ k \in DOMAIN Once(tbl, rollup) <=> k \in Keys(prices, ledger)
          /\ k \in DOMAIN Once(tbl, rollup) => Once(tbl, rollup)[k] = CountOf(prices, ledger, k)
    BY <1>5, RecomputedElsewhere
  <2> DEFINE o == Once(tbl, rollup)
  <2> HIDE DEF o
  <2>2. \A k : (k.model # slice[1] \/ k.bucket # slice[2]) =>
          /\ k \in DOMAIN o <=> k \in Keys(prices, ledger)
          /\ k \in DOMAIN o => o[k] = CountOf(prices, ledger, k)
    BY <2>1 DEF o
  <2>3. Recompute(inUtc, o, slice[1], slice[2]) = Exact(inUtc, ledger)
    BY <1>4, <2>2, RecomputedExactly
  <2> QED BY <2>3 DEF o
<1>7. \A k \in DOMAIN inUtc :
        /\ inUtc[k] \in Int /\ k.from.wall \in Int
        /\ k = RateKey(<<k.model, k.bucket>>, [wall |-> k.from.wall, zone |-> 0])
  BY <1>2, <1>3, LedgerAssumption DEF FreshBody, PricesTyped
<1> HIDE DEF Once
<1> QED BY <1>1, <1>6, <1>7, RepricedKeepsFresh

LEMMA PruneKeepsFresh ==
  ASSUME FreshBody, NEW cutoff, Prune(cutoff)
  PROVE  LedgerTyped' /\ PricesTyped' /\ RollupExact' /\ MemoFresh'
<1> DEFINE gone == ExpiredWindow(cutoff)
           stays == {i \in DOMAIN rowids : rowids[i] \notin gone}
<1>1. /\ ledger' = Left(gone) /\ rollup' = Pruned(gone) /\ rowids' = Kept(rowids, stays)
      /\ prices' = prices /\ Moves
  BY Zenon DEF Prune, Moves, Left, Pruned
<1>2. rowids \in Seq(DOMAIN ledger)
  BY DEF FreshBody, LedgerTyped
<1>3. DOMAIN rowids = 1..Len(rowids) /\ Len(rowids) \in Nat
  BY <1>2, LenProperties
<1>4. gone \in SUBSET DOMAIN ledger
  <2>1. \A i \in DOMAIN rowids : rowids[i] \in DOMAIN ledger
    BY <1>2
  <2> QED BY <2>1 DEF ExpiredWindow
<1> HIDE DEF gone
<1>5. Kept(rowids, stays) \in Seq(DOMAIN ledger \ gone)
  <2>1. \A i \in stays : rowids[i] \in DOMAIN ledger \ gone
    BY <1>2
  <2>2. stays \in SUBSET (1..Len(rowids))
    BY <1>3
  <2> HIDE DEF stays
  <2> QED BY <1>3, <2>1, <2>2, KeptAmong
<1> HIDE DEF stays
<1>6. Pruned(gone) = Exact(prices, Left(gone)) /\ Countable(Left(gone))
  <2>1. Countable(ledger) /\ ledger = [p \in DOMAIN ledger |-> ledger[p]] /\ rollup = Exact(prices, ledger)
    BY RollupIs DEF FreshBody, LedgerTyped, Typed
  <2> QED BY <1>4, <2>1, PrunedExactly
<1>7. /\ DOMAIN Left(gone) = DOMAIN ledger \ gone
      /\ Left(gone) = [p \in DOMAIN Left(gone) |-> Left(gone)[p]]
      /\ \A p \in DOMAIN Left(gone) : Dated(Left(gone)[p])
  BY DEF Left, FreshBody, LedgerTyped, Typed
<1>8. Typed(Left(gone)) /\ Kept(rowids, stays) \in Seq(DOMAIN Left(gone))
  BY <1>5, <1>6, <1>7 DEF Typed
<1>9. LedgerTyped'
  BY <1>1, <1>8 DEF LedgerTyped
<1>10. PricesTyped'
  BY <1>1 DEF PricesTyped, FreshBody
<1>11. RollupExact'
  BY <1>1, <1>6 DEF RollupExact, Exact
<1> QED BY <1>1, <1>9, <1>10, <1>11, MovedMemo

\* Whether it comes from the memo or the rollup, the answer is the scan's.
LEMMA BodyIsFresh ==
  ASSUME FreshBody
  PROVE  SummaryOfRollup = SummaryOfLedger /\ Answer = SummaryOfLedger
<1>1. SummaryOfRollup = SummaryOfLedger
  BY RollupIs, SummariesAgree DEF FreshBody, LedgerTyped, Typed
<1>2. Hit => cache.summary = SummaryOfLedger
  BY Zenon DEF Hit, FreshBody, MemoFresh
<1> QED BY <1>1, <1>2, Zenon DEF Answer

LEMMA StandsFresh ==
  ASSUME FreshBody, UNCHANGED <<prices, ledger, rowids, rollup>>
  PROVE  LedgerTyped' /\ PricesTyped' /\ RollupExact' /\ SummaryOfLedger' = SummaryOfLedger
<1>1. LedgerTyped'
  BY DEF LedgerTyped, FreshBody
<1>2. PricesTyped'
  BY DEF PricesTyped, FreshBody
<1>3. RollupExact'
  BY DEF RollupExact, FreshBody
<1>4. SummaryOfLedger' = SummaryOfLedger
  BY DEF SummaryOfLedger
<1> QED BY <1>1, <1>2, <1>3, <1>4

LEMMA ReadKeepsFresh ==
  ASSUME FreshBody, ReadSummary \/ Restart
  PROVE  LedgerTyped' /\ PricesTyped' /\ RollupExact' /\ MemoFresh'
<1>1. UNCHANGED <<prices, ledger, rowids, rollup>>
  BY DEF ReadSummary, Restart
<1>2. LedgerTyped' /\ PricesTyped' /\ RollupExact' /\ SummaryOfLedger' = SummaryOfLedger
  BY <1>1, StandsFresh
<1>3. cache' # None => cache'.prices = prices /\ cache'.summary = SummaryOfLedger
  <2>1. CASE ReadSummary
    <3>1. cache' = [prices |-> prices, summary |-> SummaryOfLedger]
      BY <2>1, BodyIsFresh DEF ReadSummary
    <3> QED BY <3>1
  <2>2. CASE Restart
    BY <2>2 DEF Restart
  <2> QED BY <2>1, <2>2
<1>4. MemoFresh'
  BY <1>1, <1>2, <1>3, Zenon DEF MemoFresh
<1> QED BY <1>2, <1>4

LEMMA BeginsFresh ==
  ASSUME Init
  PROVE  FreshBody
<1>1. ledger = << >> /\ rollup = << >> /\ rowids = << >> /\ cache = None /\ prices = Seed
  BY DEF Init
<1>2. DOMAIN ledger = {} /\ DOMAIN rollup = {} /\ ledger = [p \in {} |-> ledger[p]] /\ rollup = [k \in {} |-> rollup[k]]
  BY <1>1
<1>3. ReadBelow
  <2>1. script \in Scripts /\ \A s \in Sessions : Len(script[s]) \in Nat
    BY LedgerAssumption DEF Init
  <2> QED BY <2>1 DEF Init, ReadBelow
<1>4. LedgerTyped
  <2>1. IsFiniteSet({}) /\ rowids \in Seq({})
    BY <1>1, FS_EmptySet
  <2> QED BY <1>2, <2>1 DEF LedgerTyped, Typed, Countable
<1>5. PricesTyped
  <2> DEFINE floor == [wall |-> 0, zone |-> 0]
             KeysOf == {RateKey(slice, floor) : slice \in Models \X Buckets}
  <2>1. prices = [k \in KeysOf |-> 1]
    BY <1>1, Zenon DEF Seed
  <2>2. \A k \in KeysOf : k = RateKey(<<k.model, k.bucket>>, floor) /\ k.from = floor
    BY DEF RateKey
  <2>3. DOMAIN prices = KeysOf /\ \A k \in KeysOf : prices[k] = 1
    <3> HIDE DEF KeysOf
    <3> QED BY <2>1
  <2>4. floor.wall = 0 /\ floor = [wall |-> floor.wall, zone |-> 0]
    OBVIOUS
  <2> HIDE DEF KeysOf, floor
  <2>5. ASSUME NEW k \in DOMAIN prices
        PROVE  /\ prices[k] \in Int /\ k.from.wall \in Int
               /\ k = RateKey(<<k.model, k.bucket>>, [wall |-> k.from.wall, zone |-> 0])
    <3>1. k = RateKey(<<k.model, k.bucket>>, floor) /\ k.from = floor /\ prices[k] = 1
      BY <2>2, <2>3
    <3>2. k.from.wall = floor.wall
      BY <3>1
    <3>3. k = RateKey(<<k.model, k.bucket>>, [wall |-> k.from.wall, zone |-> 0])
      BY <2>4, <3>1, <3>2, Zenon
    <3> QED BY <2>4, <3>1, <3>2, <3>3
  <2> QED BY <2>5 DEF PricesTyped
<1>6. RollupExact
  <2>1. Keys(prices, ledger) = {}
    BY <1>2 DEF Keys
  <2>2. rollup = [k \in Keys(prices, ledger) |-> CountOf(prices, ledger, k)]
    BY <1>2, <2>1
  <2> QED BY <2>2, RollupIs, LooseExact DEF Loose
<1>7. MemoFresh
  BY <1>1, Zenon DEF MemoFresh
<1> QED BY <1>3, <1>4, <1>5, <1>6, <1>7 DEF FreshBody

FreshInv == subject = "ledger" => FreshBody

\* After every ingest, retention run and edit of a price, in whatever order the
\* triggers rewrite a date and rebuild a slice, the rollup is the grouped scan
\* of the ledger, and the cost summary that is answered, memoised or not, is
\* what pricing the ledger row by row would give (the usage and pricing triggers
\* of schema.ts, pruneTable, getCostSummary and its state key).
THEOREM ServedExactly == IngestedSpec => []ServedFresh
<1>1. IngestedInit => FreshInv
  BY BeginsFresh DEF IngestedInit, FreshInv
<1>2. FreshInv /\ [IngestedNext]_all => FreshInv'
  <2> SUFFICES ASSUME FreshInv, [IngestedNext]_all, subject' = "ledger"
               PROVE  FreshBody'
    BY DEF FreshInv
  <2>1. subject = "ledger" /\ (Next \/ UNCHANGED vars)
    BY DEF IngestedNext, all
  <2>2. FreshBody
    BY <2>1 DEF FreshInv
  <2> DEFINE Rest == LedgerTyped' /\ PricesTyped' /\ RollupExact' /\ MemoFresh'
  <2>3. ASSUME UNCHANGED <<script, written, readTo>> PROVE ReadBelow'
    BY <2>2, <2>3 DEF ReadBelow, FreshBody
  <2>4. ASSUME UNCHANGED <<prices, ledger, rowids, rollup, cache, moved>> PROVE Rest
    <3>1. LedgerTyped' /\ PricesTyped' /\ RollupExact' /\ SummaryOfLedger' = SummaryOfLedger
      BY <2>2, <2>4, StandsFresh
    <3>2. MemoFresh'
      <4>1. MemoFresh /\ prices' = prices /\ cache' = cache /\ moved' = moved
        BY <2>2, <2>4 DEF FreshBody
      <4> QED BY <3>1, <4>1, Zenon DEF MemoFresh
    <3> QED BY <3>1, <3>2
  <2>5. ASSUME NEW s \in Sessions, AppendRecord(s) PROVE ReadBelow' /\ Rest
    <3>1. written[s] \in Nat /\ Len(script[s]) \in Nat
      BY <2>2, LedgerAssumption DEF ReadBelow, FreshBody
    <3>2. ReadBelow'
      BY <2>2, <2>5, <3>1 DEF AppendRecord, ReadBelow, FreshBody
    <3>3. UNCHANGED <<prices, ledger, rowids, rollup, cache, moved>>
      BY <2>5 DEF AppendRecord
    <3> QED BY <2>4, <3>2, <3>3
  <2>6. ASSUME NEW s \in Sessions, IngestSession(s) PROVE ReadBelow' /\ Rest
    <3>1. written[s] \in Nat /\ readTo' = [readTo EXCEPT ![s] = written[s]] /\ UNCHANGED <<script, written>>
      BY <2>2, <2>6 DEF IngestSession, ReadBelow, FreshBody
    <3>2. ReadBelow'
      BY <2>2, <3>1 DEF ReadBelow, FreshBody
    <3> QED BY <2>2, <2>6, <3>2, IngestKeepsFresh
  <2>7. ASSUME NEW slice, NEW st, DeleteRate(slice, st) PROVE ReadBelow' /\ Rest
    <3>1. UNCHANGED <<script, written, readTo>>
      BY <2>7 DEF DeleteRate, Repriced
    <3> QED BY <2>2, <2>3, <2>7, <3>1, DeleteKeepsFresh
  <2>8. ASSUME NEW slice, NEW st \in Stamps, NEW rate \in NewRates,
               InsertRate(slice, st, rate) \/ SetRate(slice, st, rate)
        PROVE  ReadBelow' /\ Rest
    <3>1. UNCHANGED <<script, written, readTo>>
      BY <2>8 DEF InsertRate, SetRate, Repriced
    <3> QED BY <2>2, <2>3, <2>8, <3>1, InsertKeepsFresh, SetKeepsFresh
  <2>9. ASSUME NEW cutoff, Prune(cutoff) PROVE ReadBelow' /\ Rest
    <3>1. UNCHANGED <<script, written, readTo>>
      BY <2>9 DEF Prune
    <3> QED BY <2>2, <2>3, <2>9, <3>1, PruneKeepsFresh
  <2>10. ASSUME ReadSummary \/ Restart PROVE ReadBelow' /\ Rest
    <3>1. UNCHANGED <<script, written, readTo>>
      BY <2>10 DEF ReadSummary, Restart
    <3> QED BY <2>2, <2>3, <2>10, <3>1, ReadKeepsFresh
  <2>11. ASSUME UNCHANGED vars PROVE ReadBelow' /\ Rest
    BY <2>3, <2>4, <2>11 DEF vars
  <2>12. ReadBelow' /\ Rest
    <3> HIDE DEF Rest
    <3> QED BY <2>1, <2>5, <2>6, <2>7, <2>8, <2>9, <2>10, <2>11 DEF Next
  <2> QED BY <2>12 DEF FreshBody
<1>3. FreshInv => ServedFresh
  BY BodyIsFresh DEF FreshInv, ServedFresh, SummaryFresh, FreshBody
<1> QED BY <1>1, <1>2, <1>3, PTL DEF IngestedSpec

-----------------------------------------------------------------------------
(* Lists without repetition *)

Held(list) == {list[i] : i \in DOMAIN list}
Once(list) == \A i, j \in DOMAIN list : list[i] = list[j] => i = j
IsList(list, S) == list \in Seq(S) /\ Once(list)

LEMMA UpToIs ==
  ASSUME NEW n \in Nat
  PROVE  IsFiniteSet(1..n) /\ Cardinality(1..n) = n
  BY FS_Interval

\* What a filter leaves: each element of the places kept, once.
LEMMA SameCardinalityOfTree == \A S : Tree!Cardinality(S) = Cardinality(S)
  BY DEF Tree!Cardinality, Cardinality

LEMMA KeptAre ==
  ASSUME NEW T, NEW list \in Seq(T), Once(list), NEW places \in SUBSET DOMAIN list
  PROVE  /\ IsList(Kept(list, places), {list[i] : i \in places})
         /\ \A i \in places : \E k \in DOMAIN Kept(list, places) : Kept(list, places)[k] = list[i]
<1>1. /\ IsFiniteSet(places) /\ Cardinality(places) \in Nat /\ places \in SUBSET Nat
      /\ places \in SUBSET (1..Len(list))
  <2>1. places \in SUBSET (1..Len(list)) /\ IsFiniteSet(1..Len(list))
    BY FS_Interval
  <2>2. IsFiniteSet(places)
    BY <2>1, FS_Subset
  <2> QED BY <2>1, <2>2, FS_CardinalityType
<1> DEFINE ranks == 1..Cardinality(places)
           nth == [k \in ranks |-> Nth(places, k)]
<1>2. \A k \in ranks : Nth(places, k) \in places /\ Cardinality({j \in places : j < Nth(places, k)}) = k - 1
  BY <1>1, NthIsOne
<1>3. nth \in Injection(ranks, places)
  <2>1. nth \in [ranks -> places]
    BY <1>2
  <2>2. ASSUME NEW i \in ranks, NEW k \in ranks, nth[i] = nth[k] PROVE i = k
    <3>1. Cardinality({j \in places : j < Nth(places, i)}) = Cardinality({j \in places : j < Nth(places, k)})
      BY <2>2
    <3>2. i - 1 = k - 1
      BY <1>2, <3>1
    <3>3. i \in Int /\ k \in Int
      BY <1>1
    <3> QED BY <3>2, <3>3
  <2> HIDE DEF nth, ranks
  <2> QED BY <2>1, <2>2 DEF Injection, IsInjective
<1>4. nth \in Surjection(ranks, places)
  <2>1. IsFiniteSet(ranks) /\ Cardinality(ranks) = Cardinality(places)
    BY <1>1, FS_Interval
  <2> HIDE DEF nth, ranks
  <2> QED BY <1>1, <1>3, <2>1, FS_Injection
<1>5. \A i \in places : \E k \in ranks : nth[k] = i
  <2> HIDE DEF nth, ranks
  <2> QED BY <1>4 DEF Surjection
<1> DEFINE kept == Kept(list, places)
<1>6. kept = [k \in ranks |-> list[nth[k]]]
  BY DEF Kept
<1>7. \A k \in ranks : nth[k] \in places
  BY <1>2
<1> HIDE DEF kept, nth
<1>8. kept \in Seq({list[i] : i \in places}) /\ DOMAIN kept = ranks
  BY <1>1, <1>6, <1>7
<1>9. Once(kept)
  <2> SUFFICES ASSUME NEW i \in ranks, NEW k \in ranks, kept[i] = kept[k] PROVE i = k
    BY <1>8 DEF Once
  <2>1. list[nth[i]] = list[nth[k]] /\ nth[i] \in DOMAIN list /\ nth[k] \in DOMAIN list
    BY <1>6, <1>7
  <2>2. nth[i] = nth[k]
    BY <2>1 DEF Once
  <2> HIDE DEF ranks
  <2> QED BY <1>3, <2>2 DEF Injection, IsInjective
<1>10. \A i \in places : \E k \in DOMAIN kept : kept[k] = list[i]
  BY <1>5, <1>6, <1>8
<1> QED BY <1>8, <1>9, <1>10 DEF kept, IsList

LEMMA ListingIs ==
  ASSUME NEW T, NEW list, IsList(list, T), NEW S
  PROVE  IsList(Tree!Listing(list, S), S \cap Held(list)) /\ Held(Tree!Listing(list, S)) = S \cap Held(list)
<1> DEFINE places == {i \in DOMAIN list : list[i] \in S}
<1>1. PICK kept : kept = Kept(list, places)
  OBVIOUS
<1>2. Tree!Listing(list, S) = kept
  <2>1. \A k : Tree!Nth(places, k) = Nth(places, k)
    BY SameCardinalityOfTree DEF Tree!Nth, Nth
  <2>2. Tree!Kept(list, places) = Kept(list, places)
    BY <2>1, SameCardinalityOfTree DEF Tree!Kept, Kept
  <2> QED BY <1>1, <2>2 DEF Tree!Listing
<1>3. {list[i] : i \in places} = S \cap Held(list)
  BY DEF Held
<1>4. /\ IsList(kept, {list[i] : i \in places})
      /\ \A i \in places : \E k \in DOMAIN kept : kept[k] = list[i]
  <2>1. places \in SUBSET DOMAIN list /\ list \in Seq(T) /\ Once(list)
    BY DEF IsList
  <2> HIDE DEF places
  <2> QED BY <1>1, <2>1, KeptAre
<1>5. \A k \in DOMAIN kept : kept[k] \in S \cap Held(list)
  <2>1. kept \in Seq(S \cap Held(list))
    BY <1>3, <1>4 DEF IsList
  <2> QED BY <2>1
<1>6. Held(kept) = S \cap Held(list)
  BY <1>4, <1>5 DEF Held
<1> QED BY <1>2, <1>3, <1>4, <1>6

LEMMA Joined ==
  ASSUME NEW T, NEW s, NEW t, IsList(s, T), IsList(t, T), Held(s) \cap Held(t) = {}
  PROVE  /\ IsList(s \o t, T) /\ Held(s \o t) = Held(s) \cup Held(t)
         /\ Len(s \o t) = Len(s) + Len(t)
         /\ \A i \in DOMAIN s : i \in DOMAIN (s \o t) /\ (s \o t)[i] = s[i]
         /\ \A i \in DOMAIN (s \o t) : i \notin DOMAIN s => (s \o t)[i] \in Held(t)
<1>1. /\ s \in Seq(T) /\ t \in Seq(T) /\ Len(s) \in Nat /\ Len(t) \in Nat
      /\ DOMAIN s = 1..Len(s) /\ DOMAIN t = 1..Len(t)
  BY DEF IsList
<1>2. PICK u : u = s \o t
  OBVIOUS
<1>3. /\ u \in Seq(T) /\ Len(u) = Len(s) + Len(t) /\ DOMAIN u = 1..(Len(s) + Len(t))
      /\ \A i \in 1..(Len(s) + Len(t)) : u[i] = IF i <= Len(s) THEN s[i] ELSE t[i - Len(s)]
  BY <1>1, <1>2
<1>4. \A i \in 1..(Len(s) + Len(t)) :
        \/ i \in DOMAIN s /\ u[i] = s[i]
        \/ i \notin DOMAIN s /\ i - Len(s) \in DOMAIN t /\ u[i] = t[i - Len(s)]
  BY <1>1, <1>3
<1>5. ASSUME NEW i \in DOMAIN u, NEW j \in DOMAIN u, u[i] = u[j] PROVE i = j
  <2>1. CASE i \in DOMAIN s /\ j \in DOMAIN s
    BY <1>3, <1>4, <1>5, <2>1 DEF IsList, Once
  <2>2. CASE i \notin DOMAIN s /\ j \notin DOMAIN s
    <3>1. i - Len(s) = j - Len(s)
      BY <1>3, <1>4, <1>5, <2>2 DEF IsList, Once
    <3> QED BY <1>1, <1>3, <3>1
  <2>0. \A k \in DOMAIN u : IF k \in DOMAIN s THEN u[k] \in Held(s) ELSE u[k] \in Held(t)
    BY <1>3, <1>4 DEF Held
  <2>3. ~ (i \in DOMAIN s /\ j \notin DOMAIN s)
    BY <1>5, <2>0
  <2>4. ~ (i \notin DOMAIN s /\ j \in DOMAIN s)
    BY <1>5, <2>0
  <2> QED BY <2>1, <2>2, <2>3, <2>4
<1>6. Held(u) = Held(s) \cup Held(t)
  <2>1. \A e \in Held(u) : e \in Held(s) \cup Held(t)
    BY <1>3, <1>4 DEF Held
  <2>2. \A i \in DOMAIN s : i \in DOMAIN u /\ u[i] = s[i]
    BY <1>1, <1>3
  <2>3. \A i \in DOMAIN t : i + Len(s) \in DOMAIN u /\ u[i + Len(s)] = t[i]
    BY <1>1, <1>3
  <2> QED BY <2>1, <2>2, <2>3 DEF Held
<1>7. \A i \in DOMAIN s : i \in DOMAIN u /\ u[i] = s[i]
  BY <1>1, <1>3
<1>8. \A i \in DOMAIN u : i \notin DOMAIN s => u[i] \in Held(t)
  BY <1>3, <1>4 DEF Held
<1> QED BY <1>2, <1>3, <1>5, <1>6, <1>7, <1>8 DEF IsList, Once

-----------------------------------------------------------------------------
(* The order in which a reading's agents are stored *)

\* A queue that has taken k of its members: who hangs on one of these is in it,
\* and who is in it comes after the one it hangs on.
IsQueue(ids, parent, s, k) ==
  /\ IsList(s, ids)
  /\ \A i \in DOMAIN s : parent[s[i]] \in ids =>
       \E j \in DOMAIN s : j < i /\ j <= k /\ s[j] = parent[s[i]]
  /\ \A a \in ids : parent[a] \notin ids => a \in Held(s)
  /\ \A j \in DOMAIN s : j <= k => \A a \in ids : parent[a] = s[j] => a \in Held(s)

LEMMA QueueBegins ==
  ASSUME NEW input, NEW ids, IsList(input, ids), ids = Held(input), NEW parent
  PROVE  IsQueue(ids, parent, Tree!Listing(input, {a \in ids : parent[a] \notin ids}), 0)
<1> DEFINE S == {a \in ids : parent[a] \notin ids}
<1>1. PICK s : s = Tree!Listing(input, S)
  OBVIOUS
<1>2. IsList(s, S \cap Held(input)) /\ Held(s) = S \cap Held(input)
  <2> HIDE DEF S
  <2> QED BY <1>1, ListingIs
<1>3. S \cap Held(input) = S
  OBVIOUS
<1>4. IsList(s, ids) /\ DOMAIN s = 1..Len(s) /\ Len(s) \in Nat
  BY <1>2, <1>3 DEF IsList
<1>5. \A i \in DOMAIN s : s[i] \in S
  BY <1>2, <1>3 DEF Held
<1>6. \A a \in ids : parent[a] \notin ids => a \in Held(s)
  BY <1>2, <1>3
<1>7. \A j \in DOMAIN s : ~ (j <= 0)
  BY <1>4
<1>8. IsQueue(ids, parent, s, 0)
  BY <1>4, <1>5, <1>6, <1>7 DEF IsQueue
<1> QED BY <1>1, <1>8

LEMMA QueueTakes ==
  ASSUME NEW input, NEW ids, IsList(input, ids), ids = Held(input), NEW parent,
         NEW k \in Nat, k # 0, NEW s, IsQueue(ids, parent, s, k - 1), NEW t,
         t = IF k > Len(s) THEN s ELSE s \o Tree!Listing(input, {a \in ids : parent[a] = s[k]})
  PROVE  IsQueue(ids, parent, t, k)
<1>1. IsList(s, ids) /\ DOMAIN s = 1..Len(s) /\ Len(s) \in Nat
  BY DEF IsQueue, IsList
<1>2. CASE k > Len(s)
  <2>1. \A j \in DOMAIN s : j <= k => j <= k - 1
    BY <1>1, <1>2
  <2>2. \A j \in DOMAIN s : j <= k - 1 => j <= k
    BY <1>1
  <2> QED BY <1>2, <2>1, <2>2 DEF IsQueue
<1>3. CASE ~ (k > Len(s))
  <2> DEFINE S == {a \in ids : parent[a] = s[k]}
  <2>1. PICK new : new = Tree!Listing(input, S)
    OBVIOUS
  <2>2. IsList(new, S \cap Held(input)) /\ Held(new) = S \cap Held(input)
    <3> HIDE DEF S
    <3> QED BY <2>1, ListingIs
  <2>3. S \cap Held(input) = S
    OBVIOUS
  <2>4. IsList(new, ids) /\ Held(new) = S
    BY <2>2, <2>3 DEF IsList
  <2>5. k \in DOMAIN s /\ s[k] \in ids
    BY <1>1, <1>3 DEF IsList
  <2>6. Held(s) \cap Held(new) = {}
    <3> SUFFICES ASSUME NEW i \in DOMAIN s, parent[s[i]] = s[k] PROVE FALSE
      BY <2>4 DEF Held
    <3>1. PICK j \in DOMAIN s : j <= k - 1 /\ s[j] = s[k]
      BY <2>5 DEF IsQueue
    <3>2. j = k
      BY <2>5, <3>1 DEF IsQueue, IsList, Once
    <3> QED BY <3>1, <3>2
  <2>7. t = s \o new
    BY <1>3, <2>1
  <2>8. /\ IsList(t, ids) /\ Held(t) = Held(s) \cup Held(new)
        /\ Len(t) = Len(s) + Len(new)
        /\ \A i \in DOMAIN s : i \in DOMAIN t /\ t[i] = s[i]
        /\ \A i \in DOMAIN t : i \notin DOMAIN s => t[i] \in Held(new)
    <3>1. IsList(s, ids) /\ IsList(new, ids)
      BY <1>1, <2>4
    <3> HIDE DEF S
    <3>2. /\ IsList(s \o new, ids) /\ Held(s \o new) = Held(s) \cup Held(new)
          /\ Len(s \o new) = Len(s) + Len(new)
          /\ \A i \in DOMAIN s : i \in DOMAIN (s \o new) /\ (s \o new)[i] = s[i]
          /\ \A i \in DOMAIN (s \o new) : i \notin DOMAIN s => (s \o new)[i] \in Held(new)
      BY <2>6, <3>1, Joined, Zenon
    <3> QED BY <2>7, <3>2, Zenon
  <2>9. DOMAIN t = 1..Len(t) /\ Len(t) \in Nat
    BY <2>8 DEF IsList
  <2>10. ASSUME NEW i \in DOMAIN t, parent[t[i]] \in ids
         PROVE  \E j \in DOMAIN t : j < i /\ j <= k /\ t[j] = parent[t[i]]
    <3>1. CASE i \in DOMAIN s
      <4>1. PICK j \in DOMAIN s : j < i /\ j <= k - 1 /\ s[j] = parent[s[i]]
        BY <2>8, <2>10, <3>1 DEF IsQueue
      <4>2. j <= k
        BY <1>1, <4>1
      <4> QED BY <2>8, <3>1, <4>1, <4>2
    <3>2. CASE i \notin DOMAIN s
      <4>1. parent[t[i]] = s[k]
        BY <2>4, <2>8, <3>2
      <4>2. k < i
        BY <1>1, <1>3, <2>9, <3>2
      <4> QED BY <2>5, <2>8, <4>1, <4>2
    <3> QED BY <3>1, <3>2
  <2>11. \A a \in ids : parent[a] \notin ids => a \in Held(t)
    BY <2>8 DEF IsQueue
  <2>12. ASSUME NEW j \in DOMAIN t, j <= k, NEW a \in ids, parent[a] = t[j]
         PROVE  a \in Held(t)
    <3>1. j \in DOMAIN s /\ t[j] = s[j]
      BY <1>1, <1>3, <2>8, <2>9, <2>12
    <3>2. CASE j = k
      BY <2>4, <2>8, <2>12, <3>1, <3>2
    <3>3. CASE j # k
      <4>1. j <= k - 1
        BY <2>9, <2>12, <3>3
      <4> QED BY <2>8, <2>12, <3>1, <4>1 DEF IsQueue
    <3> QED BY <3>2, <3>3
  <2> HIDE DEF S
  <2> QED BY <2>8, <2>10, <2>11, <2>12 DEF IsQueue
<1> QED BY <1>2, <1>3

\* A function that is defined by a step from each number to the next exists.
Stepped(N, b, step, f) == f = [k \in 0..N |-> IF k = 0 THEN b ELSE step[<<k, f[k - 1]>>]]

LEMMA StepsUp ==
  ASSUME NEW N \in Nat, NEW V, NEW b \in V, NEW step,
         \A k \in 1..N : \A v \in V : step[<<k, v>>] \in V
  PROVE  \E f \in [0..N -> V] : Stepped(N, b, step, f)
<1> DEFINE Defined(n, f) ==
             f \in [0..n -> V] /\ f[0] = b /\ \A k \in 1..n : f[k] = step[<<k, f[k - 1]>>]
           Not == {n \in 0..N : \A f \in [0..n -> V] : ~ Defined(n, f)}
<1>1. Not = {}
  <2> SUFFICES ASSUME Not # {} PROVE FALSE
    OBVIOUS
  <2>1. PICK n \in Not : \A j \in Not : n <= j
    <3>1. Not \in SUBSET Nat /\ Not # {}
      <4> HIDE DEF Defined
      <4> QED OBVIOUS
    <3> HIDE DEF Not
    <3> QED BY <3>1, LeastNumber
  <2>2. CASE n = 0
    <3>1. Defined(0, [k \in 0..0 |-> b])
      OBVIOUS
    <3>2. [k \in 0..0 |-> b] \in [0..0 -> V]
      OBVIOUS
    <3> QED BY <2>1, <2>2, <3>1, <3>2
  <2>3. CASE n # 0
    <3>1. n \in 1..N /\ n - 1 \in 0..N /\ n - 1 \notin Not
      <4>1. n \in 0..N
        <5> HIDE DEF Defined
        <5> QED BY <2>1
      <4>2. n \in 1..N /\ n - 1 \in 0..N /\ ~ (n <= n - 1)
        BY <2>3, <4>1
      <4> HIDE DEF Not
      <4> QED BY <2>1, <4>2
    <3>2. PICK f \in [0..(n - 1) -> V] : Defined(n - 1, f)
      BY <3>1
    <3>3. PICK g : g = [k \in 0..n |-> IF k = n THEN step[<<n, f[n - 1]>>] ELSE f[k]]
      OBVIOUS
    <3>4. f[n - 1] \in V /\ step[<<n, f[n - 1]>>] \in V
      BY <3>1, <3>2
    <3>5. g \in [0..n -> V]
      BY <3>1, <3>2, <3>3, <3>4
    <3>6. g[0] = b /\ g[n] = step[<<n, f[n - 1]>>] /\ \A k \in 0..(n - 1) : g[k] = f[k]
      BY <2>3, <3>1, <3>2, <3>3
    <3>7. \A k \in 1..n : g[k] = step[<<k, g[k - 1]>>]
      <4> TAKE k \in 1..n
      <4>1. k - 1 \in 0..(n - 1) /\ g[k - 1] = f[k - 1]
        BY <3>1, <3>6
      <4>2. CASE k = n
        BY <3>6, <4>1, <4>2
      <4>3. CASE k # n
        <5>1. k \in 1..(n - 1)
          BY <3>1, <4>3
        <5>2. f[k] = step[<<k, f[k - 1]>>] /\ g[k] = f[k]
          BY <3>2, <3>6, <5>1
        <5> QED BY <4>1, <5>2
      <4> QED BY <4>2, <4>3
    <3> QED BY <2>1, <3>5, <3>6, <3>7
  <2> QED BY <2>2, <2>3
<1>2. PICK f \in [0..N -> V] : Defined(N, f)
  BY <1>1
<1>3. f = [k \in 0..N |-> f[k]]
  BY <1>2
<1>4. \A k \in 0..N : f[k] = IF k = 0 THEN b ELSE step[<<k, f[k - 1]>>]
  <2> TAKE k \in 0..N
  <2>1. k = 0 \/ k \in 1..N
    OBVIOUS
  <2> QED BY <1>2, <2>1
<1>5. f = [k \in 0..N |-> IF k = 0 THEN b ELSE step[<<k, f[k - 1]>>]]
  BY <1>3, <1>4
<1> QED BY <1>5 DEF Stepped

\* What the queue comes to: all that do not hang on a cycle, in an order that
\* has spawners first; then the others, whose spawners are among them.
Ordered(ids, parent, order, k) ==
  /\ IsList(order, ids) /\ Held(order) = ids
  /\ \A i \in DOMAIN order : parent[order[i]] \in ids =>
       \/ i <= k /\ \E j \in DOMAIN order : j < i /\ order[j] = parent[order[i]]
       \/ i > k /\ \E j \in DOMAIN order : j > k /\ order[j] = parent[order[i]]
  /\ \A i \in DOMAIN order : i > k => parent[order[i]] \in ids

QueueOf(input, ids, parent, q) ==
  q = [k \in 0..Len(input) |->
         IF k = 0 THEN Tree!Listing(input, {a \in ids : parent[a] \notin ids})
         ELSE IF k > Len(q[k - 1]) THEN q[k - 1]
              ELSE q[k - 1] \o Tree!Listing(input, {a \in ids : parent[a] = q[k - 1][k]})]

LEMMA QueueIs ==
  ASSUME NEW input, NEW ids, IsList(input, ids), ids = Held(input), NEW parent
  PROVE  LET q == CHOOSE q : QueueOf(input, ids, parent, q)
         IN QueueOf(input, ids, parent, q)
<1> DEFINE N == Len(input)
           V == Seq(ids)
           Roots == Tree!Listing(input, {a \in ids : parent[a] \notin ids})
           Take(s, k) == IF k > Len(s) THEN s
                         ELSE s \o Tree!Listing(input, {a \in ids : parent[a] = s[k]})
           step == [p \in (1..N) \X V |-> Take(p[2], p[1])]
<1>1. N \in Nat
  BY DEF IsList
<1>2. \A S : Tree!Listing(input, S) \in V
  <2> TAKE S
  <2>1. IsList(Tree!Listing(input, S), S \cap Held(input))
    BY ListingIs
  <2> QED BY <2>1 DEF IsList
<1>3. Roots \in V
  BY <1>2
<1>4. \A k \in 1..N : \A s \in V : step[<<k, s>>] = Take(s, k) /\ Take(s, k) \in V
  <2> TAKE k \in 1..N
  <2> TAKE s \in V
  <2>1. step[<<k, s>>] = Take(s, k)
    <3> HIDE DEF Take, V, N
    <3> QED OBVIOUS
  <2>2. Tree!Listing(input, {a \in ids : parent[a] = s[k]}) \in V
    BY <1>2
  <2>3. Take(s, k) \in V
    BY <2>2
  <2> QED BY <2>1, <2>3
<1>5. PICK f \in [0..N -> V] : f = [k \in 0..N |-> IF k = 0 THEN Roots ELSE step[<<k, f[k - 1]>>]]
  <2> HIDE DEF N, V, Roots, step, Take
  <2>1. \A k \in 1..N : \A s \in V : step[<<k, s>>] \in V
    BY <1>4
  <2>2. \E f \in [0..N -> V] : Stepped(N, Roots, step, f)
    BY <1>1, <1>3, <2>1, StepsUp
  <2> QED BY <2>2 DEF Stepped
<1>6. \A k \in 0..N : k # 0 => k \in 1..N /\ f[k - 1] \in V
  <2> HIDE DEF N, V, Roots, step, Take
  <2> SUFFICES ASSUME NEW k \in 0..N, k # 0 PROVE k \in 1..N /\ f[k - 1] \in V
    OBVIOUS
  <2>1. k \in 1..N /\ k - 1 \in 0..N
    BY <1>1
  <2> QED BY <2>1
<1>7. f = [k \in 0..N |-> IF k = 0 THEN Roots ELSE Take(f[k - 1], k)]
  <2> HIDE DEF N, V, Roots, step, Take
  <2>1. \A k \in 0..N : k # 0 => step[<<k, f[k - 1]>>] = Take(f[k - 1], k)
    BY <1>4, <1>6
  <2> QED BY <1>5, <2>1
<1>8. QueueOf(input, ids, parent, f)
  BY <1>7, Zenon DEF QueueOf
<1> QED BY <1>8, Zenon

\* The queue after k steps.
LEMMA QueueHolds ==
  ASSUME NEW input, NEW ids, IsList(input, ids), ids = Held(input), NEW parent,
         NEW q, QueueOf(input, ids, parent, q)
  PROVE  IsQueue(ids, parent, q[Len(input)], Len(input))
<1> DEFINE Not == {n \in 0..Len(input) : ~ IsQueue(ids, parent, q[n], n)}
<1>1. Len(input) \in Nat
  BY DEF IsList
<1>2. \A k \in 0..Len(input) :
        q[k] = IF k = 0 THEN Tree!Listing(input, {a \in ids : parent[a] \notin ids})
               ELSE IF k > Len(q[k - 1]) THEN q[k - 1]
                    ELSE q[k - 1] \o Tree!Listing(input, {a \in ids : parent[a] = q[k - 1][k]})
  BY Zenon DEF QueueOf
<1>3. ASSUME Not # {} PROVE FALSE
  <2>1. PICK n \in Not : \A j \in Not : n <= j
    <3>1. Not \in SUBSET Nat
      OBVIOUS
    <3> HIDE DEF Not
    <3> QED BY <1>3, <3>1, LeastNumber
  <2>2. n \in 0..Len(input) /\ ~ IsQueue(ids, parent, q[n], n)
    BY <2>1
  <2>3. CASE n = 0
    <3>1. q[0] = Tree!Listing(input, {a \in ids : parent[a] \notin ids})
      <4>1. 0 \in 0..Len(input)
        BY <1>1
      <4> QED BY <1>2, <4>1, Zenon
    <3>2. IsQueue(ids, parent, q[0], 0)
      BY <3>1, QueueBegins
    <3> QED BY <2>2, <2>3, <3>2
  <2>4. CASE n # 0
    <3>1. n - 1 \in 0..Len(input) /\ ~ (n <= n - 1) /\ n \in Nat
      BY <1>1, <2>2, <2>4
    <3>2. IsQueue(ids, parent, q[n - 1], n - 1)
      BY <2>1, <3>1
    <3>3. PICK s : s = q[n - 1]
      OBVIOUS
    <3>4. PICK t : t = q[n]
      OBVIOUS
    <3>5. t = IF n > Len(s) THEN s ELSE s \o Tree!Listing(input, {a \in ids : parent[a] = s[n]})
      BY <1>2, <2>2, <2>4, <3>3, <3>4
    <3>6. IsQueue(ids, parent, s, n - 1)
      BY <3>2, <3>3
    <3> HIDE DEF Not
    <3>7. IsQueue(ids, parent, t, n)
      BY <2>4, <3>1, <3>5, <3>6, QueueTakes
    <3> QED BY <2>2, <3>4, <3>7
  <2> QED BY <2>3, <2>4
<1>4. Len(input) \in 0..Len(input)
  BY <1>1
<1> QED BY <1>3, <1>4

LEMMA TopoOrderIs ==
  ASSUME NEW input, NEW ids, IsList(input, ids), ids = Held(input), NEW parent
  PROVE  \E k \in Nat : Ordered(ids, parent, Tree!TopoOrder(input, parent), k)
<1>0. Tree!ToSet(input) = ids
  BY DEF Tree!ToSet, Held
<1>1. PICK q : /\ QueueOf(input, ids, parent, q)
               /\ q = CHOOSE f : QueueOf(input, Tree!ToSet(input), parent, f)
  <2>1. QueueOf(input, ids, parent, CHOOSE f : QueueOf(input, ids, parent, f))
    BY QueueIs, Zenon
  <2> QED BY <1>0, <2>1, Zenon
<1>2. PICK s : s = q[Len(input)]
  OBVIOUS
<1>3. PICK rest : rest = Tree!Listing(input, ids \ Held(s))
  OBVIOUS
<1>4. Tree!TopoOrder(input, parent) = s \o rest
  <2>2. Tree!ToSet(s) = Held(s)
    BY DEF Tree!ToSet, Held
  <2>3. Tree!TopoOrder(input, parent) =
          q[Len(input)] \o Tree!Listing(input, Tree!ToSet(input) \ Tree!ToSet(q[Len(input)]))
    BY <1>1, Zenon DEF Tree!TopoOrder, QueueOf
  <2> QED BY <1>0, <1>2, <1>3, <2>2, <2>3, Zenon
<1>5. IsQueue(ids, parent, s, Len(input))
  BY <1>1, <1>2, QueueHolds
<1>6. IsList(rest, ids) /\ Held(rest) = ids \ Held(s)
  <2>1. IsList(rest, (ids \ Held(s)) \cap Held(input)) /\ Held(rest) = (ids \ Held(s)) \cap Held(input)
    BY <1>3, ListingIs
  <2> QED BY <2>1 DEF IsList
<1>7. IsList(s, ids) /\ Held(s) \subseteq ids
  <2>1. s \in Seq(ids)
    BY <1>5 DEF IsQueue, IsList
  <2> QED BY <1>5, <2>1 DEF IsQueue, Held
<1>8. Len(s) <= Len(input) /\ Len(s) \in Nat /\ Len(input) \in Nat /\ DOMAIN s = 1..Len(s)
  <2>1. s \in Seq(ids) /\ input \in Seq(ids)
    BY <1>7 DEF IsList
  <2>2. IsFiniteSet(1..Len(input)) /\ Cardinality(1..Len(input)) = Len(input)
    <3>1. Len(input) \in Nat
      BY <2>1
    <3> QED BY <3>1, UpToIs
  <2>3. input \in Surjection(1..Len(input), ids)
    BY <2>1 DEF Surjection, Held
  <2>4. IsFiniteSet(ids) /\ Cardinality(ids) <= Len(input)
    BY <2>2, <2>3, FS_Surjection
  <2>5. s \in Injection(1..Len(s), ids)
    BY <1>7, <2>1 DEF Injection, IsInjective, IsList, Once
  <2>6. Cardinality(1..Len(s)) <= Cardinality(ids) /\ Cardinality(1..Len(s)) = Len(s)
    <3>1. Cardinality(1..Len(s)) <= Cardinality(ids)
      <4>1. PICK S : S = 1..Len(s)
        OBVIOUS
      <4>2. s \in Injection(S, ids) /\ IsFiniteSet(ids)
        BY <2>4, <2>5, <4>1
      <4>3. Cardinality(S) <= Cardinality(ids)
        BY <4>2, FS_Injection
      <4> QED BY <4>1, <4>3
    <3>2. Cardinality(1..Len(s)) = Len(s)
      <4>1. Len(s) \in Nat
        BY <2>1
      <4> QED BY <4>1, UpToIs
    <3> QED BY <3>1, <3>2
  <2>7. Cardinality(ids) \in Nat
    BY <2>4, FS_CardinalityType
  <2> QED BY <2>1, <2>4, <2>6, <2>7
<1>9. PICK order : order = s \o rest
  OBVIOUS
<1>10. /\ IsList(order, ids) /\ Held(order) = Held(s) \cup Held(rest)
       /\ Len(order) = Len(s) + Len(rest)
       /\ \A i \in DOMAIN s : i \in DOMAIN order /\ order[i] = s[i]
       /\ \A i \in DOMAIN order : i \notin DOMAIN s => order[i] \in Held(rest)
  <2>1. Held(s) \cap Held(rest) = {}
    BY <1>6
  <2>3. IsList(s, ids) /\ IsList(rest, ids)
    BY <1>6, <1>7
  <2>2. /\ IsList(s \o rest, ids) /\ Held(s \o rest) = Held(s) \cup Held(rest)
        /\ Len(s \o rest) = Len(s) + Len(rest)
        /\ \A i \in DOMAIN s : i \in DOMAIN (s \o rest) /\ (s \o rest)[i] = s[i]
        /\ \A i \in DOMAIN (s \o rest) : i \notin DOMAIN s => (s \o rest)[i] \in Held(rest)
    BY <2>1, <2>3, Joined, Zenon
  <2> QED BY <1>9, <2>2, Zenon
<1>11. Held(order) = ids
  BY <1>6, <1>7, <1>10
<1>12. DOMAIN order = 1..Len(order) /\ Len(order) \in Nat
  BY <1>10 DEF IsList
<1>13. ASSUME NEW i \in DOMAIN order, i <= Len(s), parent[order[i]] \in ids
       PROVE  \E j \in DOMAIN order : j < i /\ order[j] = parent[order[i]]
  <2>1. i \in DOMAIN s
    BY <1>8, <1>12, <1>13
  <2>2. order[i] = s[i]
    BY <1>10, <2>1
  <2>3. PICK j \in DOMAIN s : j < i /\ s[j] = parent[s[i]]
    BY <1>5, <1>13, <2>1, <2>2 DEF IsQueue
  <2> QED BY <1>10, <2>2, <2>3
<1>14. ASSUME NEW i \in DOMAIN order, i > Len(s)
       PROVE  /\ parent[order[i]] \in ids
              /\ \E j \in DOMAIN order : j > Len(s) /\ order[j] = parent[order[i]]
  <2>1. order[i] \in ids /\ order[i] \notin Held(s)
    <3>1. i \notin DOMAIN s
      BY <1>8, <1>12, <1>14
    <3> QED BY <1>6, <1>10, <3>1
  <2>2. parent[order[i]] \in ids
    BY <1>5, <2>1 DEF IsQueue
  <2>3. parent[order[i]] \notin Held(s)
    <3> SUFFICES ASSUME NEW j \in DOMAIN s, s[j] = parent[order[i]] PROVE FALSE
      BY DEF Held
    <3>1. j <= Len(input)
      BY <1>8
    <3> QED BY <1>5, <2>1, <3>1 DEF IsQueue
  <2>4. PICK j \in DOMAIN order : order[j] = parent[order[i]]
    BY <1>11, <2>2 DEF Held
  <2>5. j \notin DOMAIN s
    BY <1>10, <2>3, <2>4 DEF Held
  <2>6. j > Len(s)
    BY <1>8, <1>12, <2>5
  <2> QED BY <2>2, <2>4, <2>6
<1>15. \A i \in DOMAIN order : i <= Len(s) \/ i > Len(s)
  BY <1>8, <1>12
<1>16. Ordered(ids, parent, order, Len(s))
  BY <1>10, <1>11, <1>13, <1>14, <1>15 DEF Ordered
<1> QED BY <1>4, <1>8, <1>9, <1>16

-----------------------------------------------------------------------------
(* Every reading can be stored whole *)

LEMMA SpawnerIs ==
  ASSUME shape \in Forms, NEW R, NEW a \in Tree!AllAgents
  PROVE  Tree!Spawner(a, R) \in Tree!AllAgents \cup {None} /\ Tree!Spawner(a, R) # a
<1>1. main \notin Subs /\ None \notin Tree!AllAgents /\ shape \in [Subs -> [writer : Tree!AllAgents, via : Tree!Vias]]
  BY TreeAssumption DEF Tree!Configured
<1>2. main \in Tree!AllAgents /\ \A b \in Subs : b \in Tree!AllAgents
  BY DEF Tree!AllAgents
<1>3. CASE a = main
  BY <1>1, <1>3 DEF Tree!Spawner
<1>4. CASE a # main
  <2>1. a \in Subs
    BY <1>4 DEF Tree!AllAgents
  <2>2. shape[a].writer \in Tree!AllAgents
    BY <1>1, <2>1
  <2>3. \/ Tree!Spawner(a, R) = None \/ Tree!Spawner(a, R) = main
        \/ Tree!Spawner(a, R) = shape[a].writer /\ shape[a].writer # a
    BY <1>4 DEF Tree!Spawner, Tree!Foreign
  <2> QED BY <1>1, <1>2, <1>4, <2>2, <2>3
<1> QED BY <1>3, <1>4

\* The files are listed with each agent once.
LEMMA ListedOnce ==
  ASSUME NEW R, R \subseteq Tree!AllAgents
  PROVE  LET input == Tree!Listing(<<main, x, y, z>>, R)
         IN IsList(input, R) /\ Held(input) = R
<1> DEFINE list == <<main, x, y, z>>
<1>1. list \in Seq(Tree!AllAgents) /\ Held(list) = Tree!AllAgents
  BY TreeAssumption DEF Tree!Configured, Tree!ToSet, Held
<1>2. Len(list) = Cardinality(Tree!AllAgents)
  BY TreeAssumption, SameCardinalityOfTree DEF Tree!Configured
<1> HIDE DEF list
<1>3. IsFiniteSet(1..Len(list)) /\ Cardinality(1..Len(list)) = Len(list)
  <2>1. Len(list) \in Nat
    BY <1>1
  <2> QED BY <2>1, UpToIs
<1>4. list \in Surjection(1..Len(list), Tree!AllAgents)
  BY <1>1 DEF Surjection, Held
<1>5. list \in Injection(1..Len(list), Tree!AllAgents)
  <2>1. PICK S : S = 1..Len(list)
    OBVIOUS
  <2>2. list \in Surjection(S, Tree!AllAgents) /\ IsFiniteSet(S) /\ Cardinality(Tree!AllAgents) = Cardinality(S)
    BY <1>2, <1>3, <1>4, <2>1
  <2>3. list \in Injection(S, Tree!AllAgents)
    BY <2>2, FS_Surjection
  <2> QED BY <2>1, <2>3
<1>6. IsList(list, Tree!AllAgents)
  BY <1>1, <1>5 DEF IsList, Once, Injection, IsInjective
<1>7. IsList(Tree!Listing(list, R), R \cap Held(list)) /\ Held(Tree!Listing(list, R)) = R \cap Held(list)
  BY <1>6, ListingIs
<1>8. R \cap Held(list) = R
  BY <1>1
<1> QED BY <1>7, <1>8 DEF list

\* What a reading's rows are: one of each agent it read, and an agent's spawner
\* is in its row when the row before is that one's.
LEMMA RowsAre ==
  ASSUME NEW R, R \subseteq Tree!AllAgents
  PROVE  \E order : \E k \in Nat :
           /\ Ordered(R, Tree!Resolved(R), order, k)
           /\ DOMAIN Tree!Normalized(R) = DOMAIN order
           /\ Len(Tree!Normalized(R)) = Len(order)
           /\ \A i \in DOMAIN order :
                /\ Tree!Normalized(R)[i].id = order[i]
                /\ Tree!Normalized(R)[i].parent =
                     IF Tree!Resolved(R)[order[i]] \in {order[j] : j \in 1..(i - 1)}
                     THEN Tree!Resolved(R)[order[i]] ELSE None
<1> DEFINE parent == Tree!Resolved(R)
           input == Tree!Listing(<<main, x, y, z>>, R)
<1>1. IsList(input, R) /\ Held(input) = R
  BY ListedOnce
<1>2. PICK k \in Nat : Ordered(R, parent, Tree!TopoOrder(input, parent), k)
  <2> HIDE DEF input, parent
  <2> QED BY <1>1, TopoOrderIs
<1>3. PICK order : order = Tree!TopoOrder(input, parent)
  OBVIOUS
<1>4. Tree!Normalized(R) =
        [i \in DOMAIN order |->
           [id |-> order[i],
            parent |-> IF parent[order[i]] \in {order[j] : j \in 1..(i - 1)}
                       THEN parent[order[i]] ELSE None,
            cause |-> Tree!Outcome(order[i], R)]]
  BY <1>3, Zenon DEF Tree!Normalized
<1>5. DOMAIN order = 1..Len(order) /\ Len(order) \in Nat
  BY <1>2, <1>3 DEF Ordered, IsList
<1> HIDE DEF parent, input
<1>6. DOMAIN Tree!Normalized(R) = DOMAIN order /\ Len(Tree!Normalized(R)) = Len(order)
  <2>1. DOMAIN Tree!Normalized(R) = 1..Len(order)
    BY <1>4, <1>5
  <2> QED BY <1>5, <2>1
<1>7. \A i \in DOMAIN order :
        /\ Tree!Normalized(R)[i].id = order[i]
        /\ Tree!Normalized(R)[i].parent = IF parent[order[i]] \in {order[j] : j \in 1..(i - 1)}
                                          THEN parent[order[i]] ELSE None
  BY <1>4
<1>8. Ordered(R, parent, order, k)
  BY <1>2, <1>3
<1> QED BY <1>6, <1>7, <1>8 DEF parent

Climbing(N, parent, a, f) ==
  f = [n \in 0..N |-> IF n = 0 THEN a ELSE LET b == f[n - 1] IN IF b \in DOMAIN parent THEN parent[b] ELSE None]

\* Where climbing leads.
LEMMA ClimbIs ==
  ASSUME NEW parent, NEW a, NEW V, a \in V, None \in V, \A b \in DOMAIN parent : parent[b] \in V,
         NEW N \in Nat, N = Cardinality(DOMAIN parent)
  PROVE  /\ Tree!Climb(parent, a)[0] = a
         /\ \A n \in 1..N :
              LET b == Tree!Climb(parent, a)[n - 1] IN
              Tree!Climb(parent, a)[n] = IF b \in DOMAIN parent THEN parent[b] ELSE None
<1> DEFINE Above(b) == IF b \in DOMAIN parent THEN parent[b] ELSE None
           step == [p \in (1..N) \X V |-> Above(p[2])]
<1>1. \A n \in 1..N : \A v \in V : step[<<n, v>>] = Above(v) /\ step[<<n, v>>] \in V
  OBVIOUS
<1>2. PICK f \in [0..N -> V] : Stepped(N, a, step, f)
  <2> HIDE DEF step
  <2> QED BY <1>1, StepsUp
<1>3. Climbing(N, parent, a, f)
  <2>1. ASSUME NEW n \in 0..N, n # 0 PROVE step[<<n, f[n - 1]>>] = Above(f[n - 1])
    <3>1. n \in 1..N /\ n - 1 \in 0..N
      BY <2>1
    <3>2. f[n - 1] \in V
      BY <3>1
    <3> HIDE DEF step, Above
    <3> QED BY <1>1, <3>1, <3>2
  <2>2. f = [n \in 0..N |-> IF n = 0 THEN a ELSE step[<<n, f[n - 1]>>]]
    BY <1>2, Zenon DEF Stepped
  <2>3. f = [n \in 0..N |-> IF n = 0 THEN a ELSE Above(f[n - 1])]
    <3> HIDE DEF step, Above
    <3> QED BY <2>1, <2>2
  <2> QED BY <2>3, Zenon DEF Climbing
<1>4. PICK g : g = Tree!Climb(parent, a)
  OBVIOUS
<1>5. Climbing(N, parent, a, g)
  <2>1. Tree!Climb(parent, a) = CHOOSE h : Climbing(Tree!Cardinality(DOMAIN parent), parent, a, h)
    BY Zenon DEF Tree!Climb, Climbing
  <2>2. Tree!Cardinality(DOMAIN parent) = N
    BY SameCardinalityOfTree
  <2>3. g = CHOOSE h : Climbing(N, parent, a, h)
    BY <1>4, <2>1, <2>2, Zenon
  <2> QED BY <1>3, <2>3, Zenon
<1>6. g = [n \in 0..N |-> IF n = 0 THEN a ELSE Above(g[n - 1])]
  BY <1>5, Zenon DEF Climbing
<1>7. g[0] = a /\ \A n \in 1..N : g[n] = Above(g[n - 1])
  <2>1. 0 \in 0..N /\ \A n \in 1..N : n \in 0..N /\ n # 0
    OBVIOUS
  <2> HIDE DEF Above
  <2> QED BY <1>6, <2>1
<1> QED BY <1>4, <1>7

\* None of the agents past place k of the order leads out of them.
LEMMA CyclesClimb ==
  ASSUME NEW ids, NEW parent, NEW order, NEW k \in Nat, Ordered(ids, parent, order, k),
         NEW N \in Nat, NEW at, NEW a \in ids,
         DOMAIN parent = ids,
         at[0] = a,
         \A n \in 1..N : at[n] = IF at[n - 1] \in DOMAIN parent THEN parent[at[n - 1]] ELSE None,
         NEW i \in DOMAIN order, order[i] = a, i > k
  PROVE  at[N] \in ids
<1> DEFINE On(n) == \E j \in DOMAIN order : j > k /\ order[j] = at[n]
           Not == {n \in 0..N : ~ On(n)}
<1>1. Not = {}
  <2> SUFFICES ASSUME Not # {} PROVE FALSE
    OBVIOUS
  <2>1. PICK n \in Not : \A j \in Not : n <= j
    <3>1. Not \in SUBSET Nat /\ Not # {}
      <4> HIDE DEF On
      <4> QED OBVIOUS
    <3> HIDE DEF Not
    <3> QED BY <3>1, LeastNumber
  <2>2. n \in 0..N /\ ~ On(n)
    <3> HIDE DEF On
    <3> QED BY <2>1
  <2>3. n # 0
    BY <2>2
  <2>4. n \in 1..N /\ n - 1 \in 0..N /\ ~ (n <= n - 1)
    BY <2>2, <2>3
  <2>5. On(n - 1)
    <3> HIDE DEF On
    <3> QED BY <2>1, <2>4
  <2>6. PICK j \in DOMAIN order : j > k /\ order[j] = at[n - 1]
    BY <2>5
  <2>7. parent[order[j]] \in ids /\ order[j] \in ids
    BY <2>6 DEF Ordered, Held
  <2>8. at[n] = parent[order[j]]
    BY <2>4, <2>6, <2>7
  <2>9. ~ (j <= k)
    <3>1. j \in Nat
      BY DEF Ordered, IsList
    <3> QED BY <2>6, <3>1
  <2>10. \E l \in DOMAIN order : l > k /\ order[l] = parent[order[j]]
    BY <2>7, <2>9 DEF Ordered
  <2> QED BY <2>2, <2>8, <2>10
<1>2. N \in 0..N /\ N \notin Not
  BY <1>1
<1>3. On(N)
  <2> HIDE DEF On
  <2> QED BY <1>2
<1> QED BY <1>3 DEF Ordered, Held

Links(order, parent, at, n) ==
  \E m \in 1..n : \E i, j \in DOMAIN order : j < i /\ order[i] = at[m] /\ order[j] = parent[at[m]]

\* Around a cycle of spawners one of them is in the order before the one it
\* spawned.
LEMMA CyclesLink ==
  ASSUME NEW ids, NEW parent, NEW order, NEW k \in Nat, Ordered(ids, parent, order, k),
         NEW N \in Nat, NEW at, NEW a \in ids,
         DOMAIN parent = ids, \A b \in ids : parent[b] # b, None \notin ids,
         at[0] = a,
         \A n \in 1..N : at[n] = IF at[n - 1] \in DOMAIN parent THEN parent[at[n - 1]] ELSE None,
         NEW n \in 1..N, at[n] = a
  PROVE  Links(order, parent, at, n)
<1>1. \A m \in 0..n : at[m] \in ids
  <2> DEFINE Off == {l \in Nat : l \in 0..n /\ at[n - l] \notin ids}
  <2>1. ASSUME Off # {} PROVE FALSE
    <3>1. PICK l \in Off : \A j \in Off : l <= j
      <4>1. Off \in SUBSET Nat
        OBVIOUS
      <4> HIDE DEF Off
      <4> QED BY <2>1, <4>1, LeastNumber
    <3>2. l \in 0..n /\ l \in Nat /\ at[n - l] \notin ids
      BY <3>1
    <3>3. l # 0
      BY <3>2
    <3>4. l - 1 \in Nat /\ l - 1 \in 0..n /\ ~ (l <= l - 1) /\ n - l + 1 \in 1..N /\ n - (l - 1) = n - l + 1
          /\ n - l + 1 - 1 = n - l
      BY <3>2, <3>3
    <3>5. at[n - (l - 1)] \in ids
      BY <3>1, <3>4
    <3>6. at[n - l + 1] = None
      BY <3>2, <3>4
    <3> QED BY <3>4, <3>5, <3>6
  <2> SUFFICES ASSUME NEW m \in 0..n PROVE at[m] \in ids
    OBVIOUS
  <2>2. n - m \in Nat /\ n - m \in 0..n /\ n - (n - m) = m
    OBVIOUS
  <2>3. n - m \notin Off
    BY <2>1
  <2> QED BY <2>2, <2>3
<1>2. \A m \in 1..n : \E l \in 1..n : at[l] = parent[at[m]]
  <2> TAKE m \in 1..n
  <2>1. CASE m = n
    <3>1. 1 \in 1..n /\ 1 \in 1..N /\ 1 - 1 = 0
      OBVIOUS
    <3>2. at[1] = parent[a]
      BY <3>1
    <3> QED BY <2>1, <3>1, <3>2
  <2>2. CASE m # n
    <3>1. m + 1 \in 1..n /\ m + 1 \in 1..N /\ m + 1 - 1 = m /\ m \in 0..n
      BY <2>2
    <3>2. at[m + 1] = parent[at[m]]
      BY <1>1, <3>1
    <3> QED BY <3>1, <3>2
  <2> QED BY <2>1, <2>2
<1>3. DOMAIN order \in SUBSET Nat /\ Held(order) = ids /\ IsFiniteSet(DOMAIN order)
  <2>1. DOMAIN order = 1..Len(order) /\ Len(order) \in Nat
    BY DEF Ordered, IsList
  <2> QED BY <2>1, UpToIs DEF Ordered
<1> DEFINE Free == {i \in DOMAIN order : \E m \in 1..n : order[i] = at[m]}
           Back == {Len(order) - i : i \in Free}
<1>4. DOMAIN order = 1..Len(order) /\ Len(order) \in Nat
  BY DEF Ordered, IsList
<1>5. \A m \in 1..n : \E i \in DOMAIN order : order[i] = at[m]
  <2> TAKE m \in 1..n
  <2>1. m \in 0..n
    OBVIOUS
  <2> QED BY <1>1, <1>3, <2>1 DEF Held
<1>6. Back \in SUBSET Nat /\ Back # {}
  <2>1. Back \in SUBSET Nat
    BY <1>4
  <2>2. n \in 1..n
    OBVIOUS
  <2> QED BY <1>5, <2>1, <2>2
<1>7. PICK i \in Free : \A j \in Free : j <= i
  <2>1. PICK b \in Back : \A c \in Back : b <= c
    <3> HIDE DEF Back
    <3> QED BY <1>6, LeastNumber
  <2>2. PICK i \in Free : b = Len(order) - i
    BY <2>1
  <2>3. \A j \in Free : Len(order) - i <= Len(order) - j /\ j \in Nat /\ i \in Nat
    <3>1. \A j \in Free : Len(order) - j \in Back /\ j \in DOMAIN order
      OBVIOUS
    <3> HIDE DEF Free, Back
    <3> QED BY <1>3, <2>1, <2>2, <3>1
  <2> HIDE DEF Free
  <2> QED BY <1>4, <2>3
<1>8. PICK m \in 1..n : order[i] = at[m]
  BY <1>7
<1>9. PICK l \in 1..n : at[l] = parent[at[m]]
  BY <1>2
<1>10. PICK j \in DOMAIN order : order[j] = at[l]
  BY <1>5
<1>11. j \in Free
  BY <1>10
<1>12. j <= i /\ i \in DOMAIN order
  BY <1>7, <1>11
<1>13. j # i
  <2>1. at[m] \in ids
    BY <1>1
  <2> QED BY <1>8, <1>9, <1>10, <2>1
<1>14. j < i
  BY <1>3, <1>12, <1>13
<1> QED BY <1>8, <1>9, <1>10, <1>12, <1>14 DEF Links

Linked(R, normal, parent) ==
  {a \in R : \E i \in DOMAIN normal : normal[i].id = a /\ normal[i].parent = parent[a]}

StoredInOrder(R, normal, parent, size, linked) ==
  /\ Tree!Referenced(normal)
  /\ Len(normal) = size /\ {normal[i].id : i \in DOMAIN normal} = R
  /\ \A a \in R :
       /\ Tree!Climb(parent, a)[size] = None /\ parent[a] \in R => a \in linked
       /\ \A n \in 1..size :
            Tree!Climb(parent, a)[n] = a =>
              \E k \in 1..n : Tree!Climb(parent, a)[k] \in linked

LEMMA ReadingKept ==
  ASSUME shape \in Forms, NEW R, R \subseteq Tree!AllAgents,
         NEW normal, normal = Tree!Normalized(R), NEW parent, parent = Tree!Resolved(R),
         NEW size, size = Cardinality(R),
         NEW linked, linked = Linked(R, normal, parent)
  PROVE  StoredInOrder(R, normal, parent, size, linked)
<1> DEFINE Row(order, i) == IF parent[order[i]] \in {order[j] : j \in 1..(i - 1)}
                            THEN parent[order[i]] ELSE None
<1>1. PICK order : \E k \in Nat :
        /\ Ordered(R, parent, order, k)
        /\ DOMAIN normal = DOMAIN order /\ Len(normal) = Len(order)
        /\ \A i \in DOMAIN order : normal[i].id = order[i] /\ normal[i].parent = Row(order, i)
  BY RowsAre, Zenon
<1>2. PICK k \in Nat :
        /\ Ordered(R, parent, order, k)
        /\ DOMAIN normal = DOMAIN order /\ Len(normal) = Len(order)
        /\ \A i \in DOMAIN order : normal[i].id = order[i] /\ normal[i].parent = Row(order, i)
  BY <1>1
<1>3. IsList(order, R) /\ Held(order) = R /\ DOMAIN order = 1..Len(order) /\ Len(order) \in Nat
  BY <1>2 DEF Ordered, IsList
<1>4. DOMAIN parent = R /\ \A a \in R : parent[a] \in Tree!AllAgents \cup {None} /\ parent[a] # a
  BY SpawnerIs DEF Tree!Resolved
<1>5. None \notin Tree!AllAgents
  BY TreeAssumption DEF Tree!Configured
<1>6. ASSUME NEW i \in DOMAIN order, NEW j \in DOMAIN order, j < i, order[j] = parent[order[i]]
      PROVE  order[i] \in linked
  <2>1. j \in 1..(i - 1)
    BY <1>3, <1>6
  <2>2. normal[i].id = order[i] /\ normal[i].parent = parent[order[i]]
    BY <1>2, <1>6, <2>1
  <2>3. order[i] \in R
    BY <1>3 DEF Held
  <2> QED BY <1>2, <2>2, <2>3 DEF Linked
<1>7. Tree!Referenced(normal)
  <2> SUFFICES ASSUME NEW i \in DOMAIN normal
               PROVE  normal[i].parent \in {None} \cup DOMAIN rows \cup {normal[j].id : j \in 1..i}
    BY DEF Tree!Referenced
  <2>1. CASE parent[order[i]] \in {order[j] : j \in 1..(i - 1)}
    <3>1. PICK j \in 1..(i - 1) : parent[order[i]] = order[j]
      BY <2>1
    <3>2. i \in DOMAIN order /\ j \in 1..i /\ j \in DOMAIN order
      BY <1>2, <1>3, <3>1
    <3>3. normal[i].parent = normal[j].id
      BY <1>2, <2>1, <3>1, <3>2
    <3> QED BY <3>2, <3>3
  <2>2. CASE parent[order[i]] \notin {order[j] : j \in 1..(i - 1)}
    BY <1>2, <2>2
  <2> QED BY <2>1, <2>2
<1>8. Len(normal) = size /\ size \in Nat
  <2>1. PICK S : S = 1..Len(order)
    OBVIOUS
  <2>2. IsFiniteSet(S) /\ Cardinality(S) = Len(order)
    BY <1>3, <2>1, UpToIs
  <2>3. order \in Injection(S, R) /\ order \in Surjection(S, R)
    BY <1>3, <2>1 DEF IsList, Once, Held, Injection, IsInjective, Surjection
  <2>4. IsFiniteSet(R) /\ Cardinality(R) = Cardinality(S)
    BY <2>2, <2>3, FS_Surjection
  <2> QED BY <1>2, <1>3, <2>2, <2>4
<1>9. {normal[i].id : i \in DOMAIN normal} = R
  BY <1>2, <1>3 DEF Held
<1>10. ASSUME NEW a \in R
       PROVE  /\ Tree!Climb(parent, a)[0] = a
              /\ \A n \in 1..size :
                   Tree!Climb(parent, a)[n] =
                     IF Tree!Climb(parent, a)[n - 1] \in DOMAIN parent
                     THEN parent[Tree!Climb(parent, a)[n - 1]] ELSE None
  <2>1. PICK V : V = Tree!AllAgents \cup {None}
    OBVIOUS
  <2>2. a \in V /\ None \in V /\ \A b \in DOMAIN parent : parent[b] \in V
    BY <1>4, <2>1
  <2>3. size = Cardinality(DOMAIN parent)
    BY <1>4
  <2> QED BY <1>8, <2>2, <2>3, ClimbIs
<1>11. ASSUME NEW a \in R, Tree!Climb(parent, a)[size] = None, parent[a] \in R
       PROVE  a \in linked
  <2>1. PICK at : at = Tree!Climb(parent, a)
    OBVIOUS
  <2>2. at[0] = a /\ \A n \in 1..size : at[n] = IF at[n - 1] \in DOMAIN parent THEN parent[at[n - 1]] ELSE None
    BY <1>10, <2>1
  <2>3. PICK i \in DOMAIN order : order[i] = a
    BY <1>3 DEF Held
  <2>4. at[size] \notin R
    BY <1>5, <1>11, <2>1
  <2>5. ~ (i > k)
    <3> SUFFICES ASSUME i > k PROVE FALSE
      OBVIOUS
    <3>1. Ordered(R, parent, order, k) /\ size \in Nat /\ DOMAIN parent = R
      BY <1>2, <1>4, <1>8
    <3>2. at[size] \in R
      BY <2>2, <2>3, <3>1, CyclesClimb
    <3> QED BY <2>4, <3>2
  <2>6. PICK j \in DOMAIN order : j < i /\ order[j] = parent[order[i]]
    BY <1>2, <1>11, <2>3, <2>5 DEF Ordered
  <2> QED BY <1>6, <2>3, <2>6
<1>12. ASSUME NEW a \in R, NEW n \in 1..size, Tree!Climb(parent, a)[n] = a
       PROVE  \E m \in 1..n : Tree!Climb(parent, a)[m] \in linked
  <2>1. PICK at : at = Tree!Climb(parent, a)
    OBVIOUS
  <2>2. at[0] = a /\ \A l \in 1..size : at[l] = IF at[l - 1] \in DOMAIN parent THEN parent[at[l - 1]] ELSE None
    BY <1>10, <2>1
  <2>3. at[n] = a /\ None \notin R
    BY <1>5, <1>12, <2>1
  <2>4. \E m \in 1..n : \E i, j \in DOMAIN order : j < i /\ order[i] = at[m] /\ order[j] = parent[at[m]]
    <3>1. /\ Ordered(R, parent, order, k) /\ size \in Nat /\ DOMAIN parent = R
          /\ \A b \in R : parent[b] # b
      BY <1>2, <1>4, <1>8
    <3>2. Links(order, parent, at, n)
      BY <2>2, <2>3, <3>1, CyclesLink
    <3> QED BY <3>2 DEF Links
  <2>5. PICK m \in 1..n : \E i, j \in DOMAIN order : j < i /\ order[i] = at[m] /\ order[j] = parent[at[m]]
    BY <2>4
  <2>6. at[m] \in linked
    BY <1>6, <2>5
  <2> QED BY <2>1, <2>6
<1> HIDE DEF Row
<1>13. Len(normal) = size
  BY <1>8
<1>14. \A a \in R : Tree!Climb(parent, a)[size] = None /\ parent[a] \in R => a \in linked
  BY <1>11
<1>15. \A a \in R : \A n \in 1..size :
         Tree!Climb(parent, a)[n] = a => \E m \in 1..n : Tree!Climb(parent, a)[m] \in linked
  BY <1>12
<1> QED BY <1>7, <1>9, <1>13, <1>14, <1>15, Zenon DEF StoredInOrder

\* Whatever the spawns of a session look like, what a reading names can be
\* stored statement by statement, one row per agent, with every spawner that is
\* not on a cycle and a part of each cycle's (topoOrderAgents and the row build
\* of normalizeSession; agents.parent_agent_id references agents).
THEOREM ReadingsAreStored == IngestedSpec => []TreeKept
<1> DEFINE I == subject = "tree" => shape \in Forms
<1>1. IngestedInit => I
  BY DEF IngestedInit, Tree!Init
<1>2. I /\ [IngestedNext]_all => I'
  BY DEF IngestedNext, all, tree, Tree!Next, Tree!Pass, Tree!Change, Tree!vars
<1>3. I => TreeKept
  <2> SUFFICES ASSUME shape \in Forms PROVE Tree!TreeKept
    BY DEF TreeKept
  <2>1. \A R \in (SUBSET Tree!AllAgents) \ {{}} :
          \A normal \in {Tree!Normalized(R)}, parent \in {Tree!Resolved(R)} :
            StoredInOrder(R, normal, parent, Tree!Cardinality(R), Linked(R, normal, parent))
    BY SameCardinalityOfTree, ReadingKept
  <2> QED BY <2>1, Zenon DEF Tree!TreeKept, StoredInOrder, Linked
<1> HIDE DEF I
<1> QED BY <1>1, <1>2, <1>3, PTL DEF IngestedSpec
=============================================================================
