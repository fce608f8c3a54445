----------------------------- MODULE RaftLemmas -----------------------------
(***************************************************************************)
(* Facts about the operators, the log and the handlers of Raft that all    *)
(* the proofs need.  Two invariants come with them, for every set of       *)
(* peers, with snapshots, restarts and whatever the network does: the      *)
(* variables keep their types and the index arithmetic of the compacted    *)
(* log is right; snapshots cover what was cut and commands are applied in  *)
(* order.                                                                  *)
(*                                                                         *)
(* Types and indices are proved together, because the slice expressions    *)
(* stay within the log only when positions and indices agree.              *)
(***************************************************************************)
EXTENDS RaftInvariants, TLAPS

\* A leaf that names no prover is tried with Zenon and with the SMT solver, then
\* with both once more.
USE ZenonT(5), SMTT(60), Z3T(60), ZenonT(30)

-----------------------------------------------------------------------------
(***************************************************************************)
(* Sequences.                                                              *)
(***************************************************************************)
\* The elements of a sequence.
LEMMA SeqElements ==
  ASSUME NEW S, NEW q \in Seq(S)
  PROVE  /\ Len(q) \in Nat
         /\ DOMAIN q = 1 .. Len(q)
         /\ q \in [1 .. Len(q) -> S]
         /\ \A k \in 1 .. Len(q) : q[k] \in S
         /\ q # <<>> => Len(q) >= 1
<1>1. Len(q) \in Nat /\ DOMAIN q = 1 .. Len(q)
  BY SMTT(60)
<1>2. q \in [1 .. Len(q) -> S]
  BY SMTT(60)
<1>3. \A k \in 1 .. Len(q) : q[k] \in S
  BY <1>2
<1>4. q # <<>> => Len(q) >= 1
  BY <1>1, SMTT(60)
<1>5. QED
  BY <1>1, <1>2, <1>3, <1>4

LEMMA EmptySeq ==
  ASSUME NEW S
  PROVE  <<>> \in Seq(S) /\ Len(<<>>) = 0
BY SMTT(60)

LEMMA SeqConcat ==
  ASSUME NEW S, NEW p \in Seq(S), NEW q \in Seq(S)
  PROVE  /\ p \o q \in Seq(S)
         /\ Len(p \o q) = Len(p) + Len(q)
         /\ \A k \in 1 .. Len(p) + Len(q) :
              (p \o q)[k] = IF k <= Len(p) THEN p[k] ELSE q[k - Len(p)]
<1>1. p \o q \in Seq(S)
  BY SMTT(60)
<1>2. Len(p \o q) = Len(p) + Len(q)
  BY SMTT(60)
<1>3. QED
  BY <1>1, <1>2, SMTT(60)

\* SubSeq() needs no sequence: only that the elements it takes are there.
LEMMA SeqPart ==
  ASSUME NEW S, NEW q, NEW m \in Int, NEW n \in Int, \A k \in m .. n : q[k] \in S
  PROVE  /\ SubSeq(q, m, n) \in Seq(S)
         /\ Len(SubSeq(q, m, n)) = IF m <= n THEN n - m + 1 ELSE 0
         /\ \A k \in 1 .. n - m + 1 : SubSeq(q, m, n)[k] = q[m + k - 1]
BY SMTT(60)

LEMMA SeqTail ==
  ASSUME NEW S, NEW q \in Seq(S), q # <<>>
  PROVE  /\ Head(q) \in S /\ Tail(q) \in Seq(S)
         /\ Len(Tail(q)) = Len(q) - 1
         /\ \A k \in 1 .. Len(Tail(q)) : Tail(q)[k] = q[k + 1]
<1>1. Len(q) \in Nat /\ Len(q) >= 1
  BY SMTT(60)
<1>2. Head(q) \in S
  BY <1>1, SMTT(60)
<1>3. Tail(q) \in Seq(S) /\ Len(Tail(q)) = Len(q) - 1
  BY <1>1, SMTT(60)
<1>4. \A k \in 1 .. Len(Tail(q)) : Tail(q)[k] = q[k + 1]
  BY <1>1, <1>3, SMTT(60)
<1>5. QED
  BY <1>2, <1>3, <1>4

LEMMA SeqAppend ==
  ASSUME NEW S, NEW q \in Seq(S), NEW e \in S
  PROVE  /\ Append(q, e) \in Seq(S)
         /\ Len(Append(q, e)) = Len(q) + 1
         /\ \A k \in 1 .. Len(q) : Append(q, e)[k] = q[k]
         /\ Append(q, e)[Len(q) + 1] = e
BY SMTT(60)

-----------------------------------------------------------------------------
(***************************************************************************)
(* Least and greatest elements.                                            *)
(***************************************************************************)
\* A non-empty set of natural numbers has a least element, which MinOf names.
LEMMA MinOfNat ==
  ASSUME Counting,
         NEW S \in SUBSET Nat, S # {}
  PROVE  MinOf(S) \in S /\ \A y \in S : MinOf(S) <= y
<1>1. PICK x \in S : \A y \in S : x <= y
  BY DEF Counting
<1>2. QED
  BY <1>1 DEF MinOf

\* A non-empty set of natural numbers with a bound has a greatest element,
\* which MaxOf names.
LEMMA MaxOfNat ==
  ASSUME Counting,
         NEW S \in SUBSET Nat, S # {}, NEW b \in Nat, \A y \in S : y <= b
  PROVE  MaxOf(S) \in S /\ \A y \in S : MaxOf(S) >= y
<1> DEFINE T == {n \in Nat : b - n \in S}
<1>1. T \in SUBSET Nat /\ T # {}
  <2>1. PICK y \in S : TRUE
    OBVIOUS
  <2>2. b - y \in Nat /\ b - (b - y) = y
    BY SMTT(60)
  <2>3. QED
    BY <2>1, <2>2
<1>2. MinOf(T) \in T /\ \A y \in T : MinOf(T) <= y
  BY <1>1, MinOfNat
<1> DEFINE x == b - MinOf(T)
<1>3. x \in S
  BY <1>2
<1>4. \A y \in S : x >= y
  <2>1. TAKE y \in S
  <2>2. b - y \in T
    BY SMTT(60)
  <2>3. QED
    BY <1>2, <2>2, SMTT(60)
<1>5. QED
  BY <1>3, <1>4 DEF MaxOf

LEMMA MaxOfTwo ==
  ASSUME Counting,
         NEW a \in Nat, NEW b \in Nat
  PROVE  /\ MaxOf({a, b}) \in {a, b} /\ MaxOf({a, b}) \in Nat
         /\ MaxOf({a, b}) >= a /\ MaxOf({a, b}) >= b
<1>1. /\ {a, b} \in SUBSET Nat /\ {a, b} # {} /\ a + b \in Nat
      /\ \A y \in {a, b} : y <= a + b
  OBVIOUS
<1> DEFINE S == {a, b}
<1> HIDE DEF S
<1>2. MaxOf(S) \in S /\ \A y \in S : MaxOf(S) >= y
  BY <1>1, MaxOfNat DEF S
<1>3. QED
  BY <1>2 DEF S

\* The same for positions in a sequence.
LEMMA LastPosition ==
  ASSUME Counting,
         NEW n \in Nat, NEW S \in SUBSET (1 .. n), S # {}
  PROVE  MaxOf(S) \in S /\ MaxOf(S) \in 1 .. n
<1>1. S \in SUBSET Nat /\ \A y \in S : y <= n
  OBVIOUS
<1>2. MaxOf(S) \in S
  BY <1>1, MaxOfNat
<1>3. QED
  BY <1>2

\* The interval the Applier reads: the bounds of the slice are one higher.
LEMMA ShiftedRange ==
  ASSUME NEW a \in Nat, NEW b \in Nat, NEW c \in Nat, b >= a, c > b
  PROVE  /\ b + 1 \in Nat /\ c + 1 \in Nat /\ b + 1 > a /\ b + 1 <= c + 1
         /\ (c + 1) - (b + 1) = c - b
BY SMTT(60)

-----------------------------------------------------------------------------
(***************************************************************************)
(* What TypeOK says of one peer.                                           *)
(***************************************************************************)
\* The counters of a peer are natural numbers.
LEMMA FieldTypes ==
  ASSUME TypeOK, NEW s \in Server
  PROVE  /\ CurrentTerm[s] \in Nat /\ CommitIndex[s] \in Nat /\ LastApplied[s] \in Nat
         /\ LastIncludedIndex[s] \in Nat /\ LastIncludedTerm[s] \in Nat
<1>1. /\ CurrentTerm \in [Server -> Nat] /\ CommitIndex \in [Server -> Nat]
      /\ LastApplied \in [Server -> Nat] /\ LastIncludedIndex \in [Server -> Nat]
      /\ LastIncludedTerm \in [Server -> Nat]
  BY DEF TypeOK
<1>2. QED
  BY <1>1

\* So are its indices for every other peer.
LEMMA IndexTypes ==
  ASSUME TypeOK, NEW s \in Server, NEW p \in Server
  PROVE  NextIndex[s][p] \in Nat /\ MatchIndex[s][p] \in Nat
<1>1. /\ NextIndex \in [Server -> [Server -> Nat]]
      /\ MatchIndex \in [Server -> [Server -> Nat]]
  BY DEF TypeOK
<1>2. QED
  BY <1>1

\* The number of its life is one of those MaxBoots allows.
LEMMA BootRange ==
  ASSUME NEW lives \in [Server -> 0 .. MaxBoots], NEW s \in Server
  PROVE  lives[s] \in Nat /\ lives[s] <= MaxBoots
<1>1. lives[s] \in 0 .. MaxBoots
  OBVIOUS
<1>2. QED
  BY <1>1, BoundAssumption

LEMMA BootType ==
  ASSUME TypeOK, NEW s \in Server
  PROVE  boot[s] \in Nat /\ boot[s] <= MaxBoots
<1>1. boot \in [Server -> 0 .. MaxBoots]
  BY DEF TypeOK
<1>2. QED
  BY <1>1, BootRange

\* The term a candidate moves to.
LEMMA NextTerm ==
  ASSUME TypeOK, NEW s \in Server
  PROVE  /\ CurrentTerm[s] + 1 \in Nat
         /\ CurrentTerm[s] + 1 > CurrentTerm[s] /\ CurrentTerm[s] + 1 >= CurrentTerm[s]
         /\ CurrentTerm[s] + 1 # CurrentTerm[s]
<1>1. CurrentTerm[s] \in Nat
  BY FieldTypes
<1>2. QED
  BY <1>1

LEMMA SuccNat ==
  ASSUME NEW a \in Nat
  PROVE  a + 1 \in Nat /\ a + 1 > a
BY SMTT(60)

LEMMA GeqSelf ==
  ASSUME NEW a \in Nat
  PROVE  a >= a /\ a <= a /\ ~(a < a) /\ ~(a > a)
BY SMTT(60)

\* A term that stays is not smaller than it was.
LEMMA TermKept ==
  ASSUME TypeOK, NEW s \in Server, CurrentTerm'[s] = CurrentTerm[s]
  PROVE  CurrentTerm'[s] >= CurrentTerm[s]
<1>1. CurrentTerm[s] \in Nat
  BY FieldTypes
<1>2. QED
  BY <1>1, GeqSelf

-----------------------------------------------------------------------------
(***************************************************************************)
(* The network and the disk.                                               *)
(***************************************************************************)
\* Nothing arrives that was not in flight or has just been sent.
LEMMA SendAdds ==
  ASSUME NEW before, NEW ms, Send(before, ms)
  PROVE  net' \subseteq before \cup ms
BY DEF Send

LEMMA RespondAdds ==
  ASSUME NEW m, NEW r, Respond(m, r)
  PROVE  net' \subseteq net \cup {r}
<1>1. PICK before \in Without(m) :
        Send(before, IF m.boot = boot[m.from] THEN {r} ELSE {})
  BY DEF Respond
<1>2. before \subseteq net
  BY <1>1 DEF Without
<1>3. QED
  BY <1>1, <1>2, SendAdds

LEMMA ConsumeAdds ==
  ASSUME NEW m, Consume(m)
  PROVE  net' \subseteq net
BY DEF Consume, Without

\* A candidate sends nothing but requests for votes in its new term, with the
\* end of its log.
LEMMA CandidateAsks ==
  ASSUME NEW s \in Server, AttemptElection(s), NEW r \in net', r \notin net
  PROVE  /\ r.type = "RequestVote" /\ r.from = s /\ r.Term = CurrentTerm[s] + 1
         /\ r.LastLogIndex = GetLastLog(s).Index /\ r.LastLogTerm = GetLastLog(s).Term
<1> DEFINE ask(p) ==
      [type |-> "RequestVote", from |-> s, to |-> p, boot |-> boot[s],
       Term |-> CurrentTerm[s] + 1, LastLogIndex |-> GetLastLog(s).Index,
       LastLogTerm |-> GetLastLog(s).Term]
<1>1. net' \subseteq net \cup {ask(p) : p \in Server \ {s}}
  BY SendAdds DEF AttemptElection
<1>2. ASSUME NEW p
      PROVE  /\ ask(p).type = "RequestVote" /\ ask(p).from = s /\ ask(p).Term = CurrentTerm[s] + 1
             /\ ask(p).LastLogIndex = GetLastLog(s).Index
             /\ ask(p).LastLogTerm = GetLastLog(s).Term
  OBVIOUS
<1> HIDE DEF ask
<1>3. PICK p \in Server \ {s} : r = ask(p)
  BY <1>1
<1>4. QED
  BY <1>2, <1>3

-----------------------------------------------------------------------------
(***************************************************************************)
(* The log.                                                                *)
(***************************************************************************)
\* What GetLastLog() returns.
LEMMA LastLog ==
  ASSUME TypeOK, LogIndexing, NEW s \in Server
  PROVE  /\ Log[s] \in Seq(LogEntry)
         /\ Len(Log[s]) \in Nat
         /\ Len(Log[s]) >= 1
         /\ GetLastLog(s) \in LogEntry
         /\ GetLastLog(s).Index = LastIncludedIndex[s] + Len(Log[s]) - 1
         /\ GetLastLog(s).Index \in Nat
         /\ GetLastLog(s).Term \in Nat
<1>1. Log[s] \in Seq(LogEntry) /\ Log[s] # <<>>
  BY DEF TypeOK, Log0
<1>2. Len(Log[s]) \in Nat /\ Len(Log[s]) >= 1
  BY <1>1, EmptySeq, SeqElements, SMTT(60)
<1>3. Log[s][Len(Log[s])] \in LogEntry
  BY <1>1, <1>2, SeqElements
<1>4. LastIncludedIndex[s] \in Nat
  BY DEF TypeOK
<1>5. GetLastLog(s).Index = LastIncludedIndex[s] + Len(Log[s]) - 1
  BY <1>2, <1>4 DEF LogIndexing, GetLastLog
<1>6. QED
  BY <1>1, <1>2, <1>3, <1>5 DEF GetLastLog, LogEntry

\* What GetLogEntry() returns.
LEMMA EntryType ==
  ASSUME TypeOK, LogIndexing, NEW s \in Server, NEW i \in Int
  PROVE  /\ GetLogEntry(s, i) \in LogEntry
         /\ GetLogEntry(s, i).Term \in Nat
         /\ HasLogEntry(s, i) => GetLogEntry(s, i).Index = i
<1>1. Log[s] \in Seq(LogEntry) /\ Len(Log[s]) \in Nat
  BY LastLog
<1>2. LastIncludedIndex[s] \in Nat
  BY DEF TypeOK
<1>3. CASE HasLogEntry(s, i)
  <2> DEFINE k == i - LastIncludedIndex[s] + 1
  <2>1. k \in 1 .. Len(Log[s])
    BY <1>1, <1>2, <1>3 DEF HasLogEntry
  <2>2. Log[s][k] \in LogEntry
    BY <1>1, <2>1, SeqElements
  <2>3. Log[s][k].Index = i
    <3>1. Log[s][k].Index = LastIncludedIndex[s] + k - 1
      BY <2>1 DEF LogIndexing
    <3>2. LastIncludedIndex[s] + k - 1 = i
      BY <1>2
    <3>3. QED
      BY <3>1, <3>2
  <2>4. QED
    BY <1>3, <2>2, <2>3 DEF GetLogEntry, LogEntry
<1>4. CASE ~HasLogEntry(s, i)
  BY <1>4 DEF GetLogEntry, Placeholder, LogEntry
<1>5. QED
  BY <1>3, <1>4

-----------------------------------------------------------------------------
(***************************************************************************)
(* Steps that leave the log alone.                                         *)
(***************************************************************************)
\* The type field tells what a message is.
LEMMA MessageTypes ==
  ASSUME TypeOK, NEW m \in net
  PROVE  /\ m.type = "RequestVote" => m \in RequestVoteArgs
         /\ m.type = "AppendEntries" => m \in AppendEntriesArgs
         /\ m.type = "InstallSnapShot" => m \in InstallSnapshotArgs
         /\ m.type = "RequestVoteReply" => m \in RequestVoteReply
         /\ m.type = "AppendEntriesReply" => m \in AppendEntriesReply
         /\ m.type = "InstallSnapShotReply" => m \in InstallSnapshotReply
<1>1. m \in Message
  BY DEF TypeOK
<1>2. QED
  BY <1>1 DEF Message, RequestVoteArgs, AppendEntriesArgs, InstallSnapshotArgs,
              RequestVoteReply, AppendEntriesReply, InstallSnapshotReply

-----------------------------------------------------------------------------
(***************************************************************************)
(* Steps that change or read the log.                                      *)
(***************************************************************************)
\* From a logical index to a position and back.
LEMMA SliceArithmetic ==
  ASSUME NEW start \in Nat, NEW end \in Nat, NEW base \in Nat, NEW len \in Nat,
         start > base, end - base <= len, NEW k \in 1 .. end - start
  PROVE  /\ (start - base + 1) + k - 1 \in 1 .. len
         /\ base + ((start - base + 1) + k - 1) - 1 = start + k - 1
         /\ (start + k - 1) - base + 1 = (start - base + 1) + k - 1
         /\ start + k - 1 >= base
         /\ start + k - 1 - base < len
BY SMTT(60)

\* What GetLogSlices() returns between two indices within the log.
LEMMA LogSlices ==
  ASSUME TypeOK, LogIndexing, NEW s \in Server, NEW start \in Nat, NEW end \in Nat,
         start > LastIncludedIndex[s], HasLogSlices(s, start, end), start <= end
  PROVE  /\ GetLogSlices(s, start, end) \in Seq(LogEntry)
         /\ Len(GetLogSlices(s, start, end)) = end - start
         /\ \A k \in 1 .. end - start :
              /\ GetLogSlices(s, start, end)[k].Index = start + k - 1
              /\ GetLogSlices(s, start, end)[k] = GetLogEntry(s, start + k - 1)
<1> DEFINE a == start - LastIncludedIndex[s] + 1
           b == end - LastIncludedIndex[s]
<1>1. Log[s] \in Seq(LogEntry) /\ Len(Log[s]) \in Nat
  BY LastLog
<1>2. LastIncludedIndex[s] \in Nat
  BY DEF TypeOK
<1>3. /\ a \in Int /\ b \in Int /\ a >= 1 /\ b <= Len(Log[s])
      /\ b - a + 1 = end - start /\ (a <= b \/ b - a + 1 = 0)
  BY <1>1, <1>2 DEF HasLogSlices
<1>4. \A i \in a .. b : Log[s][i] \in LogEntry
  BY <1>1, <1>3, SeqElements
<1>5. GetLogSlices(s, start, end) = SubSeq(Log[s], a, b)
  BY DEF GetLogSlices
<1>6. ASSUME NEW k \in 1 .. end - start
      PROVE  /\ a + k - 1 \in 1 .. Len(Log[s])
             /\ LastIncludedIndex[s] + (a + k - 1) - 1 = start + k - 1
             /\ (start + k - 1) - LastIncludedIndex[s] + 1 = a + k - 1
             /\ HasLogEntry(s, start + k - 1)
  <2>1. end - LastIncludedIndex[s] <= Len(Log[s])
    BY DEF HasLogSlices
  <2>2. QED
    BY <1>1, <1>2, <2>1, SliceArithmetic DEF HasLogEntry
<1> HIDE DEF a, b
<1>7. /\ SubSeq(Log[s], a, b) \in Seq(LogEntry)
      /\ Len(SubSeq(Log[s], a, b)) = IF a <= b THEN b - a + 1 ELSE 0
      /\ \A k \in 1 .. b - a + 1 : SubSeq(Log[s], a, b)[k] = Log[s][a + k - 1]
  BY <1>3, <1>4, SeqPart
<1>8. Len(SubSeq(Log[s], a, b)) = end - start
  BY <1>3, <1>7
<1>9. \A k \in 1 .. end - start : Log[s][a + k - 1].Index = start + k - 1
  BY <1>6 DEF LogIndexing
<1>10. \A k \in 1 .. end - start : Log[s][a + k - 1] = GetLogEntry(s, start + k - 1)
  BY <1>6 DEF GetLogEntry
<1>11. QED
  BY <1>3, <1>5, <1>7, <1>8, <1>9, <1>10

\* The entries a leader sends, from next to the last of its log, are numbered
\* from next on.
LEMMA SentSlices ==
  ASSUME TypeOK, LogIndexing, NEW s \in Server, NEW next \in Nat, NEW last \in Nat,
         next > LastIncludedIndex[s], HasLogSlices(s, next, last + 1), next <= last + 1
  PROVE  /\ GetLogSlices(s, next, last + 1) \in Seq(LogEntry)
         /\ \A k \in 1 .. Len(GetLogSlices(s, next, last + 1)) :
              GetLogSlices(s, next, last + 1)[k].Index = next - 1 + k
<1>1. PICK end \in Nat : end = last + 1
  OBVIOUS
<1>2. HasLogSlices(s, next, end) /\ next <= end
  BY <1>1
<1>3. /\ GetLogSlices(s, next, end) \in Seq(LogEntry)
      /\ Len(GetLogSlices(s, next, end)) = end - next
      /\ \A k \in 1 .. end - next :
           /\ GetLogSlices(s, next, end)[k].Index = next + k - 1
           /\ GetLogSlices(s, next, end)[k] = GetLogEntry(s, next + k - 1)
  BY <1>2, LogSlices
<1>4. ASSUME NEW k \in 1 .. Len(GetLogSlices(s, next, end))
      PROVE  GetLogSlices(s, next, end)[k].Index = next - 1 + k
  <2>1. k \in 1 .. end - next /\ next + k - 1 = next - 1 + k
    BY <1>3, <1>4
  <2>2. QED
    BY <1>3, <2>1
<1>5. QED
  BY <1>1, <1>3, <1>4

\* What the loop of AppendEntries() over args.Entries leaves when it finds a new
\* or conflicting entry: the log up to there, and the entries from there on.
LEMMA MergedLogShape ==
  ASSUME Counting,
         IndInv, NEW s \in Server, NEW m \in net, m \in AppendEntriesArgs,
         HasLogEntry(s, m.PrevLogIndex), NewOrConflicting(s, m.Entries) # {}
  PROVE  \E k \in 1 .. Len(m.Entries), keep \in 1 .. Len(Log[s]) :
           /\ m.PrevLogIndex + k = LastIncludedIndex[s] + keep
           /\ \A j \in 1 .. k - 1 : j \notin NewOrConflicting(s, m.Entries)
           /\ MergedLog(s, m.Entries) \in Seq(LogEntry)
           /\ Len(MergedLog(s, m.Entries)) = keep + (Len(m.Entries) - k + 1)
           /\ \A i \in 1 .. keep : MergedLog(s, m.Entries)[i] = Log[s][i]
           /\ \A j \in k .. Len(m.Entries) :
                MergedLog(s, m.Entries)[keep + (j - k + 1)] = m.Entries[j]
<1> USE DEF IndInv
<1> DEFINE base == LastIncludedIndex[s]
           len == Len(Log[s])
           prev == m.PrevLogIndex
           entries == m.Entries
           new == NewOrConflicting(s, entries)
           k == MinOf(new)
<1>1. /\ Log[s] \in Seq(LogEntry) /\ Log[s] \in Log0
      /\ len \in Nat /\ len >= 1 /\ GetLastLog(s).Index = base + len - 1
  BY LastLog DEF TypeOK
<1>2. base \in Nat
  BY DEF TypeOK
<1>3. prev \in Nat /\ entries \in Seq(LogEntry) /\ Len(entries) \in Nat
  BY SeqElements DEF AppendEntriesArgs
<1>4. \A i \in 1 .. Len(entries) : entries[i].Index = prev + i
  <2>1. m.type = "AppendEntries"
    BY DEF AppendEntriesArgs
  <2>2. QED
    BY <2>1 DEF EntriesIndexed
<1>5. prev >= base /\ prev - base < len
  BY DEF HasLogEntry
<1>7. new \subseteq 1 .. Len(entries)
  BY DEF NewOrConflicting
<1>8. new \in SUBSET Nat
  BY <1>7
<1>9. k \in new /\ \A y \in new : k <= y
  BY <1>8, MinOfNat
<1>10. k \in 1 .. Len(entries) /\ entries[k].Index = prev + k
  BY <1>4, <1>7, <1>9
<1>11. k > 1 => prev + (k - 1) <= base + len - 1
  <2> SUFFICES ASSUME k > 1 PROVE prev + (k - 1) <= base + len - 1
    OBVIOUS
  <2>1. k - 1 \in 1 .. Len(entries) /\ k - 1 \notin new
    BY <1>3, <1>9, <1>10
  <2>2. ~(entries[k - 1].Index > GetLastLog(s).Index)
    BY <2>1 DEF NewOrConflicting
  <2>3. entries[k - 1].Index = prev + (k - 1)
    BY <1>4, <2>1
  <2> HIDE DEF k, base, len, prev, entries
  <2>4. QED
    BY <1>1, <1>2, <1>3, <1>10, <2>2, <2>3
<1> DEFINE keep == IF entries[k].Index > GetLastLog(s).Index
                     THEN len ELSE entries[k].Index - base
           kept == SubSeq(Log[s], 1, keep)
           added == SubSeq(entries, k, Len(entries))
<1>12. MergedLog(s, entries) = kept \o added
  BY DEF MergedLog
<1> HIDE DEF k, base, len, prev, entries, new
<1>13. keep \in 1 .. len /\ prev + k = base + keep
  <2>1. k \in Nat /\ k >= 1
    BY <1>3, <1>10
  <2>2. k = 1 \/ k > 1
    BY <2>1
  <2>3. prev + k <= base + len /\ prev + k > base
    BY <1>1, <1>2, <1>3, <1>5, <1>11, <2>1, <2>2
  <2>4. CASE entries[k].Index > GetLastLog(s).Index
    <3>1. keep = len
      BY <2>4
    <3>2. prev + k > base + len - 1
      BY <1>1, <1>10, <2>4
    <3> HIDE DEF keep
    <3>3. QED
      BY <1>1, <1>2, <1>3, <2>1, <2>3, <3>1, <3>2
  <2>5. CASE ~(entries[k].Index > GetLastLog(s).Index)
    <3>1. keep = entries[k].Index - base
      BY <2>5, ZenonT(60)
    <3> HIDE DEF keep
    <3>2. keep = prev + k - base
      BY <1>2, <1>3, <1>10, <2>1, <3>1
    <3>3. QED
      BY <1>1, <1>2, <1>3, <2>1, <2>3, <3>2
  <2>6. QED
    BY <2>4, <2>5
<1> HIDE DEF keep
<1>14. \A i \in 1 .. keep : Log[s][i] \in LogEntry
  BY <1>1, <1>13, SeqElements DEF len
<1>15. /\ kept \in Seq(LogEntry) /\ Len(kept) = keep
      /\ \A i \in 1 .. keep : kept[i] = Log[s][i]
  <2>1. /\ kept \in Seq(LogEntry)
        /\ Len(kept) = IF 1 <= keep THEN keep - 1 + 1 ELSE 0
        /\ \A i \in 1 .. keep - 1 + 1 : kept[i] = Log[s][1 + i - 1]
    BY <1>13, <1>14, SeqPart
  <2> HIDE DEF kept
  <2>2. QED
    BY <1>13, <2>1
<1>16. \A i \in k .. Len(entries) : entries[i] \in LogEntry
  BY <1>3, <1>10, SeqElements
<1>17. /\ added \in Seq(LogEntry) /\ Len(added) = Len(entries) - k + 1
       /\ \A i \in 1 .. Len(entries) - k + 1 : added[i] = entries[k + i - 1]
  <2>1. /\ added \in Seq(LogEntry)
        /\ Len(added) = IF k <= Len(entries) THEN Len(entries) - k + 1 ELSE 0
        /\ \A i \in 1 .. Len(entries) - k + 1 : added[i] = entries[k + i - 1]
    BY <1>3, <1>10, <1>16, SeqPart
  <2> HIDE DEF added
  <2>2. QED
    BY <1>3, <1>10, <2>1
<1> HIDE DEF kept, added
<1> DEFINE log == kept \o added
<1>18. /\ log \in Seq(LogEntry)
       /\ Len(log) = Len(kept) + Len(added)
       /\ \A i \in 1 .. Len(kept) + Len(added) :
            log[i] = IF i <= Len(kept) THEN kept[i] ELSE added[i - Len(kept)]
  BY <1>15, <1>17, SeqConcat
<1> HIDE DEF log
<1>19. Len(log) = keep + (Len(entries) - k + 1) /\ Len(log) >= 1
  BY <1>3, <1>10, <1>13, <1>15, <1>17, <1>18
<1>20. \A i \in 1 .. keep : log[i] = Log[s][i]
  <2> SUFFICES ASSUME NEW i \in 1 .. keep PROVE log[i] = Log[s][i]
    OBVIOUS
  <2>1. i \in 1 .. Len(kept) + Len(added) /\ i <= Len(kept)
    BY <1>3, <1>10, <1>13, <1>15, <1>17
  <2>2. log[i] = kept[i]
    BY <1>18, <2>1
  <2>3. QED
    BY <1>15, <2>2
<1>21. ASSUME NEW j \in k .. Len(entries) PROVE log[keep + (j - k + 1)] = entries[j]
  <2>1. PICK i \in Int : i = keep + (j - k + 1)
    BY <1>3, <1>10, <1>13
  <2>2. /\ i \in 1 .. Len(kept) + Len(added) /\ ~(i <= Len(kept))
        /\ i - Len(kept) = j - k + 1 /\ k + (j - k + 1) - 1 = j
        /\ j - k + 1 \in 1 .. Len(entries) - k + 1
    BY <1>3, <1>10, <1>13, <1>15, <1>17, <2>1
  <2>3. log[i] = added[j - k + 1]
    BY <1>18, <2>2
  <2>4. added[j - k + 1] = entries[j]
    BY <1>17, <2>2
  <2>5. QED
    BY <2>1, <2>3, <2>4
<1>22. \A j \in 1 .. k - 1 : j \notin new
  BY <1>9, <1>10
<1>23. MergedLog(s, entries) = log
  BY <1>12 DEF log
<1>24. PICK a \in 1 .. Len(entries), b \in 1 .. len : a = k /\ b = keep
  BY <1>10, <1>13
<1>25. /\ prev + a = base + b
       /\ \A j \in 1 .. a - 1 : j \notin new
       /\ MergedLog(s, entries) \in Seq(LogEntry)
       /\ Len(MergedLog(s, entries)) = b + (Len(entries) - a + 1)
       /\ \A i \in 1 .. b : MergedLog(s, entries)[i] = Log[s][i]
       /\ \A j \in a .. Len(entries) : MergedLog(s, entries)[b + (j - a + 1)] = entries[j]
  BY <1>13, <1>18, <1>19, <1>20, <1>21, <1>22, <1>23, <1>24, ZenonT(60)
<1>26. QED
  BY <1>24, <1>25 DEF base, len, prev, entries, new

\* The loop leaves an indexed log with the same placeholder.
LEMMA MergedLogIndexed ==
  ASSUME Counting,
         IndInv, NEW s \in Server, NEW m \in net, m \in AppendEntriesArgs,
         HasLogEntry(s, m.PrevLogIndex)
  PROVE  /\ MergedLog(s, m.Entries) \in Log0
         /\ Indexed(MergedLog(s, m.Entries), LastIncludedIndex[s])
         /\ MergedLog(s, m.Entries)[1] = Log[s][1]
<1> USE DEF IndInv
<1> DEFINE base == LastIncludedIndex[s]
           prev == m.PrevLogIndex
           entries == m.Entries
           log == MergedLog(s, entries)
<1>1. Log[s] \in Log0 /\ Len(Log[s]) \in Nat /\ base \in Nat
  BY LastLog DEF TypeOK
<1>2. prev \in Nat /\ entries \in Seq(LogEntry) /\ Len(entries) \in Nat
  BY SeqElements DEF AppendEntriesArgs
<1>3. \A i \in 1 .. Len(entries) : entries[i].Index = prev + i
  <2>1. m.type = "AppendEntries"
    BY DEF AppendEntriesArgs
  <2>2. QED
    BY <2>1 DEF EntriesIndexed
<1>4. Indexed(Log[s], base) /\ \A i \in 1 .. Len(Log[s]) : Log[s][i].Index = base + i - 1
  BY DEF LogIndexing, Indexed
<1>5. CASE NewOrConflicting(s, entries) = {}
  BY <1>1, <1>4, <1>5 DEF MergedLog
<1>6. CASE NewOrConflicting(s, entries) # {}
  <2>1. PICK k \in 1 .. Len(entries), keep \in 1 .. Len(Log[s]) :
          /\ prev + k = base + keep
          /\ \A j \in 1 .. k - 1 : j \notin NewOrConflicting(s, entries)
          /\ log \in Seq(LogEntry)
          /\ Len(log) = keep + (Len(entries) - k + 1)
          /\ \A i \in 1 .. keep : log[i] = Log[s][i]
          /\ \A j \in k .. Len(entries) : log[keep + (j - k + 1)] = entries[j]
    BY <1>6, MergedLogShape, ZenonT(60)
  <2> HIDE DEF base, prev, entries, log
  <2> DEFINE len == Len(entries)
  <2>2. /\ len \in Nat /\ k \in 1 .. len /\ keep \in Nat /\ prev + k = base + keep
        /\ Len(log) = keep + (len - k + 1)
    BY <1>1, <1>2, <2>1
  <2> HIDE DEF len
  <2>3. log # <<>>
    BY <1>2, <2>1, EmptySeq
  <2>4. ASSUME NEW i \in 1 .. Len(log) PROVE log[i].Index = base + i - 1
    <3>1. CASE i <= keep
      <4>1. i \in 1 .. keep /\ i \in 1 .. Len(Log[s])
        BY <1>1, <2>1, <3>1
      <4>2. log[i] = Log[s][i]
        BY <2>1, <4>1
      <4>3. QED
        BY <1>4, <4>1, <4>2
    <3>2. CASE i > keep
      <4>1. PICK j \in Int : j = i - keep + k - 1
        BY <1>2, <2>1
      <4>2. j \in k .. Len(entries) /\ j \in 1 .. Len(entries) /\ keep + (j - k + 1) = i
        <5>1. j \in k .. len /\ j \in 1 .. len /\ keep + (j - k + 1) = i
          BY <2>2, <3>2, <4>1
        <5>2. QED
          BY <5>1 DEF len
      <4>3. log[i] = entries[j]
        BY <2>1, <4>2
      <4>4. log[i].Index = prev + j
        BY <1>3, <4>2, <4>3
      <4>5. prev + j = base + i - 1
        BY <1>1, <1>2, <2>2, <4>1
      <4>6. QED
        BY <4>4, <4>5
    <3>3. QED
      BY <1>2, <2>1, <3>1, <3>2
  <2>5. log[1] = Log[s][1]
    BY <1>2, <2>1
  <2>6. QED
    BY <2>1, <2>3, <2>4, <2>5 DEF Log0, Indexed, base, entries, log
<1>7. QED
  BY <1>5, <1>6

-----------------------------------------------------------------------------
(***************************************************************************)
(* Steps that create no vote.                                              *)
(***************************************************************************)
\* A vote cast earlier still binds after a step that moves the voter forward.
LEMMA BoundKept ==
  ASSUME TypeOK, TypeOK', NEW v \in Server, NEW c \in Server, NEW term \in Nat,
         Bound(v, c, term), Advances(v)
  PROVE  Bound(v, c, term)'
<1>1. /\ CurrentTerm[v] \in Nat /\ CurrentTerm'[v] \in Nat
      /\ disk[v].CurrentTerm \in Nat /\ disk'[v].CurrentTerm \in Nat
  BY DEF TypeOK, Persisted
<1>2. c # NotVoted
  BY ServerAssumption
<1>3. \/ CurrentTerm'[v] > term
      \/ CurrentTerm'[v] = term /\ VotedFor'[v] = c
  BY <1>1, <1>2 DEF Bound, Advances
<1>4. QED
  BY <1>1, <1>3 DEF Bound, Advances

LEMMA SavedDisk ==
  ASSUME TypeOK, NEW s \in Server, Saved(s), NEW p \in Server
  PROVE  \/ disk'[p].CurrentTerm = CurrentTerm'[p] /\ disk'[p].VotedFor = VotedFor'[p]
         \/ disk'[p] = disk[p]
<1>1. CASE UNCHANGED disk
  BY <1>1
<1>2. CASE \E snapshot : Save(s, snapshot)
  <2>1. PICK snapshot : disk' = [disk EXCEPT ![s] = EncodeRaftState(s, snapshot)]
    BY <1>2 DEF Save
  <2>2. CASE p = s
    BY <2>1, <2>2 DEF EncodeRaftState, TypeOK
  <2>3. CASE p # s
    BY <2>1, <2>3 DEF TypeOK
  <2>4. QED
    BY <2>2, <2>3
<1>3. QED
  BY <1>1, <1>2 DEF Saved

LEMMA QuietWhenUnchanged ==
  ASSUME TypeOK, NEW s \in Server, Saved(s), UNCHANGED <<CurrentTerm, VotedFor, State, votes>>,
         \A r \in net' : Granted(r) => r \in net
  PROVE  Quiet
BY SavedDisk DEF Quiet, Advances, Stays

LEMMA QuietWhenFollowing ==
  ASSUME TypeOK, NEW s \in Server, Saved(s), NEW term \in Nat, NEW vote,
         CurrentTerm' = [CurrentTerm EXCEPT ![s] = term],
         VotedFor' = [VotedFor EXCEPT ![s] = vote],
         State' = [State EXCEPT ![s] = Follower],
         votes' = votes,
         \/ term > CurrentTerm[s]
         \/ term = CurrentTerm[s] /\ vote = VotedFor[s],
         \A r \in net' : Granted(r) => r \in net
  PROVE  Quiet
<1> SUFFICES ASSUME NEW p \in Server PROVE Advances(p) /\ Stays(p)
  BY DEF Quiet
<1>1. CASE p = s
  BY <1>1, SavedDisk DEF Advances, Stays, TypeOK, Follower, Candidate, Leader
<1>2. CASE p # s
  BY <1>2, SavedDisk DEF Advances, Stays, TypeOK
<1>3. QED
  BY <1>1, <1>2

\* FollowTerm() is such a step.
LEMMA FollowTermQuiet ==
  ASSUME TypeOK, NEW s \in Server, NEW term \in Nat, FollowTerm(s, term), Saved(s),
         \A r \in net' : Granted(r) => r \in net
  PROVE  Quiet
<1> DEFINE vote == VoteIn(s, term)
<1>1. /\ CurrentTerm' = [CurrentTerm EXCEPT ![s] = term]
      /\ VotedFor' = [VotedFor EXCEPT ![s] = vote]
      /\ State' = [State EXCEPT ![s] = Follower]
      /\ votes' = votes
  BY DEF FollowTerm
<1>2. \/ term > CurrentTerm[s]
      \/ term = CurrentTerm[s] /\ vote = VotedFor[s]
  <2>1. CurrentTerm[s] \in Nat
    BY FieldTypes
  <2>2. term >= CurrentTerm[s] /\ vote = IF term > CurrentTerm[s] THEN NotVoted ELSE VotedFor[s]
    BY DEF FollowTerm, VoteIn
  <2>3. QED
    BY <2>1, <2>2
<1> HIDE DEF vote
<1>3. QED
  BY <1>1, <1>2, QuietWhenFollowing

-----------------------------------------------------------------------------
(***************************************************************************)
(* Handlers that are quiet.                                                *)
(***************************************************************************)
LEMMA persistSaves ==
  ASSUME NEW s \in Server, persist(s)
  PROVE  Saved(s)
BY DEF persist, Saved

\* A reply other than a granted vote, or none at all, is no new vote.
LEMMA NothingGranted ==
  ASSUME NEW r, ~Granted(r), net' \subseteq net \cup {r}
  PROVE  \A x \in net' : Granted(x) => x \in net
OBVIOUS

\* The steps of the leader, of the service and of the Applier.
LEMMA LocalQuiet ==
  ASSUME IndInv, NEW s \in Server,
         \/ TickerTimeout(s)
         \/ \E c \in Command : Start(s, c)
         \/ \E p \in Server : BroadcastEntries(s, p) \/ PrepareSnapShot(s, p)
         \/ \E m \in sending[s] : sendSnapShot(s, m) \/ sendSnapShotNotLeader(s, m)
         \/ Snapshot(s)
         \/ ApplierTakeSnapshot(s) \/ ApplierTakeEntries(s)
         \/ ApplierSend(s) \/ ApplierDone(s)
  PROVE  Quiet
<1>1. TypeOK
  BY DEF IndInv
<1>2. UNCHANGED <<CurrentTerm, VotedFor, State, votes>>
  BY DEF TickerTimeout, Start, BroadcastEntries, PrepareSnapShot, sendSnapShot,
         sendSnapShotNotLeader, Snapshot, ApplierTakeSnapshot, ApplierTakeEntries,
         ApplierSend, ApplierDone, electionVars
<1>3. Saved(s)
  BY DEF Saved, persist, TickerTimeout, Start, BroadcastEntries, PrepareSnapShot,
         sendSnapShot, sendSnapShotNotLeader, Snapshot, ApplierTakeSnapshot,
         ApplierTakeEntries, ApplierSend, ApplierDone
<1>4. \A r \in net' : Granted(r) => r \in net
  <2>1. CASE \E p \in Server : BroadcastEntries(s, p)
    <3>1. PICK p \in Server : BroadcastEntries(s, p)
      BY <2>1
    <3> DEFINE call ==
          [type |-> "AppendEntries", from |-> s, to |-> p, boot |-> boot[s],
           Term |-> CurrentTerm[s], PrevLogIndex |-> NextIndex[s][p] - 1,
           PrevLogTerm |-> GetLogEntry(s, NextIndex[s][p] - 1).Term,
           Entries |-> GetLogSlices(s, NextIndex[s][p], GetLastLog(s).Index + 1),
           LeaderCommit |-> CommitIndex[s]]
    <3>2. net' \subseteq net \cup {call}
      BY <3>1, SendAdds DEF BroadcastEntries
    <3>3. ~Granted(call)
      BY DEF Granted
    <3> HIDE DEF call
    <3>4. QED
      BY <3>2, <3>3, NothingGranted
  <2>2. CASE \E m \in sending[s] : sendSnapShot(s, m)
    <3>1. PICK m \in sending[s] : sendSnapShot(s, m)
      BY <2>2
    <3>2. m \in InstallSnapshotArgs
      BY <1>1 DEF TypeOK
    <3>3. ~Granted(m)
      BY <3>2 DEF InstallSnapshotArgs, Granted
    <3>4. net' \subseteq net \cup {m}
      BY <3>1, SendAdds DEF sendSnapShot
    <3>5. QED
      BY <3>3, <3>4, NothingGranted
  <2>3. CASE UNCHANGED net
    BY <2>3
  <2>4. QED
    BY <2>1, <2>2, <2>3
       DEF TickerTimeout, Start, PrepareSnapShot, sendSnapShotNotLeader, Snapshot,
           ApplierTakeSnapshot, ApplierTakeEntries, ApplierSend, ApplierDone
<1>5. QED
  BY <1>1, <1>2, <1>3, <1>4, QuietWhenUnchanged

\* A restart goes back to what was saved, as a follower.
LEMMA MakeQuiet ==
  ASSUME IndInv, NEW s \in Server, Make(s)
  PROVE  Quiet
<1>1. TypeOK
  BY DEF IndInv
<1>2. /\ CurrentTerm' = [CurrentTerm EXCEPT ![s] = disk[s].CurrentTerm]
      /\ VotedFor' = [VotedFor EXCEPT ![s] = disk[s].VotedFor]
      /\ State' = [State EXCEPT ![s] = Follower]
      /\ votes' = [votes EXCEPT ![s] = {}]
      /\ net' \subseteq net
      /\ disk' = disk
  BY DEF Make, readPersist
<1> SUFFICES ASSUME NEW p \in Server PROVE Advances(p) /\ Stays(p)
  BY <1>2 DEF Quiet
<1>3. CASE p = s
  BY <1>1, <1>2, <1>3 DEF Advances, Stays, TypeOK, Follower, Candidate, Leader
<1>4. CASE p # s
  BY <1>1, <1>2, <1>4 DEF Advances, Stays, TypeOK
<1>5. QED
  BY <1>3, <1>4

LEMMA AppendEntriesQuiet ==
  ASSUME IndInv, NEW m \in net, m.type = "AppendEntries",
         AppendEntriesStale(m) \/ AppendEntriesReject(m) \/ AppendEntriesAccept(m)
  PROVE  Quiet
<1> DEFINE s == m.to
<1>1. TypeOK
  BY DEF IndInv
<1>2. s \in Server /\ m.Term \in Nat
  BY <1>1, MessageTypes DEF AppendEntriesArgs
<1>3. PICK term, result : Respond(m, EntriesReply(m, term, result))
  BY DEF AppendEntriesStale, AppendEntriesReject, AppendEntriesAccept
<1>4. ~Granted(EntriesReply(m, term, result))
  BY DEF Granted, EntriesReply
<1>5. \A r \in net' : Granted(r) => r \in net
  BY <1>3, <1>4, RespondAdds, NothingGranted
<1>6. Saved(s)
  BY <1>2, persistSaves DEF AppendEntriesStale, AppendEntriesReject, AppendEntriesAccept
<1>7. CASE AppendEntriesStale(m)
  BY <1>1, <1>2, <1>5, <1>6, <1>7, QuietWhenUnchanged DEF AppendEntriesStale, electionVars
<1>8. CASE FollowTerm(s, m.Term)
  BY <1>1, <1>2, <1>5, <1>6, <1>8, FollowTermQuiet
<1>9. QED
  BY <1>7, <1>8 DEF AppendEntriesReject, AppendEntriesAccept

\* Also when InstallSnapShot() adopts a term without saving it.
LEMMA InstallSnapShotQuiet ==
  ASSUME IndInv, NEW m \in net, m.type = "InstallSnapShot",
         InstallSnapShotStale(m) \/ InstallSnapShotOld(m) \/ InstallSnapShot(m)
  PROVE  Quiet
<1> DEFINE s == m.to
<1>1. TypeOK
  BY DEF IndInv
<1>2. s \in Server /\ m.Term \in Nat
  BY <1>1, MessageTypes DEF InstallSnapshotArgs
<1>3. Respond(m, SnapShotReply(m, CurrentTerm[s]))
  BY DEF InstallSnapShotStale, InstallSnapShotOld, InstallSnapShot
<1>4. ~Granted(SnapShotReply(m, CurrentTerm[s]))
  BY DEF Granted, SnapShotReply
<1>5. \A r \in net' : Granted(r) => r \in net
  BY <1>3, <1>4, RespondAdds, NothingGranted
<1>6. Saved(s)
  BY DEF InstallSnapShotStale, InstallSnapShotOld, InstallSnapShot, Saved
<1>7. CASE InstallSnapShotStale(m)
  BY <1>1, <1>2, <1>5, <1>6, <1>7, QuietWhenUnchanged DEF InstallSnapShotStale, electionVars
<1>8. CASE FollowTerm(s, m.Term)
  BY <1>1, <1>2, <1>5, <1>6, <1>8, FollowTermQuiet
<1>9. QED
  BY <1>7, <1>8 DEF InstallSnapShotOld, InstallSnapShot

\* A refused vote.
LEMMA RefuseQuiet ==
  ASSUME IndInv, NEW m \in net, m.type = "RequestVote",
         RequestVoteStale(m) \/ RequestVoteRefuse(m)
  PROVE  Quiet
<1> DEFINE s == m.to
<1>1. TypeOK
  BY DEF IndInv
<1>2. s \in Server /\ m.Term \in Nat /\ CurrentTerm[s] \in Nat
  <2>1. s \in Server /\ m.Term \in Nat
    BY <1>1, MessageTypes DEF RequestVoteArgs
  <2>2. QED
    BY <1>1, <2>1 DEF TypeOK
<1>3. PICK term : Respond(m, VoteReply(m, term, FALSE))
  BY DEF RequestVoteStale, RequestVoteRefuse
<1>4. ~Granted(VoteReply(m, term, FALSE))
  BY DEF Granted, VoteReply
<1>5. \A r \in net' : Granted(r) => r \in net
  BY <1>3, <1>4, RespondAdds, NothingGranted
<1>6. Saved(s)
  BY <1>2, persistSaves DEF RequestVoteStale, RequestVoteRefuse, Saved
<1>7. CASE RequestVoteStale(m)
  BY <1>1, <1>2, <1>5, <1>6, <1>7, QuietWhenUnchanged DEF RequestVoteStale, electionVars
<1>8. CASE RequestVoteRefuse(m) /\ m.Term > CurrentTerm[s]
  <2> DEFINE vote == VoteIn(s, m.Term)
  <2>1. /\ CurrentTerm' = [CurrentTerm EXCEPT ![s] = m.Term]
        /\ VotedFor' = [VotedFor EXCEPT ![s] = vote]
        /\ State' = [State EXCEPT ![s] = Follower]
        /\ votes' = votes
    BY <1>8 DEF RequestVoteRefuse
  <2> HIDE DEF vote
  <2>2. QED
    BY <1>1, <1>2, <1>5, <1>6, <1>8, <2>1, QuietWhenFollowing
<1>9. CASE RequestVoteRefuse(m) /\ ~(m.Term > CurrentTerm[s])
  <2>1. m.Term = CurrentTerm[s]
    BY <1>2, <1>9 DEF RequestVoteRefuse
  <2>2. /\ CurrentTerm' = [CurrentTerm EXCEPT ![s] = CurrentTerm[s]]
        /\ VotedFor' = [VotedFor EXCEPT ![s] = VotedFor[s]]
        /\ State' = State
        /\ votes' = votes
    BY <1>2, <1>9, <2>1 DEF RequestVoteRefuse, VoteIn
  <2>3. UNCHANGED <<CurrentTerm, VotedFor, State, votes>>
    BY <1>1, <2>2 DEF TypeOK
  <2>4. QED
    BY <1>1, <1>2, <1>5, <1>6, <2>3, QuietWhenUnchanged
<1>10. QED
  BY <1>7, <1>8, <1>9

\* Replies that are no votes, and votes that come too late.
LEMMA ReplyQuiet ==
  ASSUME IndInv, NEW m \in net,
         \/ m.type = "RequestVoteReply" /\ (VoteReplyIgnored(m) \/ VoteReplyHigherTerm(m))
         \/ /\ m.type = "AppendEntriesReply"
            /\ \/ ReplyOutdated(m) \/ EntriesReplyHigherTerm(m)
               \/ EntriesReplySuccess(m) \/ EntriesReplyFailure(m)
         \/ /\ m.type = "InstallSnapShotReply"
            /\ ReplyOutdated(m) \/ SnapShotReplyHigherTerm(m) \/ SnapShotReplySuccess(m)
  PROVE  Quiet
<1> DEFINE s == m.args.from
<1>1. TypeOK
  BY DEF IndInv
<1>2. s \in Server /\ m.Term \in Nat
  <2>1. m \in RequestVoteReply \cup AppendEntriesReply \cup InstallSnapshotReply
    BY <1>1, MessageTypes
  <2>2. QED
    BY <2>1 DEF RequestVoteReply, AppendEntriesReply, InstallSnapshotReply,
                RequestVoteArgs, AppendEntriesArgs, InstallSnapshotArgs
<1>3. \A r \in net' : Granted(r) => r \in net
  <2>1. net' \subseteq net
    BY ConsumeAdds DEF VoteReplyIgnored, VoteReplyHigherTerm, ReplyOutdated,
       EntriesReplyHigherTerm, EntriesReplySuccess, EntriesReplyFailure,
       SnapShotReplyHigherTerm, SnapShotReplySuccess
  <2>2. QED
    BY <2>1
<1>4. Saved(s)
  BY <1>2, persistSaves
     DEF VoteReplyIgnored, VoteReplyHigherTerm, ReplyOutdated,
         EntriesReplyHigherTerm, EntriesReplySuccess, EntriesReplyFailure,
         SnapShotReplyHigherTerm, SnapShotReplySuccess, Saved
<1>5. CASE VoteReplyHigherTerm(m) \/ SnapShotReplyHigherTerm(m)
  <2>1. /\ CurrentTerm' = [CurrentTerm EXCEPT ![s] = m.Term]
        /\ State' = [State EXCEPT ![s] = Follower]
        /\ votes' = votes /\ VotedFor' = VotedFor
        /\ m.Term > CurrentTerm[s]
    BY <1>5 DEF VoteReplyHigherTerm, SnapShotReplyHigherTerm
  <2>2. VotedFor' = [VotedFor EXCEPT ![s] = VotedFor[s]]
    BY <1>1, <2>1 DEF TypeOK
  <2>3. QED
    BY <1>1, <1>2, <1>3, <1>4, <2>1, <2>2, QuietWhenFollowing
<1>6. CASE EntriesReplyHigherTerm(m)
  <2>1. /\ CurrentTerm' = [CurrentTerm EXCEPT ![s] = m.Term]
        /\ State' = [State EXCEPT ![s] = Follower]
        /\ VotedFor' = [VotedFor EXCEPT ![s] = NotVoted]
        /\ votes' = votes
        /\ m.Term > CurrentTerm[s]
    BY <1>6 DEF EntriesReplyHigherTerm
  <2>2. QED
    BY <1>1, <1>2, <1>3, <1>4, <2>1, QuietWhenFollowing
<1>7. CASE \/ VoteReplyIgnored(m) \/ ReplyOutdated(m) \/ EntriesReplySuccess(m)
           \/ EntriesReplyFailure(m) \/ SnapShotReplySuccess(m)
  <2>1. UNCHANGED <<CurrentTerm, VotedFor, State, votes>>
    BY <1>7 DEF VoteReplyIgnored, ReplyOutdated, EntriesReplySuccess,
                EntriesReplyFailure, SnapShotReplySuccess, electionVars
  <2>2. QED
    BY <1>1, <1>2, <1>3, <1>4, <2>1, QuietWhenUnchanged
<1>8. QED
  BY <1>5, <1>6, <1>7

-----------------------------------------------------------------------------
(***************************************************************************)
(* The three steps that move a vote.                                       *)
(***************************************************************************)
\* A candidate votes for itself in a term it has not been in.
LEMMA AttemptElectionCasts ==
  ASSUME TypeOK, NEW s \in Server, AttemptElection(s)
  PROVE  /\ \A p \in Server : Advances(p)
         /\ \A v, c \in Server, term \in Nat :
              HasVote(v, c, term)' =>
                HasVote(v, c, term) \/ (v = s /\ c = s /\ term = CurrentTerm[s] + 1)
<1>1. TypeOK /\ CurrentTerm[s] \in Nat /\ CurrentTerm \in [Server -> Nat]
  BY FieldTypes DEF TypeOK
<1> DEFINE new == CurrentTerm[s] + 1
<1>2. /\ State' = [State EXCEPT ![s] = Candidate]
      /\ CurrentTerm' = [CurrentTerm EXCEPT ![s] = new]
      /\ VotedFor' = [VotedFor EXCEPT ![s] = s]
      /\ votes' = [votes EXCEPT ![s] = {s}]
      /\ persist(s)
  BY DEF AttemptElection
<1>3. \A p \in Server : Advances(p)
  <2> TAKE p \in Server
  <2>1. \/ disk'[p].CurrentTerm = CurrentTerm'[p] /\ disk'[p].VotedFor = VotedFor'[p]
        \/ disk'[p] = disk[p]
    BY <1>1, <1>2, persistSaves, SavedDisk
  <2>2. CASE p = s
    <3>1. CurrentTerm'[p] = new
      BY <1>1, <1>2, <2>2
    <3>2. new > CurrentTerm[p]
      BY <1>1, <2>2
    <3>3. QED
      BY <2>1, <3>1, <3>2 DEF Advances
  <2>3. CASE p # s
    BY <1>1, <1>2, <2>1, <2>3 DEF Advances, TypeOK
  <2>4. QED
    BY <2>2, <2>3
<1>4. \A r \in net' : Granted(r) => r \in net
  BY CandidateAsks DEF Granted
<1>5. ASSUME NEW v \in Server, NEW c \in Server, NEW term \in Nat, HasVote(v, c, term)'
      PROVE  HasVote(v, c, term) \/ (v = s /\ c = s /\ term = new)
  <2>1. CASE \E r \in net' : /\ Granted(r)
                            /\ r.args.to = v /\ r.args.from = c /\ r.args.Term = term
    BY <1>4, <2>1 DEF HasVote, Granted
  <2>2. CASE /\ State'[c] \in {Candidate, Leader}
             /\ CurrentTerm'[c] = term
             /\ v \in votes'[c]
    <3>1. CASE c = s
      BY <1>1, <1>2, <2>2, <3>1 DEF TypeOK
    <3>2. CASE c # s
      <4>1. State'[c] = State[c] /\ CurrentTerm'[c] = CurrentTerm[c] /\ votes'[c] = votes[c]
        BY <1>1, <1>2, <3>2 DEF TypeOK
      <4>2. QED
        BY <2>2, <4>1 DEF HasVote
    <3>3. QED
      BY <3>1, <3>2
  <2>3. QED
    BY <1>5, <2>1, <2>2 DEF HasVote, Granted
<1>6. QED
  BY <1>3, <1>5

\* A voter that grants its vote has given none to another in that term.
LEMMA GrantCasts ==
  ASSUME TypeOK, NEW m \in net, m.type = "RequestVote", RequestVoteGrant(m)
  PROVE  /\ \A p \in Server : Advances(p) /\ Stays(p)
         /\ CurrentTerm[m.to] = m.Term => VotedFor[m.to] \in {NotVoted, m.from}
         /\ \A v, c \in Server, term \in Nat :
              HasVote(v, c, term)' =>
                HasVote(v, c, term) \/ (v = m.to /\ c = m.from /\ term = m.Term)
<1> DEFINE s == m.to
           r == VoteReply(m, m.Term, TRUE)
<1>1. TypeOK
  OBVIOUS
<1>2. s \in Server /\ m.from \in Server /\ m.Term \in Nat
  BY <1>1, MessageTypes DEF RequestVoteArgs
<1>3. CurrentTerm[s] \in Nat
  BY <1>1, <1>2 DEF TypeOK
<1>4. /\ m.Term >= CurrentTerm[s]
      /\ VoteIn(s, m.Term) \in {NotVoted, m.from}
      /\ CurrentTerm' = [CurrentTerm EXCEPT ![s] = m.Term]
      /\ VotedFor' = [VotedFor EXCEPT ![s] = m.from]
      /\ State' = IF m.Term > CurrentTerm[s] THEN [State EXCEPT ![s] = Follower]
                                             ELSE State
      /\ votes' = votes
      /\ persist(s)
      /\ Respond(m, r)
  BY DEF RequestVoteGrant, MayVote
<1>5. net' \subseteq net \cup {r}
  BY <1>4, RespondAdds
<1>6. r.args = m
  BY DEF VoteReply
<1> HIDE DEF r
<1>7. CurrentTerm[s] = m.Term => VotedFor[s] \in {NotVoted, m.from}
  BY <1>3, <1>4 DEF VoteIn
<1>8. \A p \in Server : Advances(p) /\ Stays(p)
  <2> TAKE p \in Server
  <2>1. \/ disk'[p].CurrentTerm = CurrentTerm'[p] /\ disk'[p].VotedFor = VotedFor'[p]
        \/ disk'[p] = disk[p]
    BY <1>1, <1>2, <1>4, persistSaves, SavedDisk
  <2>2. CASE p = s
    <3>1. CurrentTerm'[p] = m.Term /\ VotedFor'[p] = m.from
      BY <1>1, <1>4, <2>2 DEF TypeOK
    <3>2. Advances(p)
      <4>1. m.Term \in Nat /\ m.Term >= CurrentTerm[s]
        BY <1>2, <1>4
      <4>2. m.Term > CurrentTerm[s] \/ m.Term = CurrentTerm[s]
        BY <1>3, <4>1
      <4>3. CurrentTerm'[p] = CurrentTerm[p] =>
              VotedFor'[p] = VotedFor[p] \/ VotedFor[p] = NotVoted
        BY <1>7, <2>2, <3>1
      <4>4. CurrentTerm'[p] > CurrentTerm[p] \/ CurrentTerm'[p] = CurrentTerm[p]
        BY <2>2, <3>1, <4>2
      <4>5. QED
        BY <2>1, <4>3, <4>4 DEF Advances
    <3>3. Stays(p)
      <4>1. CASE m.Term > CurrentTerm[s]
        <5>1. State'[p] = Follower
          BY <1>1, <1>2, <1>4, <2>2, <4>1 DEF TypeOK
        <5>2. QED
          BY <5>1 DEF Stays, Follower, Candidate, Leader
      <4>2. CASE ~(m.Term > CurrentTerm[s])
        <5>1. m.Term = CurrentTerm[s] /\ State' = State
          BY <1>2, <1>3, <1>4, <4>2
        <5>2. QED
          BY <1>4, <2>2, <3>1, <5>1 DEF Stays
      <4>3. QED
        BY <4>1, <4>2
    <3>4. QED
      BY <3>2, <3>3
  <2>3. CASE p # s
    BY <1>1, <1>4, <2>1, <2>3 DEF Advances, Stays, TypeOK
  <2>4. QED
    BY <2>2, <2>3
<1>9. ASSUME NEW v \in Server, NEW c \in Server, NEW term \in Nat, HasVote(v, c, term)'
      PROVE  HasVote(v, c, term) \/ (v = s /\ c = m.from /\ term = m.Term)
  <2>1. CASE \E x \in net' : /\ Granted(x)
                             /\ x.args.to = v /\ x.args.from = c /\ x.args.Term = term
    <3>1. PICK x \in net' : /\ Granted(x)
                            /\ x.args.to = v /\ x.args.from = c /\ x.args.Term = term
      BY <2>1
    <3>2. CASE x \in net
      BY <3>1, <3>2 DEF HasVote, Granted
    <3>3. CASE x = r
      BY <1>6, <3>1, <3>3
    <3>4. QED
      BY <1>5, <3>2, <3>3
  <2>2. CASE /\ State'[c] \in {Candidate, Leader}
             /\ CurrentTerm'[c] = term
             /\ v \in votes'[c]
    BY <1>8, <2>2 DEF Stays, HasVote
  <2>3. QED
    BY <1>9, <2>1, <2>2 DEF HasVote, Granted
<1>10. QED
  BY <1>7, <1>8, <1>9

\* A counted vote moves from the reply to the tally.
LEMMA CountCasts ==
  ASSUME TypeOK, NEW m \in net, m.type = "RequestVoteReply", VoteReplyGranted(m)
  PROVE  /\ \A p \in Server \ {m.args.from} : State'[p] = State[p] /\ votes'[p] = votes[p]
         /\ \A v, c \in Server, term \in Nat : HasVote(v, c, term)' => HasVote(v, c, term)
<1> DEFINE s == m.args.from
<1>1. TypeOK
  OBVIOUS
<1>2. s \in Server /\ m.args.to \in Server
  BY <1>1, MessageTypes DEF RequestVoteReply, RequestVoteArgs
<1>3. /\ State[s] = Candidate /\ CurrentTerm[s] = m.args.Term /\ m.VoteGrabted
      /\ votes' = [votes EXCEPT ![s] = @ \cup {m.args.to}]
      /\ IF Cardinality(votes'[s]) >= Majority
           THEN BecomeLeader(s)
           ELSE UNCHANGED <<State, leaderVars>>
      /\ Consume(m)
      /\ UNCHANGED <<CurrentTerm, VotedFor, disk>>
  BY DEF VoteReplyGranted
<1>4. net' \subseteq net
  BY <1>3, ConsumeAdds
<1>5. ASSUME NEW p \in Server, p # s
      PROVE  State'[p] = State[p] /\ votes'[p] = votes[p]
  <2>1. State' = State \/ State' = [State EXCEPT ![s] = Leader]
    BY <1>3 DEF BecomeLeader
  <2>2. State'[p] = State[p]
    BY <1>1, <1>5, <2>1 DEF TypeOK
  <2>3. votes'[p] = votes[p]
    BY <1>1, <1>3, <1>5 DEF TypeOK
  <2>4. QED
    BY <2>2, <2>3
<1>6. ASSUME NEW v \in Server, NEW c \in Server, NEW term \in Nat, HasVote(v, c, term)'
      PROVE  HasVote(v, c, term)
  <2>1. CASE \E x \in net' : /\ Granted(x)
                             /\ x.args.to = v /\ x.args.from = c /\ x.args.Term = term
    BY <1>4, <2>1 DEF HasVote, Granted
  <2>2. CASE /\ State'[c] \in {Candidate, Leader}
             /\ CurrentTerm'[c] = term
             /\ v \in votes'[c]
    <3>1. State[c] \in {Candidate, Leader} /\ CurrentTerm[c] = term
      <4>1. CASE c = s
        BY <1>3, <2>2, <4>1
      <4>2. CASE c # s
        BY <1>3, <1>5, <2>2, <4>2
      <4>3. QED
        BY <4>1, <4>2
    <3>2. CASE v \in votes[c]
      BY <3>1, <3>2 DEF HasVote
    <3>3. CASE v \notin votes[c]
      <4>1. c = s /\ v = m.args.to
        <5>1. votes'[s] = votes[s] \cup {m.args.to}
          <6>1. DOMAIN votes = Server
            BY <1>1 DEF TypeOK
          <6>2. votes' = [votes EXCEPT ![s] = @ \cup {m.args.to}]
            BY <1>3
          <6>3. QED
            BY <1>2, <6>1, <6>2
        <5>2. c = s
          BY <1>5, <2>2, <3>3
        <5>3. QED
          BY <2>2, <3>3, <5>1, <5>2
      <4>2. m.args.Term = term
        BY <1>3, <3>1, <4>1
      <4>3. QED
        BY <1>3, <4>1, <4>2 DEF HasVote
    <3>4. QED
      BY <3>2, <3>3
  <2>3. QED
    BY <1>6, <2>1, <2>2 DEF HasVote, Granted
<1>7. QED
  BY <1>5, <1>6

-----------------------------------------------------------------------------
\* Two majorities have a peer in common.
LEMMA MajoritiesMeet ==
  ASSUME Counting,
         NEW Q \in SUBSET Server, NEW R \in SUBSET Server,
         Cardinality(Q) >= Majority, Cardinality(R) >= Majority
  PROVE  \E v \in Server : v \in Q /\ v \in R
BY DEF Counting

-----------------------------------------------------------------------------
(***************************************************************************)
(* A won election stays won.                                               *)
(***************************************************************************)
LEMMA PledgeKept ==
  ASSUME TypeOK, TypeOK', Regular, NEW v \in Server, NEW c \in Server, NEW t \in Nat,
         Pledged(v, c, t)
  PROVE  Pledged(v, c, t)'
<1>1. Bound(v, c, t) /\ Bound(v, c, t)'
  BY BoundKept DEF Pledged, Regular
<1>2. CurrentTerm[v] \in Nat /\ c # NotVoted
  BY ServerAssumption DEF TypeOK
<1>3. ASSUME NEW d \in Server, HasVote(v, d, t)' PROVE d = c
  <2>1. CASE HasVote(v, d, t)
    BY <2>1 DEF Pledged
  <2>2. CASE ~HasVote(v, d, t)
    <3>1. t > CurrentTerm[v] \/ (t = CurrentTerm[v] /\ VotedFor[v] \in {NotVoted, d})
      BY <1>3, <2>2 DEF Regular, Casts
    <3>2. CurrentTerm[v] > t \/ (CurrentTerm[v] = t /\ VotedFor[v] = c)
      BY <1>1 DEF Bound
    <3>3. t = CurrentTerm[v] /\ VotedFor[v] \in {NotVoted, d} /\ VotedFor[v] = c
      BY <1>2, <3>1, <3>2, SMTT(60), Z3T(60)
    <3>4. QED
      BY <1>2, <3>3
  <2>3. QED
    BY <2>1, <2>2
<1>4. QED
  BY <1>1, <1>3 DEF Pledged

LEMMA WonKept ==
  ASSUME TypeOK, TypeOK', Regular, NEW w \in Server, NEW t \in Nat, Won(w, t)
  PROVE  Won(w, t)'
<1>1. /\ CurrentTerm[w] \in Nat /\ CurrentTerm'[w] \in Nat
      /\ disk[w].CurrentTerm \in Nat /\ disk'[w].CurrentTerm \in Nat
  BY DEF TypeOK, Persisted
<1>2. Advances(w) /\ Stands(w)
  BY DEF Regular
<1>3. CurrentTerm'[w] >= t
  BY <1>1, <1>2 DEF Advances, Won
<1>4. disk'[w].CurrentTerm >= t
  BY <1>1, <1>2, <1>3 DEF Advances, Won
<1>5. ~(State'[w] = Candidate /\ CurrentTerm'[w] = t)
  BY <1>1, <1>2 DEF Stands, Won
<1>6. PICK Q \in SUBSET Server : /\ Cardinality(Q) >= Majority
                                 /\ \A v \in Q : Pledged(v, w, t)
  BY DEF Won
<1>7. \A v \in Q : Pledged(v, w, t)'
  BY <1>6, PledgeKept
<1>8. \E R \in SUBSET Server : /\ Cardinality(R) >= Majority'
                               /\ \A v \in R : Pledged(v, w, t)'
  BY <1>6, <1>7 DEF Majority
<1>9. QED
  BY <1>3, <1>4, <1>5, <1>8 DEF Won

-----------------------------------------------------------------------------
(***************************************************************************)
(* The steps that append, copy, merge or cut entries.                      *)
(***************************************************************************)
LEMMA LastLogPrime ==
  ASSUME IndInv', NEW s \in Server
  PROVE  /\ (GetLastLog(s).Index)' = LastIncludedIndex'[s] + Len(Log'[s]) - 1
         /\ Log'[s] \in Seq(LogEntry) /\ Len(Log'[s]) \in Nat /\ Len(Log'[s]) >= 1
         /\ LastIncludedIndex'[s] \in Nat
<1>1. Log'[s] \in Seq(LogEntry) /\ Log'[s] # <<>> /\ LastIncludedIndex'[s] \in Nat
  BY DEF IndInv, TypeOK, Log0
<1>2. Len(Log'[s]) \in Nat /\ Len(Log'[s]) >= 1
  BY <1>1, EmptySeq, SeqElements, SMTT(60), Z3T(60)
<1>3. \A k \in 1 .. Len(Log'[s]) : Log'[s][k].Index = LastIncludedIndex'[s] + k - 1
  BY DEF IndInv, LogIndexing
<1>4. Len(Log'[s]) \in 1 .. Len(Log'[s])
  BY <1>2
<1>5. Log'[s][Len(Log'[s])].Index = LastIncludedIndex'[s] + Len(Log'[s]) - 1
  BY <1>3, <1>4
<1>6. QED
  BY <1>1, <1>2, <1>5 DEF GetLastLog

\* What checkLogConsistency() has found out when it succeeds.
LEMMA Consistent ==
  ASSUME NEW s, NEW m, checkLogConsistency(s, m).Success
  PROVE  HasLogEntry(s, m.PrevLogIndex) /\ GetLogEntry(s, m.PrevLogIndex).Term = m.PrevLogTerm
<1>1. \A a, b, c : ~Rejected(a, b, c).Success
  BY DEF Rejected
<1>2. QED
  BY <1>1, ZenonT(60) DEF checkLogConsistency

-----------------------------------------------------------------------------
(***************************************************************************)
(* Who makes a replication call leads, or has moved on to a later term.    *)
(***************************************************************************)
LEMMA CallTypes == TypeOK => CallsTyped
<1> SUFFICES ASSUME TypeOK PROVE CallsTyped
  OBVIOUS
<1>1. ASSUME NEW m \in net, Call(m)
      PROVE  m.from \in Server /\ m.to \in Server /\ m.Term \in Nat /\ m.boot \in Nat
  <2>1. m \in AppendEntriesArgs \/ m \in InstallSnapshotArgs
    BY <1>1, MessageTypes DEF Call
  <2>2. QED
    BY <2>1 DEF AppendEntriesArgs, InstallSnapshotArgs
<1>2. ASSUME NEW m \in net, CallReply(m)
      PROVE  m.args.from \in Server /\ m.args.Term \in Nat
  <2>1. m \in AppendEntriesReply \/ m \in InstallSnapshotReply
    BY <1>2, MessageTypes DEF CallReply
  <2>2. m.args \in AppendEntriesArgs \/ m.args \in InstallSnapshotArgs
    BY <2>1 DEF AppendEntriesReply, InstallSnapshotReply
  <2>3. QED
    BY <2>2 DEF AppendEntriesArgs, InstallSnapshotArgs
<1>3. ASSUME NEW s \in Server, NEW m \in sending[s]
      PROVE  m.from \in Server /\ m.to \in Server /\ m.Term \in Nat /\ m.boot \in Nat
  <2>1. m \in InstallSnapshotArgs
    BY DEF TypeOK
  <2>2. QED
    BY <2>1 DEF InstallSnapshotArgs
<1>4. QED
  BY <1>1, <1>2, <1>3 DEF CallsTyped

LEMMA LeaderWon ==
  ASSUME ElectionInv, NEW s \in Server, TermSaved(s), State[s] = Leader
  PROVE  Won(s, CurrentTerm[s])
<1> DEFINE t == CurrentTerm[s]
<1>1. t \in Nat /\ votes[s] \in SUBSET Server
  BY DEF ElectionInv, IndInv, TypeOK
<1>2. ASSUME NEW v \in votes[s] PROVE Pledged(v, s, t)
  <2>1. HasVote(v, s, t)
    BY DEF HasVote
  <2>2. Bound(v, s, t)
    BY <1>1, <2>1 DEF ElectionInv, VotesBind
  <2>3. \A d \in Server : HasVote(v, d, t) => d = s
    BY <1>1, <2>1 DEF ElectionInv, VotesUnique
  <2>4. QED
    BY <2>2, <2>3 DEF Pledged
<1>3. Cardinality(votes[s]) >= Majority
  BY DEF ElectionInv, LeadersElected
<1>4. t >= t /\ disk[s].CurrentTerm >= t
  BY <1>1 DEF TermSaved
<1>5. QED
  BY <1>1, <1>2, <1>3, <1>4 DEF Won, Leader, Candidate

\* Nobody else has won a term that has a leader.
LEMMA LeaderOnlyWon ==
  ASSUME Counting,
         ElectionInv, NEW s \in Server, State[s] = Leader, NEW w \in Server,
         Won(w, CurrentTerm[s])
  PROVE  w = s
<1>1. votes[s] \in SUBSET Server /\ Cardinality(votes[s]) >= Majority
  BY DEF ElectionInv, IndInv, TypeOK, LeadersElected
<1>2. PICK Q \in SUBSET Server : /\ Cardinality(Q) >= Majority
                                 /\ \A v \in Q : Pledged(v, w, CurrentTerm[s])
  BY DEF Won
<1>3. PICK v \in Server : v \in Q /\ v \in votes[s]
  BY <1>1, <1>2, MajoritiesMeet
<1>4. HasVote(v, s, CurrentTerm[s])
  BY <1>3 DEF HasVote
<1>5. QED
  BY <1>2, <1>3, <1>4 DEF Pledged

-----------------------------------------------------------------------------
(***************************************************************************)
(* Tenure, action by action.                                               *)
(***************************************************************************)
\* A restart: the calls of the old process get no answer any more.
LEMMA BootIsNew ==
  ASSUME Counting,
         TypeOK, NEW s \in Server
  PROVE  LastBoot + 1 \in Nat /\ LastBoot + 1 > boot[s] /\ boot[s] \in Nat
<1> DEFINE B == {boot[p] : p \in Server}
<1>1. B \in SUBSET Nat /\ boot[s] \in B /\ \A x \in B : x <= MaxBoots
  BY BootType
<1>2. LastBoot = MaxOf(B)
  BY DEF LastBoot
<1> HIDE DEF B
<1>3. MaxOf(B) \in B /\ \A x \in B : MaxOf(B) >= x
  <2>1. B # {} /\ MaxBoots \in Nat
    BY <1>1, BoundAssumption
  <2>2. QED
    BY <1>1, <2>1, MaxOfNat
<1>4. LastBoot \in Nat /\ LastBoot >= boot[s] /\ boot[s] \in Nat
  BY <1>1, <1>2, <1>3
<1>5. QED
  BY <1>4

LEMMA MakeBoots ==
  ASSUME Counting,
         TypeOK, NEW s \in Server, Make(s)
  PROVE  boot'[s] # boot[s]
<1>1. boot'[s] = LastBoot + 1
  BY DEF Make, TypeOK
<1>2. LastBoot + 1 \in Nat /\ LastBoot + 1 > boot[s] /\ boot[s] \in Nat
  BY BootIsNew
<1>3. QED
  BY <1>1, <1>2, GeqSelf

-----------------------------------------------------------------------------
(***************************************************************************)
(* From here on no service takes a snapshot: nothing is ever cut from a    *)
(* log, and InstallSnapShot() never replaces one.                          *)
(***************************************************************************)
\* Saved terms do not fall.
LEMMA DiskGrows ==
  ASSUME TenureInv, TypeOK', Regular, NEW p \in Server
  PROVE  /\ disk[p].CurrentTerm \in Nat /\ disk'[p].CurrentTerm \in Nat
         /\ disk'[p].CurrentTerm >= disk[p].CurrentTerm
<1>1. /\ CurrentTerm[p] \in Nat /\ CurrentTerm'[p] \in Nat
      /\ disk[p].CurrentTerm \in Nat /\ disk'[p].CurrentTerm \in Nat
  BY DEF TenureInv, MatchingInv, ElectionInv, IndInv, TypeOK, Persisted
<1>2. TermSaved(p) /\ Advances(p)
  BY DEF TenureInv, Tenure, Regular
<1>3. QED
  BY <1>1, <1>2 DEF TermSaved, Advances

-----------------------------------------------------------------------------
(***************************************************************************)
(* Types and indices.                                                      *)
(***************************************************************************)
LEMMA InitIndInv == Init => IndInv
<1> SUFFICES ASSUME Init PROVE IndInv
  OBVIOUS
<1>1. InitialLog \in Log0 /\ Len(InitialLog) = 1 /\ InitialLog[1] = Placeholder(0, 0)
  BY DEF InitialLog, Log0, Placeholder, LogEntry
<1>2. Idle \in [busy : BOOLEAN, msgs : Seq(ApplyMsg), upto : Nat]
  BY DEF Idle
<1>3. <<>> \in Seq(Applied)
  OBVIOUS
<1>4. disk \in [Server -> Persisted]
  BY <1>1, <1>3 DEF Init, Persisted
<1>5. boot \in [Server -> 0 .. MaxBoots]
  BY BoundAssumption DEF Init
<1>6. TypeOK
  BY <1>1, <1>2, <1>3, <1>4, <1>5 DEF Init, TypeOK
<1>7. LogIndexing
  <2>1. \A k \in 1 .. Len(InitialLog) : InitialLog[k].Index = 0 + k - 1
    BY <1>1 DEF Placeholder
  <2>2. InitialLog[1].Term = 0
    BY <1>1 DEF Placeholder
  <2>3. QED
    BY <2>1, <2>2 DEF Init, LogIndexing
<1>8. EntriesIndexed
  BY DEF Init, EntriesIndexed
<1>9. QED
  BY <1>6, <1>7, <1>8 DEF IndInv

\* The commands sent on applyCh, one for each entry.
LEMMA CommandMsgs ==
  ASSUME NEW entries \in Seq(LogEntry)
  PROVE  /\ [k \in 1 .. Len(entries) |-> CommandMsg(entries[k])] \in Seq(ApplyMsg)
         /\ Len([k \in 1 .. Len(entries) |-> CommandMsg(entries[k])]) = Len(entries)
<1> DEFINE n == Len(entries)
           msgs == [k \in 1 .. n |-> CommandMsg(entries[k])]
<1>1. n \in Nat
  BY SeqElements
<1>2. ASSUME NEW e \in LogEntry PROVE CommandMsg(e) \in ApplyMsg
  <2>1. [Term |-> e.Term, Command |-> e.Command] \in Applied /\ e.Index \in Nat
    BY DEF LogEntry, Applied
  <2>2. QED
    BY <2>1 DEF CommandMsg, ApplyMsg
<1>3. \A k \in 1 .. n : entries[k] \in LogEntry
  BY SeqElements
<1>4. \A k \in 1 .. n : CommandMsg(entries[k]) \in ApplyMsg
  BY <1>2, <1>3
<1> HIDE DEF n
<1>5. msgs \in [1 .. n -> ApplyMsg]
  BY <1>4
<1>6. QED
  BY <1>1, <1>5 DEF n

-----------------------------------------------------------------------------
(***************************************************************************)
(* Types and indices, step by step.                                        *)
(***************************************************************************)
LEMMA NextIndInv ==
  ASSUME Counting
  PROVE  IndInv /\ [Next]_vars => IndInv'
(***************************************************************************)
(* Least and greatest elements.                                            *)
(***************************************************************************)
<1>1. ASSUME NEW a \in Nat, NEW b \in Nat
      PROVE  /\ MinOf({a, b}) \in {a, b} /\ MinOf({a, b}) \in Nat
             /\ MinOf({a, b}) <= a /\ MinOf({a, b}) <= b
  <2> USE <1>1
  <2> DEFINE S == {a, b}
  <2>1. S \in SUBSET Nat /\ S # {}
    OBVIOUS
  <2> HIDE DEF S
  <2>2. MinOf(S) \in S /\ \A y \in S : MinOf(S) <= y
    BY <2>1, MinOfNat
  <2>3. QED
    BY <2>2 DEF S
(***************************************************************************)
(* The network and the disk.                                               *)
(***************************************************************************)
\* Assigning one element of a table.
<1>2. ASSUME NEW S, NEW T, NEW f \in [S -> T], NEW x \in S, NEW v \in T
      PROVE  [f EXCEPT ![x] = v] \in [S -> T]
  BY <1>2
\* What is saved has the type of the Persister's content.
<1>3. ASSUME NEW s \in Server, NEW snapshot \in Seq(Applied), Save(s, snapshot),
             disk \in [Server -> Persisted],
             CurrentTerm' \in [Server -> Nat],
             VotedFor' \in [Server -> Server \cup {NotVoted}],
             Log' \in [Server -> Log0],
             LastIncludedIndex' \in [Server -> Nat],
             LastIncludedTerm' \in [Server -> Nat]
      PROVE  disk' \in [Server -> Persisted]
  BY <1>3 DEF Save, EncodeRaftState, Persisted
<1>4. ASSUME NEW s \in Server, persist(s),
             disk \in [Server -> Persisted],
             CurrentTerm' \in [Server -> Nat],
             VotedFor' \in [Server -> Server \cup {NotVoted}],
             Log' \in [Server -> Log0],
             LastIncludedIndex' \in [Server -> Nat],
             LastIncludedTerm' \in [Server -> Nat]
      PROVE  disk' \in [Server -> Persisted]
  <2> USE <1>4
  <2>1. disk[s].snapshot \in Seq(Applied)
    BY DEF Persisted
  <2>2. QED
    BY <2>1, <1>3 DEF persist
(***************************************************************************)
(* Steps that leave the log alone.                                         *)
(***************************************************************************)
\* Persisting an unchanged log keeps it indexed.
<1>5. ASSUME TypeOK, LogIndexing, UNCHANGED logVars, NEW s \in Server,
             persist(s) \/ UNCHANGED disk
      PROVE  LogIndexing'
  <2> USE <1>5
  <2>1. CASE UNCHANGED disk
    BY <2>1 DEF LogIndexing, logVars
  <2>2. CASE persist(s)
    <3>1. UNCHANGED <<Log, LastIncludedIndex, LastIncludedTerm>>
      BY DEF logVars
    <3>2. \A p \in Server : /\ disk'[p].Log = Log[p]
                            /\ disk'[p].LastIncludedIndex = LastIncludedIndex[p]
                            /\ disk'[p].LastIncludedTerm = LastIncludedTerm[p]
      BY <2>2, <3>1 DEF LogIndexing, persist, Save, EncodeRaftState, TypeOK
    <3>3. QED
      BY <3>1, <3>2 DEF LogIndexing
  <2>3. QED
    BY <2>1, <2>2
\* Messages that are not calls of AppendEntries may be added at will.
<1>6. ASSUME EntriesIndexed, NEW ms, net' \subseteq net \cup ms,
             \A r \in ms : r.type # "AppendEntries"
      PROVE  EntriesIndexed'
  BY <1>6 DEF EntriesIndexed
<1>7. ASSUME EntriesIndexed, NEW r, net' \subseteq net \cup {r}, r.type # "AppendEntries"
      PROVE  EntriesIndexed'
  BY <1>7 DEF EntriesIndexed
<1>8. ASSUME IndInv, NEW s \in Server, TickerTimeout(s)
      PROVE  IndInv'
  <2> USE <1>8
  <2>1. TypeOK'
    BY DEF IndInv, TickerTimeout, TypeOK, logVars, leaderVars, applyVars
  <2>2. LogIndexing'
    BY <1>5 DEF IndInv, TickerTimeout
  <2>3. EntriesIndexed'
    BY DEF IndInv, TickerTimeout, EntriesIndexed
  <2>4. QED
    BY <2>1, <2>2, <2>3 DEF IndInv
<1>9. ASSUME IndInv, NEW s \in Server, AttemptElection(s)
      PROVE  IndInv'
  <2> USE <1>9
  <2> DEFINE calls ==
         {[type |-> "RequestVote", from |-> s, to |-> p, boot |-> boot[s],
           Term |-> CurrentTerm[s] + 1, LastLogIndex |-> GetLastLog(s).Index,
           LastLogTerm |-> GetLastLog(s).Term] : p \in Server \ {s}}
  <2> USE DEF IndInv
  <2>1. /\ calls \subseteq RequestVoteArgs
        /\ \A r \in calls : r.type # "AppendEntries"
    <3>1. GetLastLog(s).Index \in Nat /\ GetLastLog(s).Term \in Nat
      BY LastLog
    <3>2. CurrentTerm[s] + 1 \in Nat /\ boot[s] \in Nat
      BY NextTerm, BootType
    <3>3. QED
      BY <3>1, <3>2 DEF RequestVoteArgs
  <2>2. net' \subseteq net \cup calls
    BY SendAdds DEF AttemptElection
  <2>3. net' \subseteq Message
    BY <2>1, <2>2 DEF TypeOK, Message
  <2>4. /\ CurrentTerm' \in [Server -> Nat]
        /\ VotedFor' \in [Server -> Server \cup {NotVoted}]
        /\ State' \in [Server -> {Leader, Candidate, Follower}]
        /\ votes' \in [Server -> SUBSET Server]
        /\ electing' \in [Server -> BOOLEAN]
    <3>1. CurrentTerm' \in [Server -> Nat]
      <4>1. /\ CurrentTerm \in [Server -> Nat] /\ CurrentTerm[s] + 1 \in Nat
            /\ CurrentTerm' = [CurrentTerm EXCEPT ![s] = CurrentTerm[s] + 1]
        BY NextTerm DEF AttemptElection, TypeOK
      <4>2. QED
        BY <4>1, <1>2
    <3>2. VotedFor' \in [Server -> Server \cup {NotVoted}]
      BY DEF AttemptElection, TypeOK
    <3>3. State' \in [Server -> {Leader, Candidate, Follower}]
      BY DEF AttemptElection, TypeOK
    <3>4. votes' \in [Server -> SUBSET Server] /\ electing' \in [Server -> BOOLEAN]
      BY DEF AttemptElection, TypeOK
    <3>5. QED
      BY <3>1, <3>2, <3>3, <3>4
  <2>5. disk' \in [Server -> Persisted]
    BY <2>4, <1>4 DEF AttemptElection, TypeOK, logVars
  <2>6. TypeOK'
    BY <2>3, <2>4, <2>5 DEF AttemptElection, TypeOK, logVars, leaderVars, applyVars
  <2>7. LogIndexing'
    BY <1>5 DEF AttemptElection
  <2>8. EntriesIndexed'
    BY <2>1, <2>2, <1>6
  <2>9. QED
    BY <2>6, <2>7, <2>8
<1>10. ASSUME TypeOK, NEW s \in Server, NEW term
       PROVE  VoteIn(s, term) \in Server \cup {NotVoted}
  BY <1>10 DEF TypeOK, VoteIn
<1>11. ASSUME IndInv, NEW m \in net, m.type = "RequestVote",
              RequestVoteStale(m) \/ RequestVoteRefuse(m) \/ RequestVoteGrant(m)
       PROVE  IndInv'
  <2> USE <1>11
  <2> USE DEF IndInv
  <2> DEFINE s == m.to
  <2>1. m \in RequestVoteArgs /\ s \in Server /\ m.from \in Server /\ m.Term \in Nat
    BY MessageTypes DEF RequestVoteArgs
  <2>2. PICK term \in Nat, granted \in BOOLEAN : Respond(m, VoteReply(m, term, granted))
    BY <2>1 DEF RequestVoteStale, RequestVoteRefuse, RequestVoteGrant, TypeOK
  <2>3. VoteReply(m, term, granted) \in RequestVoteReply
    BY <2>1 DEF VoteReply, RequestVoteReply
  <2>4. net' \subseteq net \cup {VoteReply(m, term, granted)}
    BY <2>2, RespondAdds
  <2>5. net' \subseteq Message
    BY <2>3, <2>4 DEF TypeOK, Message
  <2>6. /\ CurrentTerm' \in [Server -> Nat]
        /\ VotedFor' \in [Server -> Server \cup {NotVoted}]
        /\ State' \in [Server -> {Leader, Candidate, Follower}]
    <3>1. CASE RequestVoteStale(m)
      BY <3>1 DEF RequestVoteStale, electionVars, TypeOK
    <3>2. CASE RequestVoteRefuse(m)
      <4>1. VoteIn(s, m.Term) \in Server \cup {NotVoted}
        BY <2>1, <1>10
      <4>2. QED
        BY <2>1, <3>2, <4>1 DEF RequestVoteRefuse, TypeOK
    <3>3. CASE RequestVoteGrant(m)
      BY <2>1, <3>3 DEF RequestVoteGrant, TypeOK
    <3>4. QED
      BY <3>1, <3>2, <3>3
  <2>7. /\ UNCHANGED <<votes, electing, logVars, leaderVars, applyVars,
                       CommitIndex, sending, stuck, boot>>
        /\ persist(s) \/ UNCHANGED disk
    BY DEF RequestVoteStale, RequestVoteRefuse, RequestVoteGrant, electionVars
  <2>8. disk' \in [Server -> Persisted]
    BY <2>1, <2>6, <2>7, <1>4 DEF TypeOK, logVars
  <2>9. TypeOK'
    BY <2>5, <2>6, <2>7, <2>8 DEF TypeOK, logVars, leaderVars, applyVars
  <2>10. LogIndexing'
    BY <2>1, <2>7, <1>5
  <2>11. EntriesIndexed'
    <3>1. VoteReply(m, term, granted).type # "AppendEntries"
      BY DEF VoteReply
    <3>2. QED
      BY <2>4, <3>1, <1>7
  <2>12. QED
    BY <2>9, <2>10, <2>11
<1>12. ASSUME IndInv, NEW m \in net, m.type = "RequestVoteReply",
              VoteReplyIgnored(m) \/ VoteReplyHigherTerm(m) \/ VoteReplyGranted(m)
       PROVE  IndInv'
  <2> USE <1>12
  <2> USE DEF IndInv
  <2> DEFINE s == m.args.from
  <2>1. s \in Server /\ m.args.to \in Server /\ m.Term \in Nat
    BY MessageTypes DEF RequestVoteReply, RequestVoteArgs
  <2>2. net' \subseteq net
    BY ConsumeAdds DEF VoteReplyIgnored, VoteReplyHigherTerm, VoteReplyGranted
  <2>3. GetLastLog(s).Index + 1 \in Nat
    <3>1. GetLastLog(s).Index \in Nat
      BY <2>1, LastLog
    <3>2. QED
      BY <3>1, SuccNat
  <2>4. /\ CurrentTerm' \in [Server -> Nat]
        /\ State' \in [Server -> {Leader, Candidate, Follower}]
        /\ votes' \in [Server -> SUBSET Server]
        /\ NextIndex' \in [Server -> [Server -> Nat]]
        /\ MatchIndex' \in [Server -> [Server -> Nat]]
    <3>1. CASE VoteReplyIgnored(m)
      BY <3>1 DEF VoteReplyIgnored, TypeOK, electionVars, leaderVars
    <3>2. CASE VoteReplyHigherTerm(m)
      BY <2>1, <3>2 DEF VoteReplyHigherTerm, TypeOK, leaderVars
    <3>3. CASE VoteReplyGranted(m)
      <4>1. CurrentTerm' = CurrentTerm /\ votes' = [votes EXCEPT ![s] = @ \cup {m.args.to}]
        BY <3>3 DEF VoteReplyGranted
      <4>2. BecomeLeader(s) \/ UNCHANGED <<State, NextIndex, MatchIndex>>
        BY <3>3 DEF VoteReplyGranted, leaderVars
      <4>3. votes' \in [Server -> SUBSET Server]
        BY <2>1, <4>1 DEF TypeOK
      <4>4. State' \in [Server -> {Leader, Candidate, Follower}]
        BY <2>1, <4>2 DEF BecomeLeader, TypeOK
      <4>5. MatchIndex' \in [Server -> [Server -> Nat]]
        <5>1. [p \in Server |-> 0] \in [Server -> Nat]
          OBVIOUS
        <5>2. \/ MatchIndex' = [MatchIndex EXCEPT ![s] = [p \in Server |-> 0]]
              \/ MatchIndex' = MatchIndex
          BY <4>2 DEF BecomeLeader
        <5>3. MatchIndex \in [Server -> [Server -> Nat]]
          BY DEF TypeOK
        <5>4. QED
          BY <2>1, <5>1, <5>2, <5>3, <1>2
      <4>6. NextIndex' \in [Server -> [Server -> Nat]]
        <5> DEFINE next == [p \in Server |-> GetLastLog(s).Index + 1]
        <5>1. next \in [Server -> Nat]
          BY <2>3
        <5>2. \/ NextIndex' = [NextIndex EXCEPT ![s] = next]
              \/ NextIndex' = NextIndex
          BY <4>2 DEF BecomeLeader
        <5>3. NextIndex \in [Server -> [Server -> Nat]]
          BY DEF TypeOK
        <5> HIDE DEF next
        <5>4. QED
          BY <2>1, <5>1, <5>2, <5>3, <1>2
      <4>7. QED
        BY <4>1, <4>3, <4>4, <4>5, <4>6 DEF TypeOK
    <3>4. QED
      BY <3>1, <3>2, <3>3
  <2>5. /\ UNCHANGED <<VotedFor, electing, logVars, applyVars,
                       CommitIndex, sending, stuck, boot>>
        /\ persist(s) \/ UNCHANGED disk
    BY DEF VoteReplyIgnored, VoteReplyHigherTerm, VoteReplyGranted, electionVars
  <2>6. disk' \in [Server -> Persisted]
    BY <2>1, <2>4, <2>5, <1>4 DEF TypeOK, logVars
  <2>7. TypeOK'
    BY <2>2, <2>4, <2>5, <2>6 DEF TypeOK, logVars, applyVars
  <2>8. LogIndexing'
    BY <2>1, <2>5, <1>5
  <2>9. EntriesIndexed'
    BY <2>2 DEF EntriesIndexed
  <2>10. QED
    BY <2>7, <2>8, <2>9
(***************************************************************************)
(* Steps that change or read the log.                                      *)
(***************************************************************************)
\* A log replaced and saved together with its base stays indexed.
<1>13. ASSUME TypeOK, LogIndexing, NEW s \in Server,
              NEW log \in Log0, NEW index \in Nat, NEW term \in Nat, NEW snapshot,
              Log' = [Log EXCEPT ![s] = log],
              LastIncludedIndex' = [LastIncludedIndex EXCEPT ![s] = index],
              LastIncludedTerm' = [LastIncludedTerm EXCEPT ![s] = term],
              Save(s, snapshot), log[1].Term = term, Indexed(log, index)
       PROVE  LogIndexing'
  <2> USE <1>13
  <2> SUFFICES ASSUME NEW p \in Server
               PROVE  /\ LastIncludedTerm'[p] = Log'[p][1].Term
                      /\ \A k \in 1 .. Len(Log'[p]) :
                           Log'[p][k].Index = LastIncludedIndex'[p] + k - 1
                      /\ disk'[p].Log = Log'[p]
                      /\ disk'[p].LastIncludedIndex = LastIncludedIndex'[p]
                      /\ disk'[p].LastIncludedTerm = LastIncludedTerm'[p]
    BY DEF LogIndexing
  <2>1. CASE p = s
    <3>1. Log'[p] = log /\ LastIncludedIndex'[p] = index /\ LastIncludedTerm'[p] = term
      BY <2>1 DEF TypeOK
    <3>2. disk'[p] = EncodeRaftState(s, snapshot)
      BY <2>1 DEF Save, TypeOK
    <3>3. QED
      BY <2>1, <3>1, <3>2 DEF EncodeRaftState, Indexed
  <2>2. CASE p # s
    <3>1. /\ Log'[p] = Log[p]
          /\ LastIncludedIndex'[p] = LastIncludedIndex[p]
          /\ LastIncludedTerm'[p] = LastIncludedTerm[p]
          /\ disk'[p] = disk[p]
      BY <2>2 DEF Save, TypeOK
    <3>2. QED
      BY <3>1 DEF LogIndexing
  <2>3. QED
    BY <2>1, <2>2
<1>14. ASSUME IndInv, NEW s \in Server, NEW command \in Command, Start(s, command)
       PROVE  IndInv'
  <2> USE <1>14
  <2> USE DEF IndInv
  <2> DEFINE e == [Command |-> command, Term |-> CurrentTerm[s],
                   Index |-> GetLastLog(s).Index + 1]
             log == Append(Log[s], e)
  <2>1. e \in LogEntry
    <3>1. GetLastLog(s).Index + 1 \in Nat
      BY LastLog
    <3>2. CurrentTerm[s] \in Nat
      BY DEF TypeOK
    <3>3. QED
      BY <3>1, <3>2 DEF LogEntry
  <2>2. Log[s] \in Seq(LogEntry) /\ Len(Log[s]) \in Nat /\ Len(Log[s]) >= 1
    BY LastLog
  <2>3. e.Index = LastIncludedIndex[s] + Len(Log[s])
    <3>1. GetLastLog(s).Index = LastIncludedIndex[s] + Len(Log[s]) - 1
      BY LastLog
    <3>2. LastIncludedIndex[s] \in Nat
      BY DEF TypeOK
    <3>3. QED
      BY <2>2, <3>1, <3>2
  <2>4. Log' = [Log EXCEPT ![s] = log]
    BY DEF Start
  <2> HIDE DEF e
  <2>5. /\ log \in Seq(LogEntry) /\ log # <<>>
        /\ Len(log) = Len(Log[s]) + 1
        /\ \A k \in 1 .. Len(Log[s]) : log[k] = Log[s][k]
        /\ log[Len(Log[s]) + 1] = e
    BY <2>1, <2>2, SeqAppend
  <2> HIDE DEF log
  <2>6. log \in Log0
    BY <2>5 DEF Log0
  <2>7. Indexed(log, LastIncludedIndex[s])
    BY <2>2, <2>3, <2>5 DEF Indexed, LogIndexing
  <2>8. log[1].Term = LastIncludedTerm[s]
    BY <2>2, <2>5 DEF LogIndexing
  <2>9. /\ LastIncludedIndex[s] \in Nat /\ LastIncludedTerm[s] \in Nat
        /\ LastIncludedIndex' = [LastIncludedIndex EXCEPT ![s] = LastIncludedIndex[s]]
        /\ LastIncludedTerm' = [LastIncludedTerm EXCEPT ![s] = LastIncludedTerm[s]]
    BY DEF Start, TypeOK
  <2>10. Save(s, disk[s].snapshot)
    BY DEF Start, persist
  <2>11. LogIndexing'
    BY <2>4, <2>6, <2>7, <2>8, <2>9, <2>10, <1>13
  <2>12. Log' \in [Server -> Log0]
    BY <2>4, <2>6 DEF TypeOK
  <2>13. disk' \in [Server -> Persisted]
    BY <2>12, <1>4 DEF Start, TypeOK, electionVars
  <2>14. TypeOK'
    BY <2>12, <2>13 DEF Start, TypeOK, electionVars, leaderVars, applyVars
  <2>15. EntriesIndexed'
    BY DEF Start, EntriesIndexed
  <2>16. QED
    BY <2>11, <2>14, <2>15
<1>15. ASSUME IndInv, NEW s \in Server, NEW p \in Server, BroadcastEntries(s, p)
       PROVE  IndInv'
  <2> USE <1>15
  <2> USE DEF IndInv
  <2> DEFINE next == NextIndex[s][p]
             last == GetLastLog(s).Index
             entries == GetLogSlices(s, next, last + 1)
             call == [type |-> "AppendEntries", from |-> s, to |-> p, boot |-> boot[s],
                      Term |-> CurrentTerm[s], PrevLogIndex |-> next - 1,
                      PrevLogTerm |-> GetLogEntry(s, next - 1).Term,
                      Entries |-> entries, LeaderCommit |-> CommitIndex[s]]
  <2>1. /\ next \in Nat /\ last \in Nat /\ LastIncludedIndex[s] \in Nat
        /\ boot[s] \in Nat /\ CurrentTerm[s] \in Nat /\ CommitIndex[s] \in Nat
    BY LastLog, FieldTypes, IndexTypes, BootType
  <2>2. next > LastIncludedIndex[s] /\ HasLogSlices(s, next, last + 1) /\ next <= last + 1
    BY DEF BroadcastEntries
  <2>3. next - 1 \in Nat /\ last + 1 \in Nat
    BY <2>1, <2>2
  <2>4. GetLogEntry(s, next - 1).Term \in Nat
    BY <2>3, EntryType
  <2>5. entries \in Seq(LogEntry) /\ \A k \in 1 .. Len(entries) : entries[k].Index = next - 1 + k
    <3> HIDE DEF next, last
    <3>1. QED
      BY <2>1, <2>2, SentSlices
  <2>6. net' \subseteq net \cup {call}
    BY SendAdds DEF BroadcastEntries
  <2> HIDE DEF next, last, entries
  <2>7. call \in AppendEntriesArgs
    BY <2>1, <2>3, <2>4, <2>5 DEF AppendEntriesArgs
  <2>8. \A k \in 1 .. Len(call.Entries) : call.Entries[k].Index = call.PrevLogIndex + k
    BY <2>5
  <2> HIDE DEF call
  <2>9. net' \subseteq Message
    BY <2>6, <2>7 DEF TypeOK, Message
  <2>10. UNCHANGED <<electionVars, logVars, leaderVars, applyVars,
                     CommitIndex, sending, stuck, disk, boot>>
    BY DEF BroadcastEntries
  <2>11. TypeOK'
    BY <2>9, <2>10 DEF TypeOK, electionVars, logVars, leaderVars, applyVars
  <2>12. LogIndexing'
    BY <2>10, <1>5
  <2>13. EntriesIndexed'
    BY <2>6, <2>8 DEF EntriesIndexed
  <2>14. QED
    BY <2>11, <2>12, <2>13
\* FollowTerm() keeps the types of the election state.
<1>16. ASSUME TypeOK, NEW s \in Server, NEW term \in Nat, FollowTerm(s, term)
       PROVE  /\ CurrentTerm' \in [Server -> Nat]
              /\ VotedFor' \in [Server -> Server \cup {NotVoted}]
              /\ State' \in [Server -> {Leader, Candidate, Follower}]
              /\ UNCHANGED <<votes, electing>>
  <2> USE <1>16
  <2>1. VoteIn(s, term) \in Server \cup {NotVoted}
    BY <1>10
  <2>2. QED
    BY <2>1 DEF FollowTerm, TypeOK
\* The reply that checkLogConsistency() prepares.
<1>17. ASSUME IndInv, NEW s \in Server, NEW m \in AppendEntriesArgs
       PROVE  /\ checkLogConsistency(s, m)
                   \in [Success : BOOLEAN, XTerm : Nat, XIndex : Nat, XLen : Nat]
              /\ checkLogConsistency(s, m).Success => HasLogEntry(s, m.PrevLogIndex)
  <2> USE <1>17
  <2> USE DEF IndInv
  <2>1. m.PrevLogIndex \in Nat /\ LastIncludedIndex[s] \in Nat /\ LastIncludedIndex[s] + 1 \in Nat
    <3>1. m.PrevLogIndex \in Nat
      BY DEF AppendEntriesArgs
    <3>2. LastIncludedIndex[s] \in Nat
      BY DEF TypeOK
    <3>3. QED
      BY <3>1, <3>2
  <2>2. GetLastLog(s).Index + 1 \in Nat
    BY LastLog
  <2>3. CASE m.PrevLogIndex < LastIncludedIndex[s]
    BY <2>1, <2>3 DEF checkLogConsistency, Rejected
  <2>4. CASE ~(m.PrevLogIndex < LastIncludedIndex[s]) /\ ~HasLogEntry(s, m.PrevLogIndex)
    BY <2>2, <2>4 DEF checkLogConsistency, Rejected
  <2>5. CASE ~(m.PrevLogIndex < LastIncludedIndex[s]) /\ HasLogEntry(s, m.PrevLogIndex)
    <3> DEFINE i == m.PrevLogIndex
               S == {f \in LastIncludedIndex[s] .. i :
                       \A g \in f .. i : GetLogEntry(s, g).Term = GetLogEntry(s, i).Term}
    <3>1. S \subseteq Nat /\ i \in S
      BY <2>1, <2>5
    <3>2. MinOf(S) \in Nat
      BY <3>1, MinOfNat
    <3>3. FirstIndexOfTerm(s, i) \in Nat
      BY <3>2 DEF FirstIndexOfTerm
    <3>4. GetLogEntry(s, i).Term \in Nat
      BY <2>1, EntryType
    <3>5. QED
      BY <2>5, <3>3, <3>4 DEF checkLogConsistency, Rejected, Accepted
  <2>6. QED
    BY <2>3, <2>4, <2>5
<1>18. ASSUME IndInv, NEW m \in net, m.type = "AppendEntries",
              AppendEntriesStale(m) \/ AppendEntriesReject(m)
       PROVE  IndInv'
  <2> USE <1>18
  <2> USE DEF IndInv
  <2> DEFINE s == m.to
  <2>1. m \in AppendEntriesArgs /\ s \in Server /\ m.Term \in Nat
    BY MessageTypes DEF AppendEntriesArgs
  <2>2. PICK term \in Nat,
             result \in [Success : BOOLEAN, XTerm : Nat, XIndex : Nat, XLen : Nat] :
          Respond(m, EntriesReply(m, term, result))
    <3>1. CASE AppendEntriesStale(m)
      <4>1. CurrentTerm[s] \in Nat
        BY <2>1 DEF TypeOK
      <4>2. Rejected(0, 0, 0) \in [Success : BOOLEAN, XTerm : Nat, XIndex : Nat, XLen : Nat]
        BY DEF Rejected
      <4>3. QED
        BY <3>1, <4>1, <4>2 DEF AppendEntriesStale
    <3>2. CASE AppendEntriesReject(m)
      BY <2>1, <3>2, <1>17 DEF AppendEntriesReject
    <3>3. QED
      BY <3>1, <3>2
  <2> DEFINE r == EntriesReply(m, term, result)
  <2>3. r \in AppendEntriesReply /\ r.type # "AppendEntries"
    BY <2>1 DEF EntriesReply, AppendEntriesReply
  <2>4. net' \subseteq net \cup {r}
    BY <2>2, RespondAdds
  <2> HIDE DEF r
  <2>5. net' \subseteq Message
    BY <2>3, <2>4 DEF TypeOK, Message
  <2>6. /\ CurrentTerm' \in [Server -> Nat]
        /\ VotedFor' \in [Server -> Server \cup {NotVoted}]
        /\ State' \in [Server -> {Leader, Candidate, Follower}]
        /\ UNCHANGED <<votes, electing>>
    <3>1. CASE AppendEntriesStale(m)
      BY <3>1 DEF AppendEntriesStale, electionVars, TypeOK
    <3>2. CASE AppendEntriesReject(m)
      BY <2>1, <3>2, <1>16 DEF AppendEntriesReject
    <3>3. QED
      BY <3>1, <3>2
  <2>7. /\ UNCHANGED <<logVars, leaderVars, applyVars, CommitIndex, sending, stuck, boot>>
        /\ persist(s)
    BY DEF AppendEntriesStale, AppendEntriesReject
  <2>8. disk' \in [Server -> Persisted]
    BY <2>1, <2>6, <2>7, <1>4 DEF TypeOK, logVars
  <2>9. TypeOK'
    BY <2>5, <2>6, <2>7, <2>8 DEF TypeOK, logVars, leaderVars, applyVars
  <2>10. LogIndexing'
    BY <2>1, <2>7, <1>5
  <2>11. EntriesIndexed'
    BY <2>3, <2>4, <1>7
  <2>12. QED
    BY <2>9, <2>10, <2>11
<1>19. ASSUME IndInv, NEW m \in net, m.type = "AppendEntries", AppendEntriesAccept(m)
       PROVE  IndInv'
  <2> USE <1>19
  <2> USE DEF IndInv
  <2> DEFINE s == m.to
             log == MergedLog(s, m.Entries)
             r == EntriesReply(m, m.Term, Accepted)
  <2>1. /\ m \in AppendEntriesArgs /\ s \in Server /\ m.Term \in Nat
        /\ m.LeaderCommit \in Nat
    BY MessageTypes DEF AppendEntriesArgs
  <2>2. r \in AppendEntriesReply /\ r.type # "AppendEntries"
    BY <2>1 DEF EntriesReply, Accepted, AppendEntriesReply
  <2>3. net' \subseteq net \cup {r}
    BY RespondAdds DEF AppendEntriesAccept
  <2> HIDE DEF r
  <2>4. net' \subseteq Message
    BY <2>2, <2>3 DEF TypeOK, Message
  <2>5. HasLogEntry(s, m.PrevLogIndex)
    BY <2>1, <1>17 DEF AppendEntriesAccept
  <2>6. log \in Log0 /\ Indexed(log, LastIncludedIndex[s]) /\ log[1] = Log[s][1]
    BY <2>1, <2>5, MergedLogIndexed
  <2>7. /\ Log' = [Log EXCEPT ![s] = log]
        /\ CommitIndex' = [CommitIndex EXCEPT ![s] = FollowerCommit(s, m, log[Len(log)].Index)]
        /\ persist(s)
        /\ FollowTerm(s, m.Term)
        /\ UNCHANGED <<LastIncludedIndex, LastIncludedTerm, leaderVars, applyVars,
                       sending, stuck, boot>>
    BY DEF AppendEntriesAccept
  <2> HIDE DEF log
  <2>8. log[Len(log)].Index \in Nat
    <3>1. log \in Seq(LogEntry) /\ log # <<>>
      BY <2>6 DEF Log0
    <3>2. Len(log) \in 1 .. Len(log)
      BY <3>1, EmptySeq
    <3>3. log[Len(log)] \in LogEntry
      BY <3>1, <3>2, SeqElements
    <3>4. QED
      BY <3>3 DEF LogEntry
  <2>9. FollowerCommit(s, m, log[Len(log)].Index) \in Nat
    <3>1. MinOf({m.LeaderCommit, log[Len(log)].Index}) \in Nat
      BY <2>1, <2>8, <1>1
    <3>2. CommitIndex[s] \in Nat
      BY <2>1 DEF TypeOK
    <3>3. QED
      BY <3>1, <3>2 DEF FollowerCommit
  <2>10. Log' \in [Server -> Log0] /\ CommitIndex' \in [Server -> Nat]
    BY <2>1, <2>6, <2>7, <2>9 DEF TypeOK
  <2>11. /\ CurrentTerm' \in [Server -> Nat]
         /\ VotedFor' \in [Server -> Server \cup {NotVoted}]
         /\ State' \in [Server -> {Leader, Candidate, Follower}]
         /\ UNCHANGED <<votes, electing>>
    BY <2>1, <2>7, <1>16
  <2>12. disk' \in [Server -> Persisted]
    BY <2>1, <2>7, <2>10, <2>11, <1>4 DEF TypeOK
  <2>13. TypeOK'
    BY <2>4, <2>7, <2>10, <2>11, <2>12 DEF TypeOK, leaderVars, applyVars
  <2>14. /\ LastIncludedIndex[s] \in Nat /\ LastIncludedTerm[s] \in Nat
         /\ LastIncludedIndex' = [LastIncludedIndex EXCEPT ![s] = LastIncludedIndex[s]]
         /\ LastIncludedTerm' = [LastIncludedTerm EXCEPT ![s] = LastIncludedTerm[s]]
         /\ log[1].Term = LastIncludedTerm[s]
    BY <2>1, <2>6, <2>7 DEF TypeOK, LogIndexing
  <2>15. Save(s, disk[s].snapshot)
    BY <2>7 DEF persist
  <2>16. LogIndexing'
    BY <2>1, <2>6, <2>7, <2>14, <2>15, <1>13
  <2>17. EntriesIndexed'
    BY <2>2, <2>3, <1>7
  <2>18. QED
    BY <2>13, <2>16, <2>17
(***************************************************************************)
(* Replies to replication calls.                                           *)
(***************************************************************************)
\* Assigning one element of a table of tables.
<1>20. ASSUME NEW f \in [Server -> [Server -> Nat]], NEW s \in Server, NEW p \in Server,
              NEW v \in Nat
       PROVE  [f EXCEPT ![s][p] = v] \in [Server -> [Server -> Nat]]
  BY <1>20
\* updateCommitIndex() never takes CommitIndex back.
<1>21. ASSUME TypeOK, LogIndexing, NEW s \in Server, NEW match
       PROVE  /\ updateCommitIndex(s, match) \in Nat
              /\ updateCommitIndex(s, match) >= CommitIndex[s]
  <2> USE <1>21
  <2> DEFINE S == {CommitIndex[s]} \cup
                  {n \in CommitIndex[s] + 1 .. GetLastLog(s).Index :
                     GetLogEntry(s, n).Term = CurrentTerm[s] /\ Replicated(s, match, n)}
  <2>1. CommitIndex[s] \in Nat
    BY DEF TypeOK
  <2>2. GetLastLog(s).Index \in Nat
    BY LastLog
  <2>3. /\ S \in SUBSET Nat /\ S # {} /\ CommitIndex[s] \in S
        /\ CommitIndex[s] + GetLastLog(s).Index \in Nat
        /\ \A y \in S : y <= CommitIndex[s] + GetLastLog(s).Index
    BY <2>1, <2>2
  <2>4. updateCommitIndex(s, match) = MaxOf(S)
    BY DEF updateCommitIndex
  <2> HIDE DEF S
  <2>5. MaxOf(S) \in S /\ \A y \in S : MaxOf(S) >= y
    BY <2>3, MaxOfNat
  <2>6. QED
    BY <2>3, <2>4, <2>5
<1>22. ASSUME TypeOK, LogIndexing, NEW s \in Server, NEW p \in Server, NEW match \in Nat,
              Matched(s, p, match)
       PROVE  /\ MatchIndex' \in [Server -> [Server -> Nat]]
              /\ NextIndex' \in [Server -> [Server -> Nat]]
              /\ CommitIndex' \in [Server -> Nat]
  <2> USE <1>22
  <2>1. MatchIndex[s][p] \in Nat /\ NextIndex[s][p] \in Nat /\ match + 1 \in Nat
    BY IndexTypes, SuccNat
  <2>2. MatchIndex \in [Server -> [Server -> Nat]] /\ NextIndex \in [Server -> [Server -> Nat]]
    BY DEF TypeOK
  <2>3. MatchIndex' = [MatchIndex EXCEPT ![s][p] = MaxOf({MatchIndex[s][p], match})]
    BY DEF Matched
  <2>4. NextIndex' = [NextIndex EXCEPT ![s][p] = MaxOf({NextIndex[s][p], match + 1})]
    BY DEF Matched
  <2>5. MaxOf({MatchIndex[s][p], match}) \in Nat
    BY <2>1, MaxOfTwo
  <2>6. MaxOf({NextIndex[s][p], match + 1}) \in Nat
    BY <2>1, MaxOfTwo
  <2>7. MatchIndex' \in [Server -> [Server -> Nat]]
    BY <2>2, <2>3, <2>5, <1>20
  <2>8. NextIndex' \in [Server -> [Server -> Nat]]
    BY <2>2, <2>4, <2>6, <1>20
  <2>9. updateCommitIndex(s, MatchIndex'[s]) \in Nat
    BY <1>21
  <2>10. CommitIndex' \in [Server -> Nat]
    BY <2>9 DEF Matched, TypeOK
  <2>11. QED
    BY <2>7, <2>8, <2>10
\* Fast back-up yields an index.
<1>23. ASSUME TypeOK, LogIndexing, NEW s \in Server,
              NEW result \in [Success : BOOLEAN, XTerm : Nat, XIndex : Nat, XLen : Nat]
       PROVE  BackUp(s, result) \in Nat
  <2> USE <1>23
  <2> DEFINE same == {k \in 1 .. Len(Log[s]) : Log[s][k].Term = result.XTerm}
  <2>1. Log[s] \in Seq(LogEntry) /\ Len(Log[s]) \in Nat
    BY LastLog
  <2>2. result.XLen \in Nat /\ result.XIndex \in Nat
    OBVIOUS
  <2>3. same # {} => Log[s][MaxOf(same)].Index + 1 \in Nat
    <3> SUFFICES ASSUME same # {} PROVE Log[s][MaxOf(same)].Index + 1 \in Nat
      OBVIOUS
    <3>1. same \in SUBSET (1 .. Len(Log[s]))
      OBVIOUS
    <3> HIDE DEF same
    <3>2. MaxOf(same) \in 1 .. Len(Log[s])
      BY <2>1, <3>1, LastPosition
    <3>3. Log[s][MaxOf(same)] \in LogEntry
      BY <2>1, <3>2, SeqElements
    <3>4. Log[s][MaxOf(same)].Index \in Nat
      BY <3>3 DEF LogEntry
    <3>5. QED
      BY <3>4, SuccNat
  <2>4. QED
    BY <2>2, <2>3 DEF BackUp
\* A reply that changes at most the leader's counters and, with a save, the
\* term, the vote and the state keeps the invariant.
<1>24. ASSUME IndInv, NEW s \in Server, net' \subseteq net,
              CurrentTerm' \in [Server -> Nat],
              VotedFor' \in [Server -> Server \cup {NotVoted}],
              State' \in [Server -> {Leader, Candidate, Follower}],
              NextIndex' \in [Server -> [Server -> Nat]],
              MatchIndex' \in [Server -> [Server -> Nat]],
              CommitIndex' \in [Server -> Nat],
              UNCHANGED <<votes, electing, logVars, applyVars, sending, stuck, boot>>,
              persist(s) \/ UNCHANGED disk
       PROVE  IndInv'
  <2> USE <1>24
  <2> USE DEF IndInv
  <2>1. disk' \in [Server -> Persisted]
    BY <1>4 DEF TypeOK, logVars
  <2>2. TypeOK'
    BY <2>1 DEF TypeOK, logVars, applyVars
  <2>3. LogIndexing'
    BY <1>5
  <2>4. EntriesIndexed'
    BY DEF EntriesIndexed
  <2>5. QED
    BY <2>2, <2>3, <2>4
<1>25. ASSUME IndInv, NEW m \in net, m.type = "AppendEntriesReply",
              \/ ReplyOutdated(m) \/ EntriesReplyHigherTerm(m)
              \/ EntriesReplySuccess(m) \/ EntriesReplyFailure(m)
       PROVE  IndInv'
  <2> USE <1>25
  <2> DEFINE s == m.args.from
             p == m.args.to
  <2>1. /\ s \in Server /\ p \in Server /\ m.Term \in Nat
        /\ m.args.PrevLogIndex \in Nat /\ m.args.Entries \in Seq(LogEntry)
        /\ m.result \in [Success : BOOLEAN, XTerm : Nat, XIndex : Nat, XLen : Nat]
    BY MessageTypes DEF IndInv, AppendEntriesReply, AppendEntriesArgs
  <2>2. net' \subseteq net
    BY ConsumeAdds DEF ReplyOutdated, EntriesReplyHigherTerm, EntriesReplySuccess,
                       EntriesReplyFailure
  <2>3. CASE ReplyOutdated(m)
    <3>1. UNCHANGED <<electionVars, logVars, leaderVars, applyVars,
                      CommitIndex, sending, stuck, disk, boot>>
      BY <2>3 DEF ReplyOutdated
    <3>2. QED
      BY <2>1, <2>2, <3>1, <1>24 DEF IndInv, TypeOK, electionVars, leaderVars
  <2>4. CASE EntriesReplyHigherTerm(m)
    <3>1. /\ CurrentTerm' \in [Server -> Nat]
          /\ VotedFor' \in [Server -> Server \cup {NotVoted}]
          /\ State' \in [Server -> {Leader, Candidate, Follower}]
      BY <2>1, <2>4 DEF EntriesReplyHigherTerm, IndInv, TypeOK
    <3>2. /\ UNCHANGED <<votes, electing, logVars, leaderVars, applyVars,
                         CommitIndex, sending, stuck, boot>>
          /\ persist(s)
      BY <2>4 DEF EntriesReplyHigherTerm
    <3>3. QED
      BY <2>1, <2>2, <3>1, <3>2, <1>24 DEF IndInv, TypeOK, leaderVars
  <2>5. CASE EntriesReplySuccess(m)
    <3> DEFINE match == m.args.PrevLogIndex + Len(m.args.Entries)
    <3>1. match \in Nat
      BY <2>1, SeqElements
    <3>2. /\ Matched(s, p, match)
          /\ UNCHANGED <<electionVars, logVars, applyVars, sending, stuck, disk, boot>>
      BY <2>5 DEF EntriesReplySuccess
    <3> HIDE DEF match
    <3>3. /\ MatchIndex' \in [Server -> [Server -> Nat]]
          /\ NextIndex' \in [Server -> [Server -> Nat]]
          /\ CommitIndex' \in [Server -> Nat]
      BY <2>1, <3>1, <3>2, <1>22 DEF IndInv
    <3>4. QED
      BY <2>1, <2>2, <3>2, <3>3, <1>24 DEF IndInv, TypeOK, electionVars
  <2>6. CASE EntriesReplyFailure(m)
    <3>1. /\ NextIndex' = [NextIndex EXCEPT ![s][p] = BackUp(s, m.result)]
          /\ UNCHANGED <<electionVars, logVars, MatchIndex, applyVars,
                         CommitIndex, sending, stuck, disk, boot>>
      BY <2>6 DEF EntriesReplyFailure
    <3>2. BackUp(s, m.result) \in Nat
      BY <2>1, <1>23 DEF IndInv
    <3>3. NextIndex' \in [Server -> [Server -> Nat]]
      BY <2>1, <3>1, <3>2, <1>20 DEF IndInv, TypeOK
    <3>4. QED
      BY <2>1, <2>2, <3>1, <3>3, <1>24 DEF IndInv, TypeOK, electionVars
  <2>7. QED
    BY <2>3, <2>4, <2>5, <2>6
<1>26. ASSUME IndInv, NEW m \in net, m.type = "InstallSnapShotReply",
              ReplyOutdated(m) \/ SnapShotReplyHigherTerm(m) \/ SnapShotReplySuccess(m)
       PROVE  IndInv'
  <2> USE <1>26
  <2> DEFINE s == m.args.from
             p == m.args.to
  <2>1. /\ s \in Server /\ p \in Server /\ m.Term \in Nat
        /\ m.args.LastIncludedIndex \in Nat
    BY MessageTypes DEF IndInv, InstallSnapshotReply, InstallSnapshotArgs
  <2>2. net' \subseteq net
    BY ConsumeAdds DEF ReplyOutdated, SnapShotReplyHigherTerm, SnapShotReplySuccess
  <2>3. CASE ReplyOutdated(m)
    <3>1. UNCHANGED <<electionVars, logVars, leaderVars, applyVars,
                      CommitIndex, sending, stuck, disk, boot>>
      BY <2>3 DEF ReplyOutdated
    <3>2. QED
      BY <2>1, <2>2, <3>1, <1>24 DEF IndInv, TypeOK, electionVars, leaderVars
  <2>4. CASE SnapShotReplyHigherTerm(m)
    <3>1. /\ CurrentTerm' \in [Server -> Nat]
          /\ State' \in [Server -> {Leader, Candidate, Follower}]
      BY <2>1, <2>4 DEF SnapShotReplyHigherTerm, IndInv, TypeOK
    <3>2. /\ UNCHANGED <<VotedFor, votes, electing, logVars, leaderVars, applyVars,
                         CommitIndex, sending, stuck, boot>>
          /\ persist(s)
      BY <2>4 DEF SnapShotReplyHigherTerm
    <3>3. QED
      BY <2>1, <2>2, <3>1, <3>2, <1>24 DEF IndInv, TypeOK, leaderVars
  <2>5. CASE SnapShotReplySuccess(m)
    <3>1. /\ Matched(s, p, m.args.LastIncludedIndex)
          /\ UNCHANGED <<electionVars, logVars, applyVars, sending, stuck, disk, boot>>
      BY <2>5 DEF SnapShotReplySuccess
    <3>2. /\ MatchIndex' \in [Server -> [Server -> Nat]]
          /\ NextIndex' \in [Server -> [Server -> Nat]]
          /\ CommitIndex' \in [Server -> Nat]
      BY <2>1, <3>1, <1>22 DEF IndInv
    <3>3. QED
      BY <2>1, <2>2, <3>1, <3>2, <1>24 DEF IndInv, TypeOK, electionVars
  <2>6. QED
    BY <2>3, <2>4, <2>5
(***************************************************************************)
(* Log compaction.                                                         *)
(***************************************************************************)
<1>27. ASSUME IndInv, NEW s \in Server, Snapshot(s)
       PROVE  IndInv'
  <2> USE <1>27
  <2> USE DEF IndInv
  <2> DEFINE index == Len(sm[s])
             a == index - LastIncludedIndex[s] + 1
             log == SubSeq(Log[s], a, Len(Log[s]))
             term == GetLogEntry(s, index).Term
  <2>1. Log[s] \in Seq(LogEntry) /\ Len(Log[s]) \in Nat
    BY LastLog
  <2>2. LastIncludedIndex[s] \in Nat /\ sm[s] \in Seq(Applied) /\ index \in Nat
    BY SeqElements DEF TypeOK
  <2>3. /\ index > LastIncludedIndex[s] /\ HasLogEntry(s, index)
        /\ Log' = [Log EXCEPT ![s] = log]
        /\ LastIncludedIndex' = [LastIncludedIndex EXCEPT ![s] = index]
        /\ LastIncludedTerm' = [LastIncludedTerm EXCEPT ![s] = term]
        /\ Save(s, sm[s])
        /\ UNCHANGED <<electionVars, leaderVars, applyVars, CommitIndex, sending,
                       stuck, boot, net>>
    BY DEF Snapshot
  <2>4. term \in Nat
    BY <2>2, EntryType
  <2>5. term = Log[s][a].Term
    BY <2>3 DEF GetLogEntry
  <2> HIDE DEF index, term
  <2>6. a \in 1 .. Len(Log[s])
    BY <2>1, <2>2, <2>3 DEF HasLogEntry
  <2>7. \A k \in 1 .. Len(Log[s]) : Log[s][k].Index = LastIncludedIndex[s] + k - 1
    BY DEF LogIndexing
  <2>8. index = LastIncludedIndex[s] + a - 1
    BY <2>2
  <2> HIDE DEF a
  <2>9. \A i \in a .. Len(Log[s]) : Log[s][i] \in LogEntry
    BY <2>1, <2>6, SeqElements
  <2>10. /\ log \in Seq(LogEntry) /\ Len(log) = Len(Log[s]) - a + 1
         /\ \A i \in 1 .. Len(Log[s]) - a + 1 : log[i] = Log[s][a + i - 1]
    <3>1. /\ log \in Seq(LogEntry)
          /\ Len(log) = IF a <= Len(Log[s]) THEN Len(Log[s]) - a + 1 ELSE 0
          /\ \A i \in 1 .. Len(Log[s]) - a + 1 : log[i] = Log[s][a + i - 1]
      BY <2>1, <2>6, <2>9, SeqPart
    <3> HIDE DEF log
    <3>2. QED
      BY <2>1, <2>6, <3>1
  <2> HIDE DEF log
  <2>11. log # <<>>
    <3>1. Len(log) >= 1
      BY <2>1, <2>6, <2>10
    <3>2. QED
      BY <3>1, EmptySeq
  <2>12. log \in Log0
    BY <2>10, <2>11 DEF Log0
  <2>13. Indexed(log, index)
    <3> SUFFICES ASSUME NEW k \in 1 .. Len(log) PROVE log[k].Index = index + k - 1
      BY DEF Indexed
    <3>1. log[k] = Log[s][a + k - 1] /\ a + k - 1 \in 1 .. Len(Log[s])
      BY <2>1, <2>6, <2>10
    <3>2. log[k].Index = LastIncludedIndex[s] + (a + k - 1) - 1
      BY <2>7, <3>1
    <3>3. QED
      BY <2>2, <2>6, <2>8, <3>2
  <2>14. log[1].Term = term
    <3>1. 1 \in 1 .. Len(Log[s]) - a + 1 /\ a + 1 - 1 = a
      BY <2>1, <2>6
    <3>2. log[1] = Log[s][a]
      BY <2>10, <3>1
    <3>3. QED
      BY <2>5, <3>2
  <2>15. LogIndexing'
    BY <2>2, <2>3, <2>4, <2>12, <2>13, <2>14, <1>13
  <2>16. /\ Log' \in [Server -> Log0]
         /\ LastIncludedIndex' \in [Server -> Nat]
         /\ LastIncludedTerm' \in [Server -> Nat]
    BY <2>2, <2>3, <2>4, <2>12 DEF TypeOK
  <2>17. disk' \in [Server -> Persisted]
    BY <2>2, <2>3, <2>16, <1>3 DEF TypeOK, electionVars
  <2>18. TypeOK'
    BY <2>3, <2>16, <2>17 DEF TypeOK, electionVars, leaderVars, applyVars
  <2>19. EntriesIndexed'
    BY <2>3 DEF EntriesIndexed
  <2>20. QED
    BY <2>15, <2>18, <2>19
<1>28. ASSUME IndInv, NEW s \in Server, NEW p \in Server, PrepareSnapShot(s, p)
       PROVE  IndInv'
  <2> USE <1>28
  <2> USE DEF IndInv
  <2> DEFINE call == [type |-> "InstallSnapShot", from |-> s, to |-> p, boot |-> boot[s],
           Term |-> CurrentTerm[s], LastIncludedIndex |-> LastIncludedIndex[s],
           LastIncludedTerm |-> LastIncludedTerm[s], Data |-> disk[s].snapshot]
  <2>1. disk[s].snapshot \in Seq(Applied)
    BY DEF TypeOK, Persisted
  <2>2. call \in InstallSnapshotArgs
    <3>1. /\ boot[s] \in Nat /\ CurrentTerm[s] \in Nat
          /\ LastIncludedIndex[s] \in Nat /\ LastIncludedTerm[s] \in Nat
      BY FieldTypes, BootType
    <3>2. QED
      BY <2>1, <3>1 DEF InstallSnapshotArgs
  <2>3. /\ sending' = [sending EXCEPT ![s] = @ \cup {call}]
        /\ UNCHANGED <<electionVars, logVars, leaderVars, applyVars,
                       CommitIndex, stuck, disk, boot, net>>
    BY DEF PrepareSnapShot
  <2> HIDE DEF call
  <2>4. sending' \in [Server -> SUBSET InstallSnapshotArgs]
    BY <2>2, <2>3 DEF TypeOK
  <2>5. TypeOK'
    BY <2>3, <2>4 DEF TypeOK, electionVars, logVars, leaderVars, applyVars
  <2>6. LogIndexing' /\ EntriesIndexed'
    BY <2>3, <1>5 DEF EntriesIndexed
  <2>7. QED
    BY <2>5, <2>6
<1>29. ASSUME IndInv, NEW s \in Server, NEW m \in sending[s],
              sendSnapShot(s, m) \/ sendSnapShotNotLeader(s, m)
       PROVE  IndInv'
  <2> USE <1>29
  <2> USE DEF IndInv
  <2>1. m \in InstallSnapshotArgs /\ m.type # "AppendEntries"
    <3>1. m \in InstallSnapshotArgs
      BY DEF TypeOK
    <3>2. QED
      BY <3>1 DEF InstallSnapshotArgs
  <2>2. sending' \in [Server -> SUBSET InstallSnapshotArgs]
    <3>1. sending' = [sending EXCEPT ![s] = sending[s] \ {m}]
      BY DEF sendSnapShot, sendSnapShotNotLeader
    <3>2. QED
      BY <3>1 DEF TypeOK
  <2>3. net' \subseteq net \cup {m}
    BY SendAdds DEF sendSnapShot, sendSnapShotNotLeader
  <2>4. stuck' \in [Server -> BOOLEAN]
    BY DEF sendSnapShot, sendSnapShotNotLeader, TypeOK
  <2>5. net' \subseteq Message
    BY <2>1, <2>3 DEF TypeOK, Message
  <2>6. UNCHANGED <<electionVars, logVars, leaderVars, applyVars, CommitIndex, disk, boot>>
    BY DEF sendSnapShot, sendSnapShotNotLeader
  <2>7. TypeOK'
    BY <2>2, <2>4, <2>5, <2>6 DEF TypeOK, electionVars, logVars, leaderVars, applyVars
  <2>8. LogIndexing'
    BY <2>6, <1>5
  <2>9. EntriesIndexed'
    BY <2>1, <2>3, <1>7
  <2>10. QED
    BY <2>7, <2>8, <2>9
<1>30. ASSUME IndInv, NEW m \in net, m.type = "InstallSnapShot",
              InstallSnapShotStale(m) \/ InstallSnapShotOld(m) \/ InstallSnapShot(m)
       PROVE  IndInv'
  <2> USE <1>30
  <2> USE DEF IndInv
  <2> DEFINE s == m.to
             r == SnapShotReply(m, CurrentTerm[s])
  <2>1. /\ m \in InstallSnapshotArgs /\ s \in Server /\ m.Term \in Nat
        /\ m.LastIncludedIndex \in Nat /\ m.LastIncludedTerm \in Nat
        /\ m.Data \in Seq(Applied)
    BY MessageTypes DEF InstallSnapshotArgs
  <2>2. r \in InstallSnapshotReply /\ r.type # "AppendEntries"
    <3>1. CurrentTerm[s] \in Nat
      BY <2>1 DEF TypeOK
    <3>2. QED
      BY <2>1, <3>1 DEF SnapShotReply, InstallSnapshotReply
  <2>3. net' \subseteq net \cup {r}
    BY RespondAdds DEF InstallSnapShotStale, InstallSnapShotOld, InstallSnapShot
  <2> HIDE DEF r
  <2>4. net' \subseteq Message
    BY <2>2, <2>3 DEF TypeOK, Message
  <2>5. /\ CurrentTerm' \in [Server -> Nat]
        /\ VotedFor' \in [Server -> Server \cup {NotVoted}]
        /\ State' \in [Server -> {Leader, Candidate, Follower}]
        /\ UNCHANGED <<votes, electing>>
    <3>1. CASE InstallSnapShotStale(m)
      BY <3>1 DEF InstallSnapShotStale, electionVars, TypeOK
    <3>2. CASE FollowTerm(s, m.Term)
      BY <2>1, <3>2, <1>16
    <3>3. QED
      BY <3>1, <3>2 DEF InstallSnapShotOld, InstallSnapShot
  <2>6. UNCHANGED <<leaderVars, applyVars, CommitIndex, sending, stuck, boot>>
    BY DEF InstallSnapShotStale, InstallSnapShotOld, InstallSnapShot
  <2>7. EntriesIndexed'
    BY <2>2, <2>3, <1>7
  <2>8. CASE InstallSnapShotStale(m) \/ InstallSnapShotOld(m)
    <3>1. UNCHANGED <<logVars, disk>>
      BY <2>8 DEF InstallSnapShotStale, InstallSnapShotOld
    <3>2. TypeOK'
      BY <2>4, <2>5, <2>6, <3>1 DEF TypeOK, logVars, leaderVars, applyVars
    <3>3. LogIndexing'
      BY <2>1, <3>1, <1>5
    <3>4. QED
      BY <2>7, <3>2, <3>3
  <2>9. CASE InstallSnapShot(m)
    <3> DEFINE log == <<Placeholder(m.LastIncludedTerm, m.LastIncludedIndex)>>
    <3>1. /\ Log' = [Log EXCEPT ![s] = log]
          /\ LastIncludedIndex' = [LastIncludedIndex EXCEPT ![s] = m.LastIncludedIndex]
          /\ LastIncludedTerm' = [LastIncludedTerm EXCEPT ![s] = m.LastIncludedTerm]
          /\ Save(s, m.Data)
      BY <2>9 DEF InstallSnapShot
    <3>2. Placeholder(m.LastIncludedTerm, m.LastIncludedIndex) \in LogEntry
      BY <2>1 DEF Placeholder, LogEntry
    <3>3. log \in Log0 /\ Len(log) = 1
      BY <3>2 DEF Log0
    <3>4. /\ log[1].Term = m.LastIncludedTerm
          /\ log[1].Index = m.LastIncludedIndex
      BY DEF Placeholder
    <3> HIDE DEF log
    <3>5. Indexed(log, m.LastIncludedIndex)
      BY <2>1, <3>3, <3>4 DEF Indexed
    <3>6. LogIndexing'
      BY <2>1, <3>1, <3>3, <3>4, <3>5, <1>13
    <3>7. /\ Log' \in [Server -> Log0]
          /\ LastIncludedIndex' \in [Server -> Nat]
          /\ LastIncludedTerm' \in [Server -> Nat]
      BY <2>1, <3>1, <3>3 DEF TypeOK
    <3>8. disk' \in [Server -> Persisted]
      BY <2>1, <2>5, <3>1, <3>7, <1>3 DEF TypeOK
    <3>9. TypeOK'
      BY <2>4, <2>5, <2>6, <3>7, <3>8 DEF TypeOK, leaderVars, applyVars
    <3>10. QED
      BY <2>7, <3>6, <3>9
  <2>10. QED
    BY <2>8, <2>9
(***************************************************************************)
(* The Applier and restarts.                                               *)
(***************************************************************************)
<1>31. ASSUME IndInv, NEW s \in Server, ApplierTakeSnapshot(s)
       PROVE  IndInv'
  <2> USE <1>31
  <2> USE DEF IndInv
  <2> DEFINE msg == SnapshotMsg(LastIncludedIndex[s], disk[s].snapshot)
             task == [busy |-> TRUE, upto |-> LastIncludedIndex[s], msgs |-> <<msg>>]
  <2>1. disk[s].snapshot \in Seq(Applied) /\ LastIncludedIndex[s] \in Nat
    BY DEF TypeOK, Persisted
  <2>2. msg \in ApplyMsg
    BY <2>1 DEF SnapshotMsg, ApplyMsg
  <2>3. /\ applier' = [applier EXCEPT ![s] = task]
        /\ UNCHANGED <<electionVars, logVars, leaderVars, LastApplied, sm,
                       CommitIndex, sending, stuck, disk, boot, net>>
    BY DEF ApplierTakeSnapshot
  <2> HIDE DEF msg
  <2>4. task \in [busy : BOOLEAN, msgs : Seq(ApplyMsg), upto : Nat]
    BY <2>1, <2>2
  <2> HIDE DEF task
  <2>5. applier' \in [Server -> [busy : BOOLEAN, msgs : Seq(ApplyMsg), upto : Nat]]
    BY <2>3, <2>4 DEF TypeOK
  <2>6. TypeOK'
    BY <2>3, <2>5 DEF TypeOK, electionVars, logVars, leaderVars
  <2>7. LogIndexing' /\ EntriesIndexed'
    BY <2>3, <1>5 DEF EntriesIndexed
  <2>8. QED
    BY <2>6, <2>7
<1>32. ASSUME IndInv, NEW s \in Server, ApplierTakeEntries(s)
       PROVE  IndInv'
  <2> USE <1>32
  <2> USE DEF IndInv
  <2> DEFINE entries == GetLogSlices(s, LastApplied[s] + 1, CommitIndex[s] + 1)
             msgs == [k \in 1 .. Len(entries) |-> CommandMsg(entries[k])]
             task == [busy |-> TRUE, upto |-> CommitIndex[s], msgs |-> msgs]
  <2>1. /\ LastApplied[s] \in Nat /\ CommitIndex[s] \in Nat /\ LastIncludedIndex[s] \in Nat
        /\ LastApplied[s] + 1 \in Nat /\ CommitIndex[s] + 1 \in Nat
    BY FieldTypes, SuccNat
  <2>2. /\ LastApplied[s] >= LastIncludedIndex[s] /\ CommitIndex[s] > LastApplied[s]
        /\ HasLogSlices(s, LastApplied[s] + 1, CommitIndex[s] + 1)
        /\ applier' = [applier EXCEPT ![s] = task]
        /\ UNCHANGED <<electionVars, logVars, leaderVars, LastApplied, sm,
                       CommitIndex, sending, stuck, disk, boot, net>>
    BY DEF ApplierTakeEntries
  <2>3. LastApplied[s] + 1 > LastIncludedIndex[s] /\ LastApplied[s] + 1 <= CommitIndex[s] + 1
    BY <2>1, <2>2
  <2>4. entries \in Seq(LogEntry)
    BY <2>1, <2>2, <2>3, LogSlices
  <2> HIDE DEF entries
  <2>5. msgs \in Seq(ApplyMsg)
    BY <2>4, CommandMsgs
  <2> HIDE DEF msgs
  <2>6. task \in [busy : BOOLEAN, msgs : Seq(ApplyMsg), upto : Nat]
    BY <2>1, <2>5
  <2> HIDE DEF task
  <2>7. applier' \in [Server -> [busy : BOOLEAN, msgs : Seq(ApplyMsg), upto : Nat]]
    BY <2>2, <2>6 DEF TypeOK
  <2>8. TypeOK'
    BY <2>2, <2>7 DEF TypeOK, electionVars, logVars, leaderVars
  <2>9. LogIndexing' /\ EntriesIndexed'
    BY <2>2, <1>5 DEF EntriesIndexed
  <2>10. QED
    BY <2>8, <2>9
<1>33. ASSUME IndInv, NEW s \in Server, ApplierSend(s)
       PROVE  IndInv'
  <2> USE <1>33
  <2> USE DEF IndInv
  <2> DEFINE msg == Head(applier[s].msgs)
             after == IF msg.kind = "snapshot" THEN msg.data ELSE sm[s] \o msg.data
  <2>1. applier[s].msgs \in Seq(ApplyMsg) /\ applier[s].msgs # <<>> /\ sm[s] \in Seq(Applied)
    BY DEF TypeOK, ApplierSend
  <2>2. msg \in ApplyMsg /\ Tail(applier[s].msgs) \in Seq(ApplyMsg)
    BY <2>1, SeqTail
  <2>3. msg.data \in Seq(Applied)
    BY <2>2 DEF ApplyMsg
  <2>4. /\ applier' = [applier EXCEPT ![s].msgs = Tail(@)]
        /\ sm' = [sm EXCEPT ![s] = after]
        /\ UNCHANGED <<electionVars, logVars, leaderVars, LastApplied,
                       CommitIndex, sending, stuck, disk, boot, net>>
    BY DEF ApplierSend
  <2> HIDE DEF msg
  <2>5. after \in Seq(Applied)
    BY <2>1, <2>3, SeqConcat
  <2> HIDE DEF after
  <2>6. sm' \in [Server -> Seq(Applied)]
    BY <2>4, <2>5 DEF TypeOK
  <2>7. applier' \in [Server -> [busy : BOOLEAN, msgs : Seq(ApplyMsg), upto : Nat]]
    BY <2>2, <2>4 DEF TypeOK
  <2>8. TypeOK'
    BY <2>4, <2>6, <2>7 DEF TypeOK, electionVars, logVars, leaderVars
  <2>9. LogIndexing' /\ EntriesIndexed'
    BY <2>4, <1>5 DEF EntriesIndexed
  <2>10. QED
    BY <2>8, <2>9
<1>34. ASSUME IndInv, NEW s \in Server, ApplierDone(s)
       PROVE  IndInv'
  <2> USE <1>34
  <2> USE DEF IndInv
  <2>1. LastApplied[s] \in Nat /\ applier[s].upto \in Nat
    BY DEF TypeOK
  <2>2. MaxOf({LastApplied[s], applier[s].upto}) \in Nat
    BY <2>1, MaxOfTwo
  <2>3. Idle \in [busy : BOOLEAN, msgs : Seq(ApplyMsg), upto : Nat]
    BY DEF Idle
  <2>4. /\ LastApplied' = [LastApplied EXCEPT ![s] = MaxOf({LastApplied[s], applier[s].upto})]
        /\ applier' = [applier EXCEPT ![s] = Idle]
        /\ UNCHANGED <<electionVars, logVars, leaderVars, sm,
                       CommitIndex, sending, stuck, disk, boot, net>>
    BY DEF ApplierDone
  <2>5. /\ LastApplied' \in [Server -> Nat]
        /\ applier' \in [Server -> [busy : BOOLEAN, msgs : Seq(ApplyMsg), upto : Nat]]
    BY <2>2, <2>3, <2>4 DEF TypeOK
  <2>6. TypeOK'
    BY <2>4, <2>5 DEF TypeOK, electionVars, logVars, leaderVars
  <2>7. LogIndexing' /\ EntriesIndexed'
    BY <2>4, <1>5 DEF EntriesIndexed
  <2>8. QED
    BY <2>6, <2>7
\* Make() finds on disk the log that was in memory.
<1>35. ASSUME IndInv, NEW s \in Server, Make(s)
       PROVE  IndInv'
  <2> USE <1>35
  <2> USE DEF IndInv
  <2>1. LastBoot \in Nat /\ LastBoot < MaxBoots
    <3> DEFINE S == {boot[p] : p \in Server}
    <3>1. S \in SUBSET Nat /\ S # {} /\ \A y \in S : y <= MaxBoots
      BY BootType
    <3> HIDE DEF S
    <3>2. MaxOf(S) \in S
      BY <3>1, BoundAssumption, MaxOfNat
    <3>3. QED
      BY <3>1, <3>2 DEF Make, LastBoot, S
  <2>2. boot' \in [Server -> 0 .. MaxBoots]
    <3>1. LastBoot + 1 \in 0 .. MaxBoots
      BY <2>1, BoundAssumption
    <3>2. boot' = [boot EXCEPT ![s] = LastBoot + 1]
      BY DEF Make
    <3>3. QED
      BY <3>1, <3>2 DEF TypeOK
  <2>3. disk[s] \in Persisted
    BY DEF TypeOK
  <2>4. /\ CurrentTerm' \in [Server -> Nat]
        /\ VotedFor' \in [Server -> Server \cup {NotVoted}]
        /\ sm' \in [Server -> Seq(Applied)]
    BY <2>3 DEF Make, readPersist, Persisted, TypeOK
  <2>5. UNCHANGED <<Log, LastIncludedIndex, LastIncludedTerm>>
    BY DEF Make, readPersist, LogIndexing, TypeOK
  <2>6. /\ State' \in [Server -> {Leader, Candidate, Follower}]
        /\ CommitIndex' \in [Server -> Nat]
        /\ LastApplied' \in [Server -> Nat]
    BY DEF Make, TypeOK
  <2>7. /\ votes' \in [Server -> SUBSET Server]
        /\ electing' \in [Server -> BOOLEAN]
        /\ sending' \in [Server -> SUBSET InstallSnapshotArgs]
    BY DEF Make, TypeOK
  <2>8. applier' \in [Server -> [busy : BOOLEAN, msgs : Seq(ApplyMsg), upto : Nat]]
    <3>1. Idle \in [busy : BOOLEAN, msgs : Seq(ApplyMsg), upto : Nat]
      BY DEF Idle
    <3>2. QED
      BY <3>1 DEF Make, TypeOK
  <2>9. /\ NextIndex' \in [Server -> [Server -> Nat]]
        /\ MatchIndex' \in [Server -> [Server -> Nat]]
    <3> DEFINE zero == [p \in Server |-> 0]
    <3>1. zero \in [Server -> Nat]
      OBVIOUS
    <3>2. /\ NextIndex' = [NextIndex EXCEPT ![s] = zero]
          /\ MatchIndex' = [MatchIndex EXCEPT ![s] = zero]
      BY DEF Make
    <3>3. /\ NextIndex \in [Server -> [Server -> Nat]]
          /\ MatchIndex \in [Server -> [Server -> Nat]]
      BY DEF TypeOK
    <3> HIDE DEF zero
    <3>4. QED
      BY <3>1, <3>2, <3>3, <1>2
  <2>10. net' \subseteq net /\ UNCHANGED <<stuck, disk>>
    BY DEF Make
  <2>11. TypeOK'
    BY <2>2, <2>4, <2>5, <2>6, <2>7, <2>8, <2>9, <2>10 DEF TypeOK
  <2>12. LogIndexing'
    BY <2>5, <2>10, <1>5 DEF logVars
  <2>13. EntriesIndexed'
    BY <2>10 DEF EntriesIndexed
  <2>14. QED
    BY <2>11, <2>12, <2>13
<1> SUFFICES ASSUME IndInv, [Next]_vars PROVE IndInv'
  OBVIOUS
<1>36. CASE UNCHANGED vars
  <2>1. UNCHANGED <<CurrentTerm, VotedFor, State, votes, electing,
                    Log, LastIncludedIndex, LastIncludedTerm, NextIndex, MatchIndex,
                    LastApplied, applier, sm, CommitIndex, sending, stuck, disk, boot, net>>
    BY <1>36 DEF vars, electionVars, logVars, leaderVars, applyVars
  <2>2. QED
    BY <2>1 DEF IndInv, TypeOK, LogIndexing, EntriesIndexed
<1>37. CASE Next
  <2>1. ASSUME NEW s \in Candidates, TickerTimeout(s) \/ AttemptElection(s) PROVE IndInv'
    BY <2>1, ServerAssumption, <1>8, <1>9
  <2>2. ASSUME NEW s \in Server, Make(s) PROVE IndInv'
    BY <2>2, <1>35
  <2>3. ASSUME NEW s \in Server, NEW c \in Command, Start(s, c) PROVE IndInv'
    BY <2>3, <1>14
  <2>4. ASSUME NEW s \in Server, NEW p \in Server,
               BroadcastEntries(s, p) \/ PrepareSnapShot(s, p)
        PROVE  IndInv'
    BY <2>4, <1>15, <1>28
  <2>5. ASSUME NEW s \in Server, NEW m \in sending[s],
               sendSnapShot(s, m) \/ sendSnapShotNotLeader(s, m)
        PROVE  IndInv'
    BY <2>5, <1>29
  <2>6. ASSUME NEW s \in Snapshotters, Snapshot(s) PROVE IndInv'
    BY <2>6, ServerAssumption, <1>27
  <2>7. ASSUME NEW s \in Appliers,
               \/ ApplierTakeSnapshot(s) \/ ApplierTakeEntries(s)
               \/ ApplierSend(s) \/ ApplierDone(s)
        PROVE  IndInv'
    BY <2>7, ServerAssumption, <1>31, <1>32,
       <1>33, <1>34
  <2>8. ASSUME NEW m \in net, HandleRequest(m) PROVE IndInv'
    BY <2>8, <1>11, <1>18, <1>19,
       <1>30 DEF HandleRequest
  <2>9. ASSUME NEW m \in net, HandleReply(m) PROVE IndInv'
    BY <2>9, <1>12, <1>25, <1>26 DEF HandleReply
  <2>10. QED
    BY <1>37, <2>1, <2>2, <2>3, <2>4, <2>5, <2>6, <2>7, <2>8, <2>9 DEF Next
<1>38. QED
  BY <1>36, <1>37

LEMMA InitApply == Init => ApplyInv
<1> SUFFICES ASSUME Init PROVE ApplyInv
  OBVIOUS
<1>1. IndInv
  BY InitIndInv
<1>2. CallsCover
  BY DEF Init, CallsCover
<1>3. SnapshotCoversLog
  BY DEF Init, SnapshotCoversLog
<1>4. ASSUME NEW s \in Server PROVE Ordered(s)
  <2>1. applier[s] = Idle /\ LastApplied[s] = 0 /\ sm[s] = <<>>
    BY DEF Init
  <2>2. ~applier[s].busy /\ applier[s].msgs = <<>> /\ LastApplied[s] = Len(sm[s])
    <3>1. ~applier[s].busy /\ applier[s].msgs = <<>>
      BY <2>1 DEF Idle
    <3>2. Len(sm[s]) = 0
      BY <2>1, EmptySeq
    <3>3. QED
      BY <2>1, <3>1, <3>2
  <2>3. QED
    BY <2>2 DEF Ordered, Settled
<1>5. QED
  BY <1>1, <1>2, <1>3, <1>4 DEF ApplyInv

-----------------------------------------------------------------------------
(***************************************************************************)
(* Snapshots and the Applier.  A snapshot covers the indices up to the one *)
(* it is labelled with, wherever it is: on disk, in a goroutine that is    *)
(* about to send it, in a call.                                            *)
(***************************************************************************)
LEMMA NextApply ==
  ASSUME Counting
  PROVE  ApplyInv /\ [Next]_vars => ApplyInv'
\* What Ordered(p) reads.
<1>1. ASSUME NEW p, Ordered(p), UNCHANGED <<applier[p], sm[p], LastApplied[p], LastIncludedIndex[p]>>
      PROVE  Ordered(p)'
  BY <1>1 DEF Ordered, Settled, Delivers, DeliversSnapshot, DeliversCommands
\* A step that leaves the compaction of the log and the Applier alone.
<1>2. ASSUME ApplyInv, IndInv', UNCHANGED <<LastIncludedIndex, applyVars, sending>>,
             NEW s \in Server, persist(s) \/ UNCHANGED disk,
             \A r \in net' : r \in net \/ r.type # "InstallSnapShot"
      PROVE  ApplyInv'
  <2> USE <1>2
  <2>1. TypeOK /\ LogIndexing /\ SnapshotCoversLog /\ CallsCover
    BY DEF ApplyInv, IndInv
  <2>2. UNCHANGED <<LastIncludedIndex, LastApplied, applier, sm, sending>>
    BY DEF applyVars
  <2>3. ASSUME NEW p \in Server
        PROVE  Len(disk'[p].snapshot) = disk'[p].LastIncludedIndex
    <3>1. Len(disk[p].snapshot) = disk[p].LastIncludedIndex
      BY <2>1 DEF SnapshotCoversLog
    <3>2. disk[p].LastIncludedIndex = LastIncludedIndex[p]
      BY <2>1 DEF LogIndexing
    <3>3. CASE disk'[p] = disk[p]
      BY <3>1, <3>3
    <3>4. CASE p = s /\ persist(s)
      <4>1. disk'[p] = EncodeRaftState(s, disk[p].snapshot)
        BY <2>1, <3>4 DEF persist, Save, TypeOK
      <4>2. disk'[p].snapshot = disk[p].snapshot /\ disk'[p].LastIncludedIndex = LastIncludedIndex[p]
        BY <2>2, <3>4, <4>1 DEF EncodeRaftState
      <4>3. QED
        BY <3>1, <3>2, <4>2
    <3>5. QED
      BY <2>1, <3>3, <3>4 DEF persist, Save, TypeOK
  <2>4. SnapshotCoversLog'
    BY <2>3 DEF SnapshotCoversLog
  <2>5. CallsCover'
    BY <2>1, <2>2 DEF CallsCover
  <2>6. \A p \in Server : Ordered(p)'
    BY <2>2, <1>1 DEF ApplyInv
  <2>7. QED
    BY <2>4, <2>5, <2>6 DEF ApplyInv
\* A step of the Applier of s.
<1>3. ASSUME ApplyInv, IndInv', NEW s \in Server,
             UNCHANGED <<LastIncludedIndex, sending, disk, net>>,
             \A p \in Server \ {s} :
               UNCHANGED <<applier[p], sm[p], LastApplied[p]>>,
             Ordered(s)'
      PROVE  ApplyInv'
  <2> USE <1>3
  <2>1. SnapshotCoversLog' /\ CallsCover'
    BY DEF ApplyInv, SnapshotCoversLog, CallsCover
  <2>2. \A p \in Server \ {s} : Ordered(p)'
    BY <1>1 DEF ApplyInv
  <2>3. QED
    BY <2>1, <2>2 DEF ApplyInv
<1>4. ASSUME ApplyInv, IndInv', NEW s \in Server, ApplierTakeSnapshot(s)
      PROVE  ApplyInv'
  <2> USE <1>4
  <2> DEFINE msg == SnapshotMsg(LastIncludedIndex[s], disk[s].snapshot)
             task == [busy |-> TRUE, upto |-> LastIncludedIndex[s], msgs |-> <<msg>>]
  <2>1. TypeOK /\ LogIndexing /\ SnapshotCoversLog /\ Ordered(s)
    BY DEF ApplyInv, IndInv
  <2>2. /\ ~applier[s].busy /\ LastApplied[s] < LastIncludedIndex[s]
        /\ applier' = [applier EXCEPT ![s] = task]
        /\ UNCHANGED <<LastIncludedIndex, LastApplied, sm, sending, disk, net>>
    BY DEF ApplierTakeSnapshot, logVars
  <2>3. /\ LastIncludedIndex[s] \in Nat /\ LastApplied[s] \in Nat /\ Len(sm[s]) \in Nat
    BY <2>1, SeqElements DEF TypeOK
  <2>4. Len(disk[s].snapshot) = LastIncludedIndex[s]
    BY <2>1 DEF SnapshotCoversLog, LogIndexing
  <2>5. Len(sm[s]) <= LastIncludedIndex[s]
    <3>1. Settled(s)
      BY <2>1, <2>2 DEF Ordered
    <3>2. QED
      BY <2>2, <2>3, <3>1 DEF Settled
  <2>6. /\ msg.kind = "snapshot" /\ msg.Index = LastIncludedIndex[s]
        /\ Len(msg.data) = LastIncludedIndex[s]
    BY <2>4 DEF SnapshotMsg
  <2> HIDE DEF msg
  <2>7. /\ task.busy /\ task.upto = LastIncludedIndex[s] /\ Len(task.msgs) = 1
        /\ task.msgs[1] = msg
    OBVIOUS
  <2> HIDE DEF task
  <2>8. applier'[s] = task
    BY <2>1, <2>2 DEF TypeOK
  <2>9. DeliversSnapshot(s)'
    BY <2>2, <2>5, <2>6, <2>7, <2>8 DEF DeliversSnapshot
  <2>10. Ordered(s)'
    BY <2>2, <2>3, <2>7, <2>8, <2>9 DEF Ordered, Delivers
  <2>11. QED
    BY <2>1, <2>2, <2>10, <1>3 DEF TypeOK
<1>5. ASSUME ApplyInv, IndInv', NEW s \in Server, ApplierTakeEntries(s)
      PROVE  ApplyInv'
  <2> USE <1>5
  <2> DEFINE from == LastApplied[s] + 1
             end == CommitIndex[s] + 1
             entries == GetLogSlices(s, from, end)
             msgs == [k \in 1 .. Len(entries) |-> CommandMsg(entries[k])]
             task == [busy |-> TRUE, upto |-> CommitIndex[s], msgs |-> msgs]
  <2>1. TypeOK /\ LogIndexing /\ Ordered(s)
    BY DEF ApplyInv, IndInv
  <2>2. /\ ~applier[s].busy /\ LastApplied[s] >= LastIncludedIndex[s]
        /\ CommitIndex[s] > LastApplied[s] /\ HasLogSlices(s, from, end)
        /\ applier' = [applier EXCEPT ![s] = task]
        /\ UNCHANGED <<LastIncludedIndex, LastApplied, sm, sending, disk, net>>
    BY DEF ApplierTakeEntries, logVars
  <2>3. /\ LastIncludedIndex[s] \in Nat /\ LastApplied[s] \in Nat /\ CommitIndex[s] \in Nat
        /\ Len(sm[s]) \in Nat
    BY <2>1, SeqElements DEF TypeOK
  <2>4. LastApplied[s] = Len(sm[s])
    <3>1. Settled(s)
      BY <2>1, <2>2 DEF Ordered
    <3>2. QED
      BY <2>2, <2>3, <3>1 DEF Settled
  <2>5. /\ from \in Nat /\ end \in Nat /\ from > LastIncludedIndex[s] /\ from <= end
        /\ end - from = CommitIndex[s] - LastApplied[s]
    BY <2>2, <2>3, ShiftedRange
  <2>6. /\ entries \in Seq(LogEntry) /\ Len(entries) = end - from
        /\ \A k \in 1 .. end - from : entries[k].Index = from + k - 1
    BY <2>1, <2>2, <2>5, LogSlices
  <2> HIDE DEF entries
  <2>7. Len(msgs) = Len(entries)
    BY <2>6, CommandMsgs
  <2>8. ASSUME NEW k \in 1 .. Len(msgs)
        PROVE  /\ msgs[k].kind = "command" /\ msgs[k].Index = Len(sm[s]) + k
               /\ Len(msgs[k].data) = 1
    <3>1. k \in 1 .. Len(entries) /\ k \in 1 .. end - from
      BY <2>6, <2>7
    <3>2. msgs[k] = CommandMsg(entries[k])
      BY <3>1
    <3>3. entries[k].Index = Len(sm[s]) + k
      BY <2>3, <2>4, <2>6, <3>1
    <3>4. QED
      BY <3>2, <3>3 DEF CommandMsg
  <2>9. Len(sm[s]) + Len(msgs) = CommitIndex[s]
    BY <2>3, <2>4, <2>5, <2>6, <2>7
  <2> HIDE DEF msgs
  <2>10. task.busy /\ task.upto = CommitIndex[s] /\ task.msgs = msgs
    OBVIOUS
  <2> HIDE DEF task
  <2>11. applier'[s] = task
    BY <2>1, <2>2 DEF TypeOK
  <2>12. DeliversCommands(s)'
    BY <2>2, <2>8, <2>9, <2>10, <2>11 DEF DeliversCommands
  <2>13. Ordered(s)'
    BY <2>2, <2>3, <2>10, <2>11, <2>12 DEF Ordered, Delivers
  <2>14. QED
    BY <2>1, <2>2, <2>13, <1>3 DEF TypeOK
\* What is left when the first of the commands has been sent.
<1>6. ASSUME NEW state \in Seq(Applied), NEW msgs \in Seq(ApplyMsg), msgs # <<>>, NEW upto \in Nat,
             Len(state) + Len(msgs) = upto,
             \A k \in 1 .. Len(msgs) : /\ msgs[k].kind = "command"
                                       /\ msgs[k].Index = Len(state) + k
                                       /\ Len(msgs[k].data) = 1
      PROVE  LET after == state \o Head(msgs).data
                 rest == Tail(msgs)
             IN  /\ Head(msgs).kind = "command"
                 /\ Len(after) + Len(rest) = upto
                 /\ \A k \in 1 .. Len(rest) : /\ rest[k].kind = "command"
                                              /\ rest[k].Index = Len(after) + k
                                              /\ Len(rest[k].data) = 1
  <2> USE <1>6
  <2> DEFINE after == state \o Head(msgs).data
             rest == Tail(msgs)
  <2>1. PICK l \in Nat, n \in Nat : l = Len(state) /\ n = Len(msgs) /\ n >= 1
    <3>1. Len(state) \in Nat /\ Len(msgs) \in Nat
      BY SeqElements
    <3>2. Len(msgs) # 0
      BY EmptySeq
    <3>3. QED
      BY <3>1, <3>2
  <2>2. /\ Head(msgs) = msgs[1] /\ msgs[1] \in ApplyMsg
        /\ Len(rest) = n - 1 /\ \A k \in 1 .. n - 1 : rest[k] = msgs[k + 1]
    <3>1. /\ Head(msgs) = msgs[1] /\ Head(msgs) \in ApplyMsg
          /\ Len(rest) = Len(msgs) - 1
          /\ \A k \in 1 .. Len(rest) : rest[k] = msgs[k + 1]
      BY <2>1, SeqTail, SMTT(60), Z3T(60)
    <3> HIDE DEF rest
    <3>2. QED
      BY <2>1, <3>1
  <2>3. msgs[1].data \in Seq(Applied) /\ msgs[1].kind = "command" /\ Len(msgs[1].data) = 1
    BY <2>1, <2>2 DEF ApplyMsg
  <2>4. Len(after) = l + 1
    <3>1. Len(state \o msgs[1].data) = Len(state) + Len(msgs[1].data)
      BY <2>3, SeqConcat
    <3>2. QED
      BY <2>1, <2>2, <2>3, <3>1
  <2> HIDE DEF after, rest
  <2>5. Len(after) + Len(rest) = upto
    <3>1. l + n = upto /\ Len(rest) = n - 1
      BY <2>1, <2>2
    <3>2. QED
      BY <2>4, <3>1
  <2>6. ASSUME NEW k \in 1 .. Len(rest)
        PROVE  /\ rest[k].kind = "command" /\ rest[k].Index = Len(after) + k
               /\ Len(rest[k].data) = 1
    <3>1. k \in 1 .. n - 1 /\ k + 1 \in 1 .. n /\ l + (k + 1) = (l + 1) + k
      BY <2>1, <2>2
    <3>2. rest[k] = msgs[k + 1]
      BY <2>2, <3>1
    <3>3. msgs[k + 1].kind = "command" /\ msgs[k + 1].Index = l + (k + 1)
          /\ Len(msgs[k + 1].data) = 1
      BY <2>1, <3>1
    <3>4. QED
      BY <2>4, <3>1, <3>2, <3>3
  <2>7. QED
    BY <2>2, <2>3, <2>5, <2>6 DEF after, rest
<1>7. ASSUME ApplyInv, IndInv', NEW s \in Server, ApplierSend(s)
      PROVE  ApplyInv'
  <2> USE <1>7
  <2> DEFINE msgs == applier[s].msgs
             msg == Head(msgs)
             upto == applier[s].upto
  <2>1. TypeOK /\ Ordered(s)
    BY DEF ApplyInv, IndInv
  <2>2. /\ msgs # <<>>
        /\ applier' = [applier EXCEPT ![s].msgs = Tail(@)]
        /\ sm' = [sm EXCEPT ![s] = IF msg.kind = "snapshot" THEN msg.data ELSE sm[s] \o msg.data]
        /\ UNCHANGED <<LastIncludedIndex, LastApplied, sending, disk, net>>
    BY DEF ApplierSend, logVars
  <2>3. /\ msgs \in Seq(ApplyMsg) /\ sm[s] \in Seq(Applied) /\ Len(sm[s]) \in Nat
        /\ upto \in Nat
    BY <2>1, SeqElements DEF TypeOK
  <2>4. /\ msg = msgs[1] /\ msg \in ApplyMsg
        /\ Len(msgs) \in Nat /\ Len(msgs) >= 1
        /\ Len(Tail(msgs)) = Len(msgs) - 1
        /\ \A k \in 1 .. Len(msgs) - 1 : Tail(msgs)[k] = msgs[k + 1]
    <3>1. Len(msgs) \in Nat /\ Len(msgs) >= 1
      BY <2>2, <2>3, EmptySeq, SeqElements, SMTT(60), Z3T(60)
    <3>2. QED
      BY <2>2, <2>3, <3>1, SeqTail
  <2>5. /\ applier'[s].msgs = Tail(msgs) /\ applier'[s].upto = upto
        /\ applier'[s].busy = applier[s].busy
        /\ \A p \in Server \ {s} : applier'[p] = applier[p]
    BY <2>1, <2>2 DEF TypeOK
  <2>6. /\ sm'[s] = IF msg.kind = "snapshot" THEN msg.data ELSE sm[s] \o msg.data
        /\ \A p \in Server \ {s} : sm'[p] = sm[p]
    BY <2>1, <2>2 DEF TypeOK
  <2>7. applier[s].busy /\ Delivers(s)
    BY <2>1, <2>2 DEF Ordered, Settled
  <2>8. DeliversCommands(s)'
    <3>1. CASE DeliversSnapshot(s)
      <4>1. Len(msgs) = 1 /\ msg.kind = "snapshot" /\ Len(msg.data) = upto
        BY <2>4, <3>1 DEF DeliversSnapshot
      <4>2. Len(applier'[s].msgs) = 0 /\ Len(sm'[s]) = upto
        BY <2>4, <2>5, <2>6, <4>1
      <4>3. Len(sm'[s]) + Len(applier'[s].msgs) = applier'[s].upto
        <5>1. upto + 0 = upto
          BY <2>3
        <5>2. QED
          BY <2>5, <4>2, <5>1
      <4>4. 1 .. Len(applier'[s].msgs) = {}
        BY <4>2
      <4>5. QED
        BY <4>3, <4>4 DEF DeliversCommands
    <3>2. CASE DeliversCommands(s)
      <4>1. /\ Len(sm[s]) + Len(msgs) = upto
            /\ \A k \in 1 .. Len(msgs) : /\ msgs[k].kind = "command"
                                         /\ msgs[k].Index = Len(sm[s]) + k
                                         /\ Len(msgs[k].data) = 1
        BY <3>2 DEF DeliversCommands
      <4> HIDE DEF msgs, upto
      <4>2. /\ msg.kind = "command"
            /\ Len(sm[s] \o msg.data) + Len(Tail(msgs)) = upto
            /\ \A k \in 1 .. Len(Tail(msgs)) : /\ Tail(msgs)[k].kind = "command"
                                               /\ Tail(msgs)[k].Index = Len(sm[s] \o msg.data) + k
                                               /\ Len(Tail(msgs)[k].data) = 1
        <5>1. /\ sm[s] \in Seq(Applied) /\ msgs \in Seq(ApplyMsg) /\ msgs # <<>>
              /\ upto \in Nat
          BY <2>2, <2>3
        <5>2. QED
          BY <4>1, <5>1, <1>6, ZenonT(60)
      <4>3. sm'[s] = sm[s] \o msg.data
        BY <2>6, <4>2
      <4> HIDE DEF msg
      <4>4. QED
        BY <2>5, <4>2, <4>3 DEF DeliversCommands
    <3>3. QED
      BY <2>7, <3>1, <3>2 DEF Delivers
  <2>9. Ordered(s)'
    BY <2>2, <2>5, <2>7, <2>8 DEF Ordered, Delivers
  <2>10. QED
    BY <2>2, <2>5, <2>6, <2>9, <1>3
<1>8. ASSUME ApplyInv, IndInv', NEW s \in Server, ApplierDone(s)
      PROVE  ApplyInv'
  <2> USE <1>8
  <2> DEFINE upto == applier[s].upto
  <2>1. TypeOK /\ Ordered(s)
    BY DEF ApplyInv, IndInv
  <2>2. /\ applier[s].busy /\ applier[s].msgs = <<>>
        /\ LastApplied' = [LastApplied EXCEPT ![s] = MaxOf({LastApplied[s], upto})]
        /\ applier' = [applier EXCEPT ![s] = Idle]
        /\ UNCHANGED <<LastIncludedIndex, sm, sending, disk, net>>
    BY DEF ApplierDone, logVars
  <2>3. LastApplied[s] \in Nat /\ upto \in Nat /\ Len(sm[s]) \in Nat
    BY <2>1, SeqElements DEF TypeOK
  <2>4. Delivers(s)
    BY <2>1, <2>2 DEF Ordered
  <2>5. Len(sm[s]) = upto /\ upto >= LastApplied[s]
    <3>1. Len(applier[s].msgs) = 0
      BY <2>2
    <3>2. ~DeliversSnapshot(s)
      BY <3>1 DEF DeliversSnapshot
    <3>3. QED
      BY <2>3, <2>4, <3>1, <3>2 DEF Delivers, DeliversCommands
  <2>6. MaxOf({LastApplied[s], upto}) = upto
    <3>1. /\ MaxOf({LastApplied[s], upto}) \in {LastApplied[s], upto}
          /\ MaxOf({LastApplied[s], upto}) >= upto
      BY <2>3, MaxOfTwo
    <3>2. QED
      BY <2>3, <2>5, <3>1
  <2>7. LastApplied'[s] = upto /\ ~applier'[s].busy /\ applier'[s].msgs = <<>>
    BY <2>1, <2>2, <2>6 DEF TypeOK, Idle
  <2>8. Ordered(s)'
    BY <2>2, <2>5, <2>7 DEF Ordered, Settled
  <2>9. QED
    BY <2>1, <2>2, <2>8, <1>3 DEF TypeOK
\* A peer whose log now starts at a later index, or that has started again.
<1>9. ASSUME ApplyInv, IndInv', CallsCover', NEW s \in Server,
             Len(disk'[s].snapshot) = disk'[s].LastIncludedIndex,
             \A p \in Server \ {s} :
               UNCHANGED <<disk[p], applier[p], sm[p], LastApplied[p], LastIncludedIndex[p]>>,
             Ordered(s)'
      PROVE  ApplyInv'
  <2> USE <1>9
  <2>1. SnapshotCoversLog'
    BY DEF ApplyInv, SnapshotCoversLog
  <2>2. \A p \in Server \ {s} : Ordered(p)'
    BY <1>1 DEF ApplyInv
  <2>3. QED
    BY <2>1, <2>2 DEF ApplyInv
\* The service's own snapshot: it covers what the service has applied.
<1>10. ASSUME ApplyInv, IndInv', NEW s \in Server, Snapshot(s)
       PROVE  ApplyInv'
  <2> USE <1>10
  <2>1. TypeOK /\ Ordered(s) /\ CallsCover
    BY DEF ApplyInv, IndInv
  <2>2. /\ Len(sm[s]) > LastIncludedIndex[s]
        /\ LastIncludedIndex' = [LastIncludedIndex EXCEPT ![s] = Len(sm[s])]
        /\ disk' = [disk EXCEPT ![s] = EncodeRaftState(s, sm[s])]
        /\ UNCHANGED <<LastApplied, applier, sm, sending, net>>
    BY DEF Snapshot, Save, applyVars
  <2>3. LastIncludedIndex'[s] = Len(sm[s]) /\ disk'[s] = EncodeRaftState(s, sm[s])
    BY <2>1, <2>2 DEF TypeOK
  <2>4. Len(disk'[s].snapshot) = disk'[s].LastIncludedIndex
    BY <2>3 DEF EncodeRaftState
  <2>5. CallsCover'
    BY <2>1, <2>2 DEF CallsCover
  <2>6. Ordered(s)'
    <3>1. LastIncludedIndex[s] \in Nat /\ Len(sm[s]) \in Nat
      BY <2>1, SeqElements DEF TypeOK
    <3>2. CASE applier[s].busy
      <4>1. Delivers(s)
        BY <2>1, <3>2 DEF Ordered
      <4>2. QED
        BY <2>2, <3>2, <4>1
           DEF Ordered, Delivers, DeliversSnapshot, DeliversCommands
    <3>3. CASE ~applier[s].busy
      <4>1. applier[s].msgs = <<>> /\ LastApplied[s] = Len(sm[s])
        BY <2>1, <2>2, <3>1, <3>3 DEF Ordered, Settled
      <4>2. QED
        BY <2>2, <3>3, <4>1 DEF Ordered, Settled
    <3>4. QED
      BY <3>2, <3>3
  <2>7. QED
    BY <2>1, <2>2, <2>4, <2>5, <2>6, <1>9 DEF TypeOK
\* A snapshot of the leader, which the service does not have yet.
<1>11. ASSUME ApplyInv, IndInv', NEW m \in net, m.type = "InstallSnapShot", InstallSnapShot(m)
       PROVE  ApplyInv'
  <2> USE <1>11
  <2> DEFINE s == m.to
             r == SnapShotReply(m, CurrentTerm[s])
  <2>1. TypeOK /\ CallsCover
    BY DEF ApplyInv, IndInv
  <2>2. s \in Server /\ m.LastIncludedIndex \in Nat
    BY <2>1, MessageTypes DEF InstallSnapshotArgs
  <2>3. /\ m.LastIncludedIndex > LastIncludedIndex[s]
        /\ LastIncludedIndex' = [LastIncludedIndex EXCEPT ![s] = m.LastIncludedIndex]
        /\ disk' = [disk EXCEPT ![s] = EncodeRaftState(s, m.Data)]
        /\ UNCHANGED <<LastApplied, applier, sm, sending>>
        /\ net' \subseteq net \cup {r}
    BY RespondAdds DEF InstallSnapShot, Save, applyVars
  <2>4. LastIncludedIndex'[s] = m.LastIncludedIndex /\ disk'[s] = EncodeRaftState(s, m.Data)
    BY <2>1, <2>2, <2>3 DEF TypeOK
  <2>5. Len(disk'[s].snapshot) = disk'[s].LastIncludedIndex
    BY <2>1, <2>4 DEF EncodeRaftState, CallsCover
  <2>6. CallsCover'
    <3>1. r.type # "InstallSnapShot"
      BY DEF SnapShotReply
    <3> HIDE DEF r
    <3>2. QED
      BY <2>1, <2>3, <3>1 DEF CallsCover
  <2>7. Ordered(s)'
    <3>1. LastIncludedIndex[s] \in Nat /\ Len(sm[s]) \in Nat /\ LastApplied[s] \in Nat
      BY <2>1, <2>2, SeqElements DEF TypeOK
    <3>2. Ordered(s)
      BY <2>2 DEF ApplyInv
    <3>3. CASE applier[s].busy
      <4>1. Delivers(s)
        BY <3>2, <3>3 DEF Ordered
      <4>2. QED
        BY <2>3, <3>3, <4>1
           DEF Ordered, Delivers, DeliversSnapshot, DeliversCommands
    <3>4. CASE ~applier[s].busy
      <4>1. /\ applier[s].msgs = <<>>
            /\ \/ LastApplied[s] = Len(sm[s])
               \/ LastApplied[s] < LastIncludedIndex[s] /\ Len(sm[s]) <= LastIncludedIndex[s]
        BY <3>2, <3>4 DEF Ordered, Settled
      <4>2. \/ LastApplied[s] = Len(sm[s])
            \/ LastApplied[s] < m.LastIncludedIndex /\ Len(sm[s]) <= m.LastIncludedIndex
        BY <2>2, <2>3, <3>1, <4>1
      <4>3. QED
        BY <2>3, <2>4, <3>4, <4>1, <4>2 DEF Ordered, Settled
    <3>5. QED
      BY <3>3, <3>4
  <2>8. QED
    BY <2>1, <2>2, <2>3, <2>5, <2>6, <2>7, <1>9 DEF TypeOK
\* After a restart the service is where its snapshot left it, and LastApplied
\* is zero.
<1>12. ASSUME ApplyInv, IndInv', NEW s \in Server, Make(s)
       PROVE  ApplyInv'
  <2> USE <1>12
  <2>1. TypeOK /\ LogIndexing /\ SnapshotCoversLog /\ CallsCover
    BY DEF ApplyInv, IndInv
  <2>2. /\ LastIncludedIndex' = [LastIncludedIndex EXCEPT ![s] = disk[s].LastIncludedIndex]
        /\ LastApplied' = [LastApplied EXCEPT ![s] = 0]
        /\ applier' = [applier EXCEPT ![s] = Idle]
        /\ sm' = [sm EXCEPT ![s] = disk[s].snapshot]
        /\ sending' = [sending EXCEPT ![s] = {}]
        /\ net' \subseteq net /\ UNCHANGED disk
    BY DEF Make, readPersist
  <2>3. /\ LastIncludedIndex'[s] = disk[s].LastIncludedIndex /\ LastApplied'[s] = 0
        /\ applier'[s] = Idle /\ sm'[s] = disk[s].snapshot
    BY <2>1, <2>2 DEF TypeOK
  <2>4. disk[s].LastIncludedIndex \in Nat /\ Len(disk[s].snapshot) = disk[s].LastIncludedIndex
    BY <2>1 DEF TypeOK, Persisted, SnapshotCoversLog
  <2>5. CallsCover'
    BY <2>1, <2>2 DEF CallsCover, TypeOK
  <2>6. Ordered(s)'
    <3>1. \/ 0 = Len(disk[s].snapshot)
          \/ 0 < disk[s].LastIncludedIndex /\ Len(disk[s].snapshot) <= disk[s].LastIncludedIndex
      BY <2>4
    <3>2. QED
      BY <2>3, <3>1 DEF Ordered, Settled, Idle
  <2>7. QED
    BY <2>1, <2>2, <2>4, <2>5, <2>6, <1>9 DEF TypeOK
\* The snapshot that is sent is the one on disk, under the index in memory.
<1>13. ASSUME ApplyInv, IndInv', NEW s \in Server, NEW p \in Server, PrepareSnapShot(s, p)
       PROVE  ApplyInv'
  <2> USE <1>13
  <2> DEFINE m == [type |-> "InstallSnapShot", from |-> s, to |-> p, boot |-> boot[s],
                   Term |-> CurrentTerm[s], LastIncludedIndex |-> LastIncludedIndex[s],
                   LastIncludedTerm |-> LastIncludedTerm[s], Data |-> disk[s].snapshot]
  <2>1. TypeOK /\ LogIndexing /\ SnapshotCoversLog /\ CallsCover
    BY DEF ApplyInv, IndInv
  <2>2. /\ sending' = [sending EXCEPT ![s] = sending[s] \cup {m}]
        /\ UNCHANGED <<LastIncludedIndex, LastApplied, applier, sm, disk, net>>
    BY DEF PrepareSnapShot, logVars, applyVars
  <2>3. Len(m.Data) = m.LastIncludedIndex
    BY <2>1 DEF SnapshotCoversLog, LogIndexing
  <2> HIDE DEF m
  <2>4. CallsCover'
    BY <2>1, <2>2, <2>3 DEF CallsCover, TypeOK
  <2>5. SnapshotCoversLog' /\ \A x \in Server : Ordered(x)'
    BY <2>2, <1>1 DEF ApplyInv, SnapshotCoversLog
  <2>6. QED
    BY <2>4, <2>5 DEF ApplyInv
<1>14. ASSUME ApplyInv, IndInv', NEW s \in Server, NEW m \in sending[s],
              sendSnapShot(s, m) \/ sendSnapShotNotLeader(s, m)
       PROVE  ApplyInv'
  <2> USE <1>14
  <2>1. TypeOK /\ CallsCover
    BY DEF ApplyInv, IndInv
  <2>2. /\ sending' = [sending EXCEPT ![s] = sending[s] \ {m}]
        /\ net' \subseteq net \cup {m}
        /\ UNCHANGED <<LastIncludedIndex, LastApplied, applier, sm, disk>>
    BY SendAdds DEF sendSnapShot, sendSnapShotNotLeader, logVars, applyVars
  <2>3. CallsCover'
    BY <2>1, <2>2 DEF CallsCover, TypeOK
  <2>4. SnapshotCoversLog' /\ \A x \in Server : Ordered(x)'
    BY <2>2, <1>1 DEF ApplyInv, SnapshotCoversLog
  <2>5. QED
    BY <2>3, <2>4 DEF ApplyInv
\* Elections and replication leave the compaction of the log and the Applier
\* alone.
<1>15. ASSUME ApplyInv, IndInv', NEW s \in Server, TickerTimeout(s) \/ AttemptElection(s)
       PROVE  ApplyInv'
  <2> USE <1>15
  <2>1. CASE TickerTimeout(s)
    <3>1. UNCHANGED <<LastIncludedIndex, applyVars, sending, disk, net>>
      BY <2>1 DEF TickerTimeout, logVars
    <3>2. QED
      BY <3>1, <1>2
  <2>2. CASE AttemptElection(s)
    <3>1. UNCHANGED <<LastIncludedIndex, applyVars, sending>> /\ persist(s)
      BY <2>2 DEF AttemptElection, logVars
    <3>2. \A r \in net' : r \in net \/ r.type = "RequestVote"
      BY <2>2, CandidateAsks
    <3>3. \A r \in net' : r \in net \/ r.type # "InstallSnapShot"
      BY <3>2
    <3>4. QED
      BY <3>1, <3>3, <1>2
  <2>3. QED
    BY <2>1, <2>2
<1>16. ASSUME ApplyInv, IndInv', NEW s \in Server,
              \/ \E c \in Command : Start(s, c)
              \/ \E p \in Server : BroadcastEntries(s, p)
       PROVE  ApplyInv'
  <2> USE <1>16
  <2>1. ASSUME NEW c \in Command, Start(s, c) PROVE ApplyInv'
    <3>1. UNCHANGED <<LastIncludedIndex, applyVars, sending, net>> /\ persist(s)
      BY <2>1 DEF Start
    <3>2. QED
      BY <3>1, <1>2
  <2>2. ASSUME NEW p \in Server, BroadcastEntries(s, p) PROVE ApplyInv'
    <3> DEFINE m == [type |-> "AppendEntries", from |-> s, to |-> p, boot |-> boot[s],
                     Term |-> CurrentTerm[s], PrevLogIndex |-> NextIndex[s][p] - 1,
                     PrevLogTerm |-> GetLogEntry(s, NextIndex[s][p] - 1).Term,
                     Entries |-> GetLogSlices(s, NextIndex[s][p], GetLastLog(s).Index + 1),
                     LeaderCommit |-> CommitIndex[s]]
    <3>1. UNCHANGED <<LastIncludedIndex, applyVars, sending, disk>>
      BY <2>2 DEF BroadcastEntries, logVars
    <3>2. net' \subseteq net \cup {m}
      BY <2>2, SendAdds DEF BroadcastEntries
    <3>3. m.type # "InstallSnapShot"
      OBVIOUS
    <3> HIDE DEF m
    <3>4. \A r \in net' : r \in net \/ r.type # "InstallSnapShot"
      BY <3>2, <3>3
    <3>5. QED
      BY <3>1, <3>4, <1>2
  <2>3. QED
    BY <2>1, <2>2
\* What a handler that does not install a snapshot leaves behind.
<1>17. ASSUME ApplyInv, IndInv', NEW m \in net, HandleRequest(m),
              ~(m.type = "InstallSnapShot" /\ InstallSnapShot(m))
       PROVE  ApplyInv'
  <2> USE <1>17
  <2>1. TypeOK
    BY DEF ApplyInv, IndInv
  <2>2. ASSUME NEW r, r.type # "InstallSnapShot", Respond(m, r), NEW s \in Server,
               UNCHANGED <<LastIncludedIndex, applyVars, sending>>,
               persist(s) \/ UNCHANGED disk
        PROVE  ApplyInv'
    <3>1. net' \subseteq net \cup {r}
      BY <2>2, RespondAdds
    <3>2. \A x \in net' : x \in net \/ x.type # "InstallSnapShot"
      BY <2>2, <3>1
    <3>3. QED
      BY <2>2, <3>2, <1>2
  <2>3. /\ \A t, g : VoteReply(m, t, g).type # "InstallSnapShot"
        /\ \A t, x : EntriesReply(m, t, x).type # "InstallSnapShot"
        /\ \A t : SnapShotReply(m, t).type # "InstallSnapShot"
    BY DEF VoteReply, EntriesReply, SnapShotReply
  <2>4. CASE /\ m.type = "RequestVote"
             /\ RequestVoteStale(m) \/ RequestVoteRefuse(m) \/ RequestVoteGrant(m)
    <3>1. m.to \in Server
      BY <2>1, <2>4, MessageTypes DEF RequestVoteArgs
    <3>2. /\ UNCHANGED <<LastIncludedIndex, applyVars, sending>>
          /\ persist(m.to) \/ UNCHANGED disk
      BY <2>4 DEF RequestVoteStale, RequestVoteRefuse, RequestVoteGrant, logVars
    <3>3. \E t, g : Respond(m, VoteReply(m, t, g))
      BY <2>4 DEF RequestVoteStale, RequestVoteRefuse, RequestVoteGrant
    <3>4. QED
      BY <2>2, <2>3, <3>1, <3>2, <3>3
  <2>5. CASE /\ m.type = "AppendEntries"
             /\ AppendEntriesStale(m) \/ AppendEntriesReject(m) \/ AppendEntriesAccept(m)
    <3>1. m.to \in Server
      BY <2>1, <2>5, MessageTypes DEF AppendEntriesArgs
    <3>2. /\ UNCHANGED <<LastIncludedIndex, applyVars, sending>>
          /\ persist(m.to) \/ UNCHANGED disk
      BY <2>5 DEF AppendEntriesStale, AppendEntriesReject, AppendEntriesAccept, logVars
    <3>3. \E t, x : Respond(m, EntriesReply(m, t, x))
      BY <2>5 DEF AppendEntriesStale, AppendEntriesReject, AppendEntriesAccept
    <3>4. QED
      BY <2>2, <2>3, <3>1, <3>2, <3>3
  <2>6. CASE m.type = "InstallSnapShot" /\ (InstallSnapShotStale(m) \/ InstallSnapShotOld(m))
    <3>1. m.to \in Server
      BY <2>1, <2>6, MessageTypes DEF InstallSnapshotArgs
    <3>2. UNCHANGED <<LastIncludedIndex, applyVars, sending, disk>>
      BY <2>6 DEF InstallSnapShotStale, InstallSnapShotOld, logVars
    <3>3. \E t : Respond(m, SnapShotReply(m, t))
      BY <2>6 DEF InstallSnapShotStale, InstallSnapShotOld
    <3>4. QED
      BY <2>2, <2>3, <3>1, <3>2, <3>3
  <2>7. QED
    BY <2>4, <2>5, <2>6 DEF HandleRequest
<1>18. ASSUME ApplyInv, IndInv', NEW m \in net, HandleReply(m)
       PROVE  ApplyInv'
  <2> USE <1>18
  <2>1. TypeOK
    BY DEF ApplyInv, IndInv
  <2>2. m.args.from \in Server
    BY <2>1, MessageTypes
       DEF HandleReply, RequestVoteReply, AppendEntriesReply, InstallSnapshotReply,
           RequestVoteArgs, AppendEntriesArgs, InstallSnapshotArgs
  <2>3. /\ UNCHANGED <<LastIncludedIndex, applyVars, sending>>
        /\ persist(m.args.from) \/ UNCHANGED disk
    BY DEF HandleReply, VoteReplyIgnored, VoteReplyHigherTerm, VoteReplyGranted, ReplyOutdated,
           EntriesReplyHigherTerm, EntriesReplySuccess, EntriesReplyFailure,
           SnapShotReplyHigherTerm, SnapShotReplySuccess, logVars
  <2>4. Consume(m)
    BY DEF HandleReply, VoteReplyIgnored, VoteReplyHigherTerm, VoteReplyGranted, ReplyOutdated,
           EntriesReplyHigherTerm, EntriesReplySuccess, EntriesReplyFailure,
           SnapShotReplyHigherTerm, SnapShotReplySuccess
  <2>5. net' \subseteq net
    BY <2>4, ConsumeAdds
  <2>6. QED
    BY <2>2, <2>3, <2>5, <1>2
<1> SUFFICES ASSUME ApplyInv, [Next]_vars PROVE ApplyInv'
  OBVIOUS
<1>19. IndInv'
  BY NextIndInv DEF ApplyInv
<1>20. CASE UNCHANGED vars
  <2>1. UNCHANGED <<LastIncludedIndex, LastApplied, applier, sm, sending, disk, net>>
    BY <1>20 DEF vars, logVars, applyVars
  <2>2. SnapshotCoversLog' /\ CallsCover' /\ \A x \in Server : Ordered(x)'
    BY <2>1, <1>1 DEF ApplyInv, SnapshotCoversLog, CallsCover
  <2>3. QED
    BY <1>19, <2>2 DEF ApplyInv
<1>21. CASE Next
  <2>1. ASSUME NEW s \in Candidates, TickerTimeout(s) \/ AttemptElection(s) PROVE ApplyInv'
    BY <1>19, <2>1, ServerAssumption, <1>15
  <2>2. ASSUME NEW s \in Server, Make(s) PROVE ApplyInv'
    BY <1>19, <2>2, <1>12
  <2>3. ASSUME NEW s \in Server, NEW c \in Command, Start(s, c) PROVE ApplyInv'
    BY <1>19, <2>3, <1>16
  <2>4. ASSUME NEW s \in Server, NEW p \in Server,
               BroadcastEntries(s, p) \/ PrepareSnapShot(s, p)
        PROVE  ApplyInv'
    BY <1>19, <2>4, <1>16, <1>13
  <2>5. ASSUME NEW s \in Server, NEW m \in sending[s],
               sendSnapShot(s, m) \/ sendSnapShotNotLeader(s, m)
        PROVE  ApplyInv'
    BY <1>19, <2>5, <1>14
  <2>6. ASSUME NEW s \in Snapshotters, Snapshot(s) PROVE ApplyInv'
    BY <1>19, <2>6, ServerAssumption, <1>10
  <2>7. ASSUME NEW s \in Appliers,
               \/ ApplierTakeSnapshot(s) \/ ApplierTakeEntries(s)
               \/ ApplierSend(s) \/ ApplierDone(s)
        PROVE  ApplyInv'
    BY <1>19, <2>7, ServerAssumption, <1>4, <1>5, <1>7, <1>8
  <2>8. ASSUME NEW m \in net, HandleRequest(m) PROVE ApplyInv'
    BY <1>19, <2>8, <1>17, <1>11
  <2>9. ASSUME NEW m \in net, HandleReply(m) PROVE ApplyInv'
    BY <1>19, <2>9, <1>18
  <2>10. QED
    BY <1>21, <2>1, <2>2, <2>3, <2>4, <2>5, <2>6, <2>7, <2>8, <2>9 DEF Next
<1>22. QED
  BY <1>20, <1>21

LEMMA ApplyIsOrdered == ApplyInv => ApplyInOrder
<1> SUFFICES ASSUME ApplyInv, NEW s \in Server, applier[s].msgs # <<>>
             PROVE  LET msg == Head(applier[s].msgs) IN
                    IF msg.kind = "command"
                    THEN msg.Index = Len(sm[s]) + 1
                    ELSE msg.Index = Len(msg.data) /\ msg.Index >= Len(sm[s])
  BY DEF ApplyInOrder
<1> DEFINE msgs == applier[s].msgs
           msg == Head(msgs)
<1>1. TypeOK /\ Ordered(s)
  BY DEF ApplyInv, IndInv
<1>2. msgs \in Seq(ApplyMsg) /\ Len(sm[s]) \in Nat /\ applier[s].upto \in Nat
  BY <1>1, SeqElements DEF TypeOK
<1>3. Len(msgs) \in Nat /\ Len(msgs) >= 1
  BY <1>2, EmptySeq, SeqElements, SMTT(60), Z3T(60)
<1>4. msg = msgs[1] /\ 1 \in 1 .. Len(msgs)
  BY <1>2, <1>3
<1>5. Delivers(s)
  BY <1>1 DEF Ordered, Settled
<1>6. CASE DeliversSnapshot(s)
  BY <1>2, <1>4, <1>6 DEF DeliversSnapshot
<1>7. CASE DeliversCommands(s)
  BY <1>4, <1>7 DEF DeliversCommands
<1>8. QED
  BY <1>5, <1>6, <1>7 DEF Delivers
=============================================================================
