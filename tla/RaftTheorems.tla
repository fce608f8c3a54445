---------------------------- MODULE RaftTheorems ----------------------------
(***************************************************************************)
(* What holds of Raft for every set of peers, whatever the network does    *)
(* and wherever a peer stops and restarts.  First what holds with          *)
(* snapshots: types, indices, the order of deliveries, one leader in a     *)
(* term, and logs that match.  Then, as long as no service takes a         *)
(* snapshot: what is committed stays committed and is the same everywhere, *)
(* and a leader that counts on a peer or goes on from some index is right  *)
(* to do so.  With snapshots none of the latter is a theorem: a late       *)
(* InstallSnapShot() discards acknowledged entries (run                    *)
(* raft_snapshot_loss).                                                    *)
(*                                                                         *)
(* The modules it extends show that a step keeps each invariant; here is   *)
(* the argument over time.                                                 *)
(***************************************************************************)
EXTENDS MCRaft, RaftElectionProofs, RaftHistoryProofs, RaftCommitProofs,
        FiniteSetTheorems, WellFoundedInduction

\* A leaf that names no prover is tried with Zenon and with the SMT solver, then
\* with both once more.
USE ZenonT(5), SMTT(60), Z3T(60), ZenonT(30)

LEMMA CountingHolds == Counting
<1>1. ASSUME NEW S \in SUBSET Nat, S # {} PROVE \E x \in S : \A y \in S : x <= y
  <2> DEFINE R == OpToRel(<, Nat)
  <2>1. PICK x \in S : \A y \in S : ~(<<y, x>> \in R)
    BY <1>1, NatLessThanWellFounded, WFMin
  <2>2. \A y \in S : ~(y < x)
    BY <2>1 DEF OpToRel
  <2>3. \A y \in S : x <= y
    BY <2>2, SMTT(60), Z3T(60)
  <2>4. QED
    BY <2>3
<1>2. ASSUME NEW Q \in SUBSET Server, NEW R \in SUBSET Server,
             Cardinality(Q) >= Majority, Cardinality(R) >= Majority
      PROVE  \E v \in Server : v \in Q /\ v \in R
  <2>1. Cardinality(Server) \in Nat
    BY ServerAssumption, FS_CardinalityType
  <2>2. Cardinality(Q) \in Nat /\ Cardinality(R) \in Nat
    BY ServerAssumption, FS_Subset, FS_CardinalityType
  <2>3. Cardinality(Q) + Cardinality(R) > Cardinality(Server)
    BY <1>2, <2>1, <2>2 DEF Majority
  <2>4. QED
    BY <2>3, ServerAssumption, FS_MajoritiesIntersect
<1>3. ASSUME NEW Q \in SUBSET Server, NEW v \in Server, v \notin Q
      PROVE  Cardinality(Q \cup {v}) = Cardinality(Q) + 1
  <2>1. IsFiniteSet(Q)
    BY ServerAssumption, FS_Subset
  <2>2. QED
    BY <1>3, <2>1, FS_AddElement
<1>4. QED
  BY <1>1, <1>2, <1>3 DEF Counting

-----------------------------------------------------------------------------
LEMMA IndInvHolds == Spec => []IndInv
<1>1. IndInv /\ [Next]_vars => IndInv'
  BY CountingHolds, NextIndInv
<1>2. QED
  BY <1>1, InitIndInv, PTL DEF Spec

\* The variables of every peer keep their types, for every set of peers and
\* every bound; in particular no handler ever empties a log.
THEOREM TypeCorrect == Spec => []TypeOK
<1>1. IndInv => TypeOK
  BY DEF IndInv
<1>2. QED
  BY <1>1, IndInvHolds, PTL

\* The conversion between logical indices and positions in the compacted
\* slice is right after any mixture of appends, conflict truncation,
\* snapshots, installed snapshots and restarts, in memory and on disk.
THEOREM LogIndexed == Spec => []LogIndexing
<1>1. IndInv => LogIndexing
  BY DEF IndInv
<1>2. QED
  BY <1>1, IndInvHolds, PTL

LEMMA ApplyInvHolds == Spec => []ApplyInv
<1>1. ApplyInv /\ [Next]_vars => ApplyInv'
  BY CountingHolds, NextApply
<1>2. QED
  BY <1>1, InitApply, PTL DEF Spec

\* The snapshot that Save() writes next to a log covers exactly the indices
\* that Snapshot() or InstallSnapShot() cut from it: a restart finds neither a
\* gap nor an overlap.
THEOREM SnapshotsCover == Spec => []SnapshotCoversLog
<1>1. ApplyInv => SnapshotCoversLog
  BY DEF ApplyInv
<1>2. QED
  BY <1>1, ApplyInvHolds, PTL

\* Whatever Snapshot(), InstallSnapShot() and restarts do while the Applier is
\* sending without the lock, the service gets the next command, or a snapshot
\* that does not take it back.
THEOREM AppliesInOrder == Spec => []ApplyInOrder
BY ApplyIsOrdered, ApplyInvHolds, PTL

LEMMA ElectionInvHolds == Spec => []ElectionInv
<1>1. ElectionInv /\ [Next]_vars => ElectionInv'
  BY CountingHolds, NextElectionInv
<1>2. QED
  BY <1>1, InitElectionInv, PTL DEF Spec

\* A vote that has been answered, or counted, is on the voter's disk until
\* the voter has saved a later term, although InstallSnapShot() may adopt a
\* term without saving it and a step down may keep an old vote.
THEOREM VotesDurable == Spec => []VoteDurable
BY VotesAreSaved, ElectionInvHolds, PTL

\* No term has two leaders: checkOneLeader() of the tester cannot fail.
THEOREM OneLeaderPerTerm == Spec => []ElectionSafety
<1>1. ElectionInv => ElectionSafety
  BY CountingHolds, LeadersShareVoter
<1>2. QED
  BY <1>1, ElectionInvHolds, PTL

LEMMA MatchingInvHolds == Spec => []MatchingInv
<1>1. MatchingInv /\ [Next]_vars => MatchingInv'
  BY CountingHolds, NextMatching
<1>2. QED
  BY <1>1, InitMatching, PTL DEF Spec

\* Log Matching, also across compaction, InstallSnapShot() and restarts: two
\* logs that agree on the term at an index agree on every earlier entry that
\* both still hold.
THEOREM LogsMatch == Spec => []LogMatching
<1>1. MatchingInv => LogMatching
  BY CountingHolds, LogsAgree
<1>2. QED
  BY <1>1, MatchingInvHolds, PTL

-----------------------------------------------------------------------------
LEMMA NextSafety == SafetyInv /\ [Next]_vars => SafetyInv'
<1> SUFFICES ASSUME SafetyInv, [Next]_vars PROVE SafetyInv'
  OBVIOUS
<1>1. PlainInv /\ ApplyInv /\ IndInv
  BY PlainParts DEF SafetyInv
<1>2. PlainInv' /\ ApplyInv' /\ Regular
  BY <1>1, CountingHolds, NextPlain, NextApply, NextRegular
<1>3. QED
  BY <1>2, CountingHolds, StepHistory

LEMMA SafetyInvHolds == Snapshotters = {} /\ Spec => []SafetyInv
<1>1. Snapshotters = {} /\ Init => SafetyInv
  <2> SUFFICES ASSUME Snapshotters = {}, Init PROVE SafetyInv
    OBVIOUS
  <2>1. PlainInv /\ ApplyInv
    BY InitPlain, InitApply
  <2>2. \E L, A : History(L, A)
    BY <2>1, InitHistory
  <2>3. QED
    BY <2>1, <2>2 DEF SafetyInv
<1>2. QED
  BY <1>1, NextSafety, PTL DEF Spec

\* AppendEntries() bounds CommitIndex by the last entry of its log, not by the
\* last entry the call brings.  No call names a commit index beyond those, so
\* a leftover entry of a follower is never taken for committed.
THEOREM CommitsAreCovered == Snapshotters = {} /\ Spec => []CommitCovered
BY HistoryCovers, SafetyInvHolds, PTL

\* Leader Completeness: whatever updateCommitIndex() and AppendEntries() have
\* declared committed anywhere is in the log of every leader at least as recent,
\* through every election, restart and delayed call.
THEOREM LeadersAreComplete == Snapshotters = {} /\ Spec => []LeaderCompleteness
<1>1. SafetyInv => LeaderCompleteness
  BY CountingHolds, HistoryCompletes
<1>2. QED
  BY <1>1, SafetyInvHolds, PTL

\* checkLogs() of the tester never finds two services with different commands
\* at one index.  Only Snapshot() can break this, as the run
\* raft_snapshot_loss shows.
THEOREM ServicesAgree == Snapshotters = {} /\ Spec => []StateMachineSafety
<1>1. SafetyInv => StateMachineSafety
  BY CountingHolds, HistoryFixes
<1>2. QED
  BY <1>1, SafetyInvHolds, PTL

\* What a leader counts towards a majority is on the disk of the peer, so that
\* updateCommitIndex() counts nobody who could come back without the entry.
THEOREM MatchesAreSaved == Snapshotters = {} /\ Spec => []MatchIndexSound
BY HistorySaves, SafetyInvHolds, PTL

\* CommitIndex moves back only in Make(): neither a late AppendEntries() with an
\* older commit index, nor a log it has shortened, takes it back.
THEOREM CommitsStay == Snapshotters = {} /\ Spec => CommitNeverRetreats
<1>1. SafetyInv /\ [Next]_vars =>
        [\A s \in Server : boot'[s] = boot[s] => CommitIndex'[s] >= CommitIndex[s]]_vars
  BY CountingHolds, HistoryRises
<1>2. QED
  BY <1>1, SafetyInvHolds, PTL DEF Spec, CommitNeverRetreats

LEMMA NextBounded == BoundInv /\ [Next]_vars => BoundInv'
<1> SUFFICES ASSUME BoundInv, [Next]_vars PROVE BoundInv'
  OBVIOUS
<1>1. SafetyInv /\ IndInv
  BY PlainParts DEF BoundInv, SafetyInv
<1>2. SafetyInv' /\ Regular
  BY <1>1, NextSafety, NextRegular
<1>3. QED
  BY <1>2, CountingHolds, StepBounded

LEMMA BoundInvHolds == Snapshotters = {} /\ Spec => []BoundInv
<1>1. Init => Bounded
  BY InitBounded
<1>2. SafetyInv /\ Bounded => BoundInv
  BY DEF BoundInv
<1>3. QED
  BY <1>1, <1>2, SafetyInvHolds, NextBounded, PTL DEF Spec

\* A refusal names a place at most as far as the call's previous entry, which
\* the leader has, so NextIndex stays in the leader's log whichever refusal of
\* its term comes late or twice, and BroadcastEntries() never slices past the end.
THEOREM NextIndexStaysInLog == Snapshotters = {} /\ Spec => []NextIndexInBounds
<1>1. BoundInv => NextIndexInBounds
  BY DEF BoundInv, Bounded
<1>2. QED
  BY <1>1, BoundInvHolds, PTL

\* Outside of InstallSnapShot() a term or a vote is never changed without
\* being saved before the lock is released: without compaction the disk always
\* has the peer's term and vote.
THEOREM TermAndVoteAreSaved == Snapshotters = {} /\ Spec => []PersistentState
<1>1. BoundInv => PersistentState
  BY DEF BoundInv, Bounded
<1>2. QED
  BY <1>1, BoundInvHolds, PTL

\* The peer's mutex is left locked only by sendSnapShot(), which no leader calls
\* as long as nothing is compacted.
THEOREM MutexIsReleased == Snapshotters = {} /\ Spec => []MutexReleased
<1>1. BoundInv => MutexReleased
  BY DEF BoundInv, Bounded
<1>2. QED
  BY <1>1, BoundInvHolds, PTL

-----------------------------------------------------------------------------
(***************************************************************************)
(* Raft as one agreed log, which the mapping of MCRaft reads off the logs  *)
(* and the commit indices: for instances without restarts, as these set    *)
(* CommitIndex back to zero.                                               *)
(***************************************************************************)
\* What each peer may deliver, as the mapping reads it, is what its log has
\* up to its commit index; these are prefixes of one log.
Deliverable ==
  /\ Deliveries \in [Server -> Seq(LogEntry)]
  /\ \A s \in Server :
       /\ CommitIndex[s] \in Nat /\ Len(Deliveries[s]) = CommitIndex[s]
       /\ \A k \in 1 .. CommitIndex[s] : Deliveries[s][k] = Log[s][k + 1]
  /\ Prefixes(Server, Deliveries)
  /\ Tops(Server, Deliveries, Committed(Foremost))

\* Some peer knows as much as any.
SomeForemost == \E q \in Server : \A p \in Server : Len(Deliveries[p]) <= Len(Deliveries[q])

AgreedOrSame == [Agreed!Next]_(Agreed!lvars)

AgreedInv == SafetyInv /\ Deliverable /\ SomeForemost

LEMMA CommittedEntries ==
  ASSUME SafetyInv, NEW s \in Server
  PROVE  /\ Committed(s) \in Seq(LogEntry)
         /\ CommitIndex[s] \in Nat /\ Len(Committed(s)) = CommitIndex[s]
         /\ \A k \in 1 .. CommitIndex[s] : Committed(s)[k] = Log[s][k + 1]
<1>1. PICK c \in Nat : c = CommitIndex[s] /\ c + 1 <= Len(Log[s])
  BY CommitHeld
<1>2. PICK l \in Seq(LogEntry) : l = Log[s]
  BY HeldEntries DEF SafetyInv
<1>3. c + 1 <= Len(l) /\ Len(l) \in Nat /\ \A k \in 1 .. Len(l) : l[k] \in LogEntry
  BY <1>1, <1>2
<1>4. /\ SubSeq(l, 2, c + 1) \in Seq(LogEntry) /\ Len(SubSeq(l, 2, c + 1)) = c
      /\ \A k \in 1 .. c : SubSeq(l, 2, c + 1)[k] = l[k + 1]
  BY <1>3
<1>5. QED
  BY <1>1, <1>2, <1>4 DEF Committed

LEMMA SafetyDelivers == SafetyInv => Deliverable
<1> SUFFICES ASSUME SafetyInv PROVE Deliverable
  OBVIOUS
<1>1. \A s \in Server : Deliveries[s] = Committed(s)
  BY DEF Deliveries
<1>2. Deliveries \in [Server -> Seq(LogEntry)]
  BY CommittedEntries DEF Deliveries
<1>3. \A s \in Server :
        /\ CommitIndex[s] \in Nat /\ Len(Deliveries[s]) = CommitIndex[s]
        /\ \A k \in 1 .. CommitIndex[s] : Deliveries[s][k] = Log[s][k + 1]
  BY <1>1, CommittedEntries
<1>4. Prefixes(Server, Deliveries)
  <2> SUFFICES ASSUME NEW p \in Server, NEW q \in Server, CommitIndex[p] <= CommitIndex[q],
                      NEW k \in 1 .. CommitIndex[p]
               PROVE  Deliveries[p][k] = Deliveries[q][k]
    BY <1>3 DEF Prefixes
  <2>1. k \in 1 .. CommitIndex[q]
    BY <1>3
  <2>2. Log[p][k + 1] = Log[q][k + 1]
    BY CommitsAgree, CountingHolds
  <2>3. QED
    BY <1>3, <2>1, <2>2
<1>5. Tops(Server, Deliveries, Committed(Foremost))
  <2> SUFFICES ASSUME NEW q \in Server, \A p \in Server : Len(Deliveries[p]) <= Len(Deliveries[q])
               PROVE  Tops(Server, Deliveries, Committed(Foremost))
    BY DEF Tops
  <2>1. \A p \in Server : CommitIndex[p] <= CommitIndex[q]
    BY <1>3
  <2>2. Foremost \in Server /\ \A p \in Server : CommitIndex[p] <= CommitIndex[Foremost]
    BY <2>1, ZenonT(60) DEF Foremost
  <2>3. PICK r \in Server : r = Foremost
    BY <2>2
  <2>4. Deliveries[r] \in {Deliveries[p] : p \in Server}
    OBVIOUS
  <2>5. \A k \in {Deliveries[p] : p \in Server} : Len(Deliveries[r]) >= Len(k)
    BY <1>3, <2>2, <2>3
  <2>6. Tops(Server, Deliveries, Deliveries[r])
    BY <1>2, <1>4, <2>4, <2>5, LongestTops
  <2>7. QED
    BY <1>1, <2>3, <2>6
<1>6. QED
  BY <1>2, <1>3, <1>4, <1>5 DEF Deliverable

\* Without restarts, a step lets at most one peer commit, and what has been
\* committed stays where it is.
LEMMA OneAdvances ==
  ASSUME Server # {}, MaxBoots = 0, SafetyInv, SafetyInv', [Next]_vars
  PROVE  \E s \in Server :
           /\ \A p \in Server \ {s} : CommitIndex'[p] = CommitIndex[p]
           /\ \A p \in Server : /\ CommitIndex'[p] >= CommitIndex[p]
                                /\ \A k \in 1 .. CommitIndex[p] : Log'[p][k + 1] = Log[p][k + 1]
<1>1. TypeOK /\ PlainInv'
  BY PlainParts DEF SafetyInv
<1>2. CASE UNCHANGED vars
  <2>1. CommitIndex' = CommitIndex /\ Log' = Log
    BY <1>2 DEF vars, logVars
  <2>2. \A p \in Server : CommitIndex[p] >= CommitIndex[p]
    BY <1>1 DEF TypeOK
  <2>3. QED
    BY <2>1, <2>2
<1>3. CASE Next
  <2>1. boot' = boot
    <3>1. boot \in [Server -> 0 .. 0] /\ boot' \in [Server -> 0 .. 0]
      BY <1>1 DEF PlainInv, TenureInv, MatchingInv, ElectionInv, IndInv, TypeOK
    <3>2. QED
      BY <3>1
  <2>2. PICK s \in Server : \A p \in Server \ {s} : CommitIndex'[p] = CommitIndex[p]
    BY <1>3, <2>1, CountingHolds, OneCommits
  <2>3. \A p \in Server : CommitIndex'[p] >= CommitIndex[p]
    <3>1. CASE UNCHANGED vars
      <4>1. CommitIndex' = CommitIndex
        BY <3>1 DEF vars, logVars
      <4>2. QED
        BY <1>1, <4>1 DEF TypeOK
    <3>2. QED
      BY <2>1, <3>1, CountingHolds, HistoryRises
  <2>4. \A p \in Server, k \in Int :
          k \in 1 .. CommitIndex[p] => Log'[p][k + 1] = Log[p][k + 1]
    BY <1>1, <1>3, <2>1, CountingHolds, CommittedStays
  <2>5. QED
    BY <2>2, <2>3, <2>4
<1>4. QED
  BY <1>2, <1>3

\* A step of Raft is a step of the agreed log or leaves it alone.
LEMMA AgreedStep ==
  Server # {} /\ MaxBoots = 0 /\ AgreedInv /\ SafetyInv' /\ Deliverable' /\ [Next]_vars
    => SomeForemost' /\ AgreedOrSame
<1> SUFFICES ASSUME Server # {}, MaxBoots = 0, AgreedInv, SafetyInv', Deliverable', [Next]_vars
             PROVE  SomeForemost' /\ AgreedOrSame
  OBVIOUS
<1>1. PICK s \in Server :
        /\ \A p \in Server \ {s} : CommitIndex'[p] = CommitIndex[p]
        /\ \A p \in Server : /\ CommitIndex'[p] >= CommitIndex[p]
                             /\ \A k \in 1 .. CommitIndex[p] : Log'[p][k + 1] = Log[p][k + 1]
  BY OneAdvances DEF AgreedInv
<1>2. PICK D, E, a, b : /\ D = Deliveries /\ E = Deliveries'
                        /\ a = Committed(Foremost) /\ b = Committed(Foremost)'
  OBVIOUS
<1>3. /\ D \in [Server -> Seq(LogEntry)] /\ Prefixes(Server, D) /\ Tops(Server, D, a)
      /\ E \in [Server -> Seq(LogEntry)] /\ Prefixes(Server, E) /\ Tops(Server, E, b)
  <2>1. /\ D \in [Server -> Seq(LogEntry)] /\ Prefixes(Server, D) /\ Tops(Server, D, a)
    BY <1>2, ZenonT(60) DEF AgreedInv, Deliverable
  <2>2. E \in [Server -> Seq(LogEntry)]
    BY <1>2 DEF Deliverable
  <2>3. Prefixes(Server, E)
    <3>1. Prefixes(Server, Deliveries)'
      BY DEF Deliverable
    <3>2. QED
      BY <1>2, <3>1 DEF Prefixes
  <2>4. Tops(Server, E, b)
    <3>1. Tops(Server, Deliveries, Committed(Foremost))'
      BY DEF Deliverable
    <3>2. QED
      BY <1>2, <3>1 DEF Tops
  <2>5. QED
    BY <2>1, <2>2, <2>3, <2>4
<1>4. PICK q \in Server : \A p \in Server : Len(D[p]) <= Len(D[q])
  BY <1>2 DEF AgreedInv, SomeForemost
<1>5. \A p \in Server : /\ CommitIndex[p] \in Nat /\ Len(D[p]) = CommitIndex[p]
                        /\ CommitIndex'[p] \in Nat /\ Len(E[p]) = CommitIndex'[p]
  BY <1>2 DEF AgreedInv, Deliverable
<1>6. \A p \in Server : \A k \in 1 .. Len(D[p]) : E[p][k] = D[p][k]
  <2> SUFFICES ASSUME NEW p \in Server, NEW k \in 1 .. Len(D[p]) PROVE E[p][k] = D[p][k]
    OBVIOUS
  <2>1. k \in 1 .. CommitIndex[p] /\ k \in 1 .. CommitIndex'[p]
    BY <1>1, <1>5
  <2>2. D[p][k] = Log[p][k + 1] /\ E[p][k] = Log'[p][k + 1]
    BY <1>2, <2>1 DEF AgreedInv, Deliverable
  <2>3. QED
    BY <1>1, <2>1, <2>2
<1>7. \A p \in Server \ {s} : E[p] = D[p]
  <2> SUFFICES ASSUME NEW p \in Server \ {s} PROVE E[p] = D[p]
    OBVIOUS
  <2>1. Len(D[p]) = Len(E[p]) /\ D[p] \in Seq(LogEntry) /\ E[p] \in Seq(LogEntry)
    BY <1>1, <1>3, <1>5
  <2>2. \A k \in 1 .. Len(D[p]) : D[p][k] = E[p][k]
    BY <1>6
  <2>3. QED
    BY <2>1, <2>2, SameSequence, ZenonT(60)
<1>8. Len(D[s]) <= Len(E[s])
  BY <1>1, <1>5
<1>9. Lengthened(Server, D, E, s, a, b)
  <2>1. \A k \in 1 .. Len(D[s]) : E[s][k] = D[s][k]
    BY <1>6
  <2>2. QED
    BY <1>3, <1>4, <1>7, <1>8, <2>1, PrefixGrows
<1>10. SomeForemost'
  BY <1>2, <1>9 DEF SomeForemost, Lengthened
<1>11. CASE E = D /\ b = a
  BY <1>2, <1>10, <1>11 DEF AgreedOrSame, Agreed!lvars
<1>12. CASE /\ Len(a) < Len(b) /\ SubSeq(b, 1, Len(a)) = a
            /\ E = [D EXCEPT ![s] = b]
  <2>1. Agreed!Agree(s)
    BY <1>2, <1>12 DEF Agreed!Agree
  <2>2. QED
    BY <1>10, <2>1 DEF AgreedOrSame, Agreed!Next
<1>13. CASE \E n \in Len(D[s]) + 1 .. Len(a) :
              E = [D EXCEPT ![s] = SubSeq(a, 1, n)] /\ b = a
  <2>1. Agreed!Learn(s)
    BY <1>2, <1>13 DEF Agreed!Learn
  <2>2. QED
    BY <1>10, <2>1 DEF AgreedOrSame, Agreed!Next
<1>14. QED
  BY <1>9, <1>11, <1>12, <1>13 DEF Lengthened

LEMMA InitAgreed ==
  ASSUME Server # {}, SafetyInv, Deliverable, Init
  PROVE  SomeForemost /\ Agreed!Init
<1>1. PICK q \in Server : TRUE
  OBVIOUS
<1>2. \A s \in Server : CommitIndex[s] = 0
  BY DEF Init
<1>3. \A s \in Server : Deliveries[s] = <<>>
  BY <1>2 DEF Deliverable
<1>4. Deliveries = [s \in Server |-> <<>>]
  BY <1>3 DEF Deliveries
<1>5. \A p \in Server : Len(Deliveries[p]) <= Len(Deliveries[q])
  BY <1>3
<1>6. Committed(Foremost) = <<>>
  BY <1>3, <1>5 DEF Deliverable, Tops
<1>7. QED
  BY <1>4, <1>5, <1>6 DEF SomeForemost, Agreed!Init

\* Raft implements one log that is only ever extended and of which each peer
\* delivers a prefix, whoever leads and whatever calls are lost, delayed or
\* overtaken: neither updateCommitIndex() nor AppendEntries() ever lets a peer
\* deliver something besides what another peer has been told is committed.
THEOREM LogIsAgreed ==
  Server # {} /\ Snapshotters = {} /\ MaxBoots = 0 /\ Spec => ImplementsAgreedLog
<1> SUFFICES ASSUME Server # {}, Snapshotters = {}, MaxBoots = 0
             PROVE  Spec => ImplementsAgreedLog
  OBVIOUS
<1>1. SafetyInv /\ Deliverable /\ Init => SomeForemost /\ Agreed!Init
  BY InitAgreed
<1>2. AgreedInv /\ SafetyInv' /\ Deliverable' /\ [Next]_vars => SomeForemost' /\ AgreedOrSame
  BY AgreedStep
<1>3. AgreedInv <=> SafetyInv /\ Deliverable /\ SomeForemost
  BY DEF AgreedInv
<1>4. Spec => []SafetyInv
  BY SafetyInvHolds
<1>5. QED
  BY <1>1, <1>2, <1>3, <1>4, SafetyDelivers, PTL
     DEF AgreedOrSame, Spec, ImplementsAgreedLog, Agreed!Spec
=============================================================================
