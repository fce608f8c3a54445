-------------------------- MODULE RaftCommitProofs --------------------------
(***************************************************************************)
(* What the history says about commits, and what else holds as long as no  *)
(* service takes a snapshot: a leader goes on from an index it has, term   *)
(* and vote are saved, and what the peers deliver are prefixes of one log. *)
(***************************************************************************)
EXTENDS RaftHistory

\* A leaf that names no prover is tried with Zenon and with the SMT solver, then
\* with both once more.
USE ZenonT(5), SMTT(60), Z3T(60), ZenonT(30)

-----------------------------------------------------------------------------
(***************************************************************************)
(* What follows from the history.                                          *)
(***************************************************************************)
\* What is handed to the services at one index was chosen once.
LEMMA FixedOnce ==
  ASSUME Counting,
         NEW L, NEW A, LeaderLogs(L), Lasting(L, A), NEW i \in Nat,
         NEW v, Fixed(L, A, i, v), NEW w, Fixed(L, A, i, w)
  PROVE  v = w
<1>1. ASSUME NEW d \in LogEntry, Entry(L, d), Chosen(A, d.Index, d.Term),
             NEW f \in LogEntry, f \in L[d.Term], f.Index = i, i <= d.Index,
             NEW e \in LogEntry, NEW g \in LogEntry, g \in L[e.Term], g.Index = i,
             d.Term <= e.Term
      PROVE  f = g
  <2>1. d.Term \in Nat /\ e.Term \in Nat /\ d.Index \in Nat /\ L[e.Term] # {}
    BY <1>1, EntryFields
  <2>2. Same(L[e.Term], L[d.Term], d.Index)
    BY <1>1, <2>1, ChosenLasts
  <2>3. f \in L[e.Term]
    BY <1>1, <2>2 DEF Same
  <2>4. IsLog(L[e.Term])
    BY <2>1 DEF LeaderLogs
  <2>5. QED
    BY <1>1, <2>3, <2>4 DEF IsLog
<1>2. PICK d \in LogEntry, f \in LogEntry :
        /\ Entry(L, d) /\ Chosen(A, d.Index, d.Term)
        /\ f \in L[d.Term] /\ f.Index = i /\ i <= d.Index
        /\ v = [Term |-> f.Term, Command |-> f.Command]
  BY DEF Fixed
<1>3. PICK e \in LogEntry, g \in LogEntry :
        /\ Entry(L, e) /\ Chosen(A, e.Index, e.Term)
        /\ g \in L[e.Term] /\ g.Index = i /\ i <= e.Index
        /\ w = [Term |-> g.Term, Command |-> g.Command]
  BY DEF Fixed
<1>4. d.Term <= e.Term \/ e.Term <= d.Term
  <2>1. d.Term \in Nat /\ e.Term \in Nat
    BY EntryFields
  <2>2. QED
    BY <2>1
<1>5. f = g
  BY <1>1, <1>2, <1>3, <1>4
<1>6. QED
  BY <1>2, <1>3, <1>5

LEMMA UpdateRises ==
  ASSUME Counting,
         PlainInv, NEW s \in Server, NEW match
  PROVE  updateCommitIndex(s, match) >= CommitIndex[s]
<1> DEFINE S == {n \in CommitIndex[s] + 1 .. GetLastLog(s).Index :
                   GetLogEntry(s, n).Term = CurrentTerm[s] /\ Replicated(s, match, n)}
           T == {CommitIndex[s]} \cup S
<1>1. PICK c \in Nat, last \in Nat : c = CommitIndex[s] /\ last = GetLastLog(s).Index
  <2>1. GetLastLog(s).Index \in Nat
    BY HeldLast
  <2>2. CommitIndex[s] \in Nat
    BY PlainParts DEF TypeOK
  <2>3. QED
    BY <2>1, <2>2
<1>2. T \in SUBSET Nat /\ T # {} /\ c + last \in Nat /\ \A y \in T : y <= c + last
  BY <1>1
<1>3. CommitIndex[s] \in T
  OBVIOUS
<1>4. updateCommitIndex(s, match) = MaxOf(T)
  BY DEF updateCommitIndex
<1>5. QED
  <2> HIDE DEF T
  <2>1. QED
    BY <1>2, <1>3, <1>4, MaxOfNat

LEMMA HistoryCovers == SafetyInv => CommitCovered
<1> SUFFICES ASSUME SafetyInv, NEW m \in net, m.type = "AppendEntries"
             PROVE  m.LeaderCommit <= m.PrevLogIndex + Len(m.Entries)
  BY DEF CommitCovered
<1>1. PICK L, A : History(L, A)
  BY DEF SafetyInv
<1>2. QED
  BY <1>1 DEF History, CallsCarry, Bears, End

LEMMA HistoryCompletes ==
  ASSUME Counting
  PROVE  SafetyInv => LeaderCompleteness
<1> SUFFICES ASSUME SafetyInv, NEW s \in Server, NEW l \in Server,
                    State[l] = Leader, CurrentTerm[l] >= CurrentTerm[s]
             PROVE  /\ CommitIndex[s] <= GetLastLog(l).Index
                    /\ \A i \in LastIncludedIndex[s] .. CommitIndex[s] :
                         (HasLogEntry(s, i) /\ HasLogEntry(l, i)) =>
                           GetLogEntry(s, i).Term = GetLogEntry(l, i).Term
  BY DEF LeaderCompleteness
<1>1. PICK L, A : History(L, A)
  BY DEF SafetyInv
<1>2. PlainInv /\ TypeOK /\ LastIncludedIndex[s] = 0
  BY PlainParts DEF SafetyInv, PlainInv, Plain
<1>3. PICK c \in Nat, t \in Nat, u \in Nat, last \in Nat :
        /\ c = CommitIndex[s] /\ t = CurrentTerm[s] /\ u = CurrentTerm[l]
        /\ last = GetLastLog(l).Index
  <2>1. CommitIndex[s] \in Nat /\ CurrentTerm[s] \in Nat /\ CurrentTerm[l] \in Nat
    BY <1>2 DEF TypeOK
  <2>2. GetLastLog(l).Index \in Nat
    BY <1>2, HeldLast
  <2>3. QED
    BY <2>1, <2>2
<1>4. L[u] = Held(l) /\ IsLog(Held(l)) /\ IsLog(Held(s)) /\ L[u] # {}
  BY <1>1, <1>3 DEF History, Leads, PeerLogs, IsLog
<1>5. c <= last /\ Same(Held(s), Held(l), c)
  <2>1. CASE c >= 1
    <3>1. Commits(L, A, Held(s), c, t)
      BY <1>1, <1>3, <2>1 DEF History, PeersCommit
    <3>2. LeaderLogs(L) /\ Lasting(L, A)
      BY <1>1 DEF History
    <3>3. Same(Held(s), L[u], c) /\ \E f \in L[u] : f.Index = c
      <4>1. t <= u
        BY <1>3
      <4>2. L[u] # {}
        BY <1>4
      <4>3. /\ Same(Held(s), L[u], c)
            /\ \E f \in L[u] : f.Index = c /\ f \in Held(s)
            /\ Commits(L, A, L[u], c, t)
        BY <3>1, <3>2, <4>1, <4>2, CommitsLast
      <4>4. QED
        BY <4>3
    <3>4. PICK f \in Held(l) : f.Index = c
      BY <1>4, <3>3
    <3>5. f.Index <= last
      BY <1>2, <1>3, HeldLast
    <3>6. QED
      BY <1>4, <3>3, <3>4, <3>5
  <2>2. CASE c = 0
    <3>1. PICK P : P = Placeholder(0, 0) /\ P \in Held(s) /\ P \in Held(l) /\ P.Index = 0
      <4>1. Placeholder(0, 0).Index = 0
        BY DEF Placeholder
      <4>2. QED
        BY <1>4, <4>1 DEF IsLog
    <3>2. ASSUME NEW e \in LogEntry, e.Index <= 0 PROVE e \in Held(s) <=> e \in Held(l)
      <4>1. e.Index = 0
        BY <3>2, EntryFields
      <4>2. e \in Held(s) => e = P
        BY <1>4, <3>1, <4>1 DEF IsLog
      <4>3. e \in Held(l) => e = P
        BY <1>4, <3>1, <4>1 DEF IsLog
      <4>4. QED
        BY <3>1, <4>2, <4>3
    <3>3. QED
      BY <1>3, <2>2, <3>2 DEF Same
  <2>3. QED
    BY <2>1, <2>2
<1>6. ASSUME NEW i \in 0 .. c, HasLogEntry(s, i), HasLogEntry(l, i)
      PROVE  GetLogEntry(s, i).Term = GetLogEntry(l, i).Term
  <2>1. PICK e : e = GetLogEntry(s, i)
    OBVIOUS
  <2>2. i \in Nat /\ i <= c
    BY <1>3
  <2>3. e \in Held(s) /\ e.Index = i /\ e \in LogEntry
    BY <1>2, <1>6, <2>1, <2>2, HeldAt, HeldEntries
  <2>4. e \in Held(l)
    BY <1>5, <2>2, <2>3 DEF Same
  <2>5. GetLogEntry(l, i) = e
    BY <1>2, <2>2, <2>3, <2>4, HeldAt
  <2>6. QED
    BY <2>1, <2>5
<1>7. QED
  BY <1>2, <1>3, <1>5, <1>6

LEMMA HistoryFixes ==
  ASSUME Counting
  PROVE  SafetyInv => StateMachineSafety
<1> SUFFICES ASSUME SafetyInv, NEW s \in Server, NEW p \in Server,
                    NEW i \in 1 .. Len(sm[s]), i <= Len(sm[p])
             PROVE  sm[s][i] = sm[p][i]
  BY DEF StateMachineSafety
<1>1. PICK L, A : History(L, A)
  BY DEF SafetyInv
<1>2. TypeOK
  BY PlainParts DEF SafetyInv
<1>3. Len(sm[s]) \in Nat /\ Len(sm[p]) \in Nat
  BY <1>2, SeqElements DEF TypeOK
<1>4. i \in Nat /\ i \in 1 .. Len(sm[p])
  BY <1>3
<1>5. Fixed(L, A, i, sm[s][i]) /\ Fixed(L, A, i, sm[p][i])
  BY <1>1, <1>4 DEF History, Delivered
<1>6. LeaderLogs(L) /\ Lasting(L, A)
  BY <1>1 DEF History
<1>7. QED
  BY <1>4, <1>5, <1>6, FixedOnce

LEMMA HistorySaves == SafetyInv => MatchIndexSound
<1> SUFFICES ASSUME SafetyInv, NEW s \in Server, NEW p \in Server,
                    State[s] = Leader, CurrentTerm[p] <= CurrentTerm[s],
                    NEW i \in LastIncludedIndex[s] .. MatchIndex[s][p],
                    ~(i <= disk[p].LastIncludedIndex)
             PROVE  /\ i - disk[p].LastIncludedIndex < Len(disk[p].Log)
                    /\ disk[p].Log[i - disk[p].LastIncludedIndex + 1].Term
                         = GetLogEntry(s, i).Term
  BY DEF MatchIndexSound
<1>1. PICK L, A : History(L, A)
  BY DEF SafetyInv
<1>2. PlainInv /\ TypeOK /\ LogIndexing /\ TenureInv
  BY PlainParts DEF SafetyInv
<1>3. LastIncludedIndex[s] = 0 /\ disk[p].LastIncludedIndex = 0 /\ disk[p].Log = Log[p]
  BY <1>2 DEF PlainInv, Plain, LogIndexing
<1>4. PICK t \in Nat, d \in Nat, u \in Nat, n \in Nat :
        /\ t = CurrentTerm[s] /\ d = disk[p].CurrentTerm /\ u = CurrentTerm[p]
        /\ n = MatchIndex[s][p]
  <2>1. CurrentTerm[s] \in Nat /\ CurrentTerm[p] \in Nat /\ MatchIndex[s][p] \in Nat
    BY <1>2, FieldTypes, IndexTypes
  <2>2. disk[p].CurrentTerm \in Nat
    BY <1>2 DEF TypeOK, Persisted
  <2>3. QED
    BY <2>1, <2>2
<1>5. i \in Nat /\ i >= 1 /\ i \in 1 .. n /\ i \in 1 .. MatchIndex[s][p]
  BY <1>3, <1>4
<1>6. Acked(A, p, i, t)
  BY <1>1, <1>4, <1>5 DEF History, Counted
<1>7. d >= t /\ \E f \in L[t] : f.Index = i
  BY <1>1, <1>4, <1>5, <1>6 DEF History, AckedSince
<1>8. d <= u
  BY <1>2, <1>4 DEF TenureInv, Tenure, TermSaved
<1>9. d = t
  BY <1>4, <1>7, <1>8
<1>10. Same(Held(p), L[t], i) /\ L[t] = Held(s)
  BY <1>1, <1>4, <1>5, <1>6, <1>9 DEF History, Agrees, Leads
<1>11. PICK f \in Held(s) : f.Index = i /\ f \in Held(p)
  <2>1. PICK f \in Held(s) : f.Index = i
    BY <1>7, <1>10
  <2>2. f \in LogEntry /\ f.Index <= i
    BY <1>2, <1>5, <2>1, HeldEntries
  <2>3. QED
    BY <1>10, <2>1, <2>2 DEF Same
<1>12. GetLogEntry(s, i) = f
  BY <1>2, <1>5, <1>11, HeldAt
<1>13. i + 1 \in 1 .. Len(Log[p]) /\ f = Log[p][i + 1] /\ Len(Log[p]) \in Nat
  BY <1>2, <1>11, HeldEntries
<1>14. i - 0 < Len(Log[p]) /\ i - 0 + 1 = i + 1
  BY <1>5, <1>13
<1>15. QED
  BY <1>3, <1>12, <1>13, <1>14

LEMMA HistoryRises ==
  ASSUME Counting
  PROVE  SafetyInv /\ [Next]_vars =>
           [\A s \in Server : boot'[s] = boot[s] => CommitIndex'[s] >= CommitIndex[s]]_vars
<1> SUFFICES ASSUME SafetyInv, Next, NEW s \in Server, boot'[s] = boot[s]
             PROVE  CommitIndex'[s] >= CommitIndex[s]
  OBVIOUS
<1>1. PlainInv /\ TypeOK /\ CommitIndex \in [Server -> Nat] /\ CommitIndex[s] \in Nat
  <2>1. PlainInv /\ TypeOK
    BY PlainParts DEF SafetyInv
  <2>2. QED
    BY <2>1, FieldTypes DEF TypeOK
<1>2. CASE UNCHANGED CommitIndex
  BY <1>1, <1>2, GeqSelf
<1>3. CASE \E p \in Server : Make(p)
  <2>1. PICK p \in Server : Make(p)
    BY <1>3
  <2>2. CommitIndex' = [CommitIndex EXCEPT ![p] = 0]
    BY <2>1 DEF Make
  <2>3. s # p
    BY <1>1, <2>1, MakeBoots
  <2>4. CommitIndex'[s] = CommitIndex[s]
    BY <1>1, <2>2, <2>3
  <2>5. QED
    BY <1>1, <2>4, GeqSelf
<1>4. ASSUME NEW m \in net, m.type = "AppendEntries", AppendEntriesAccept(m)
      PROVE  CommitIndex'[s] >= CommitIndex[s]
  <2>1. PICK L, A : History(L, A)
    BY DEF SafetyInv
  <2>2. /\ CommitIndex'[m.to] = IF m.LeaderCommit > CommitIndex[m.to] THEN m.LeaderCommit
                                                                      ELSE CommitIndex[m.to]
        /\ \A p \in Server \ {m.to} : CommitIndex'[p] = CommitIndex[p]
    BY <1>1, <1>4, <2>1, AcceptCommit
  <2>3. m.LeaderCommit \in Nat /\ CommitIndex[s] \in Nat
    BY <1>1, <1>4, MessageTypes, EntriesArgs DEF TypeOK
  <2>4. CASE s = m.to
    BY <2>2, <2>3, <2>4
  <2>5. CASE s # m.to
    BY <2>2, <2>3, <2>5, GeqSelf
  <2>6. QED
    BY <2>4, <2>5
<1>5. ASSUME NEW p \in Server, NEW q, NEW n, Matched(p, q, n)
      PROVE  CommitIndex'[s] >= CommitIndex[s]
  <2>1. CommitIndex' = [CommitIndex EXCEPT ![p] = updateCommitIndex(p, MatchIndex'[p])]
    BY <1>5 DEF Matched
  <2>2. updateCommitIndex(p, MatchIndex'[p]) >= CommitIndex[p]
    BY <1>1, UpdateRises
  <2>3. CASE s = p
    BY <1>1, <2>1, <2>2, <2>3
  <2>4. CASE s # p
    <3>1. CommitIndex'[s] = CommitIndex[s]
      BY <1>1, <2>1, <2>4
    <3>2. QED
      BY <1>1, <3>1, GeqSelf
  <2>5. QED
    BY <2>3, <2>4
<1>6. ASSUME NEW m \in net, HandleRequest(m) PROVE CommitIndex'[s] >= CommitIndex[s]
  <2>1. \/ m.type = "AppendEntries" /\ AppendEntriesAccept(m)
        \/ RequestVoteStale(m) \/ RequestVoteRefuse(m) \/ RequestVoteGrant(m)
        \/ AppendEntriesStale(m) \/ AppendEntriesReject(m)
        \/ InstallSnapShotStale(m) \/ InstallSnapShotOld(m)
    BY <1>1, <1>6, NoInstall, ZenonT(60) DEF HandleRequest
  <2>2. CASE RequestVoteStale(m) \/ RequestVoteRefuse(m) \/ RequestVoteGrant(m)
    BY <1>2, <2>2 DEF RequestVoteStale, RequestVoteRefuse, RequestVoteGrant
  <2>3. CASE AppendEntriesStale(m) \/ AppendEntriesReject(m)
    BY <1>2, <2>3 DEF AppendEntriesStale, AppendEntriesReject
  <2>4. CASE InstallSnapShotStale(m) \/ InstallSnapShotOld(m)
    BY <1>2, <2>4 DEF InstallSnapShotStale, InstallSnapShotOld
  <2>5. QED
    BY <1>4, <2>1, <2>2, <2>3, <2>4
<1>7. ASSUME NEW m \in net, HandleReply(m) PROVE CommitIndex'[s] >= CommitIndex[s]
  <2>1. CASE \/ m.type = "AppendEntriesReply" /\ EntriesReplySuccess(m)
             \/ m.type = "InstallSnapShotReply" /\ SnapShotReplySuccess(m)
    <3>1. m.args.from \in Server
      BY <1>1, <2>1, MessageTypes
         DEF AppendEntriesReply, InstallSnapshotReply, AppendEntriesArgs, InstallSnapshotArgs
    <3>2. QED
      BY <1>5, <2>1, <3>1 DEF EntriesReplySuccess, SnapShotReplySuccess
  <2>2. QED
    BY <1>2, <1>7, <2>1
       DEF HandleReply, VoteReplyIgnored, VoteReplyHigherTerm, VoteReplyGranted, ReplyOutdated,
           EntriesReplyHigherTerm, EntriesReplyFailure, SnapShotReplyHigherTerm
<1>8. ~\E p \in Snapshotters : Snapshot(p)
  BY <1>1 DEF PlainInv, Plain
<1>9. QED
  BY <1>2, <1>3, <1>6, <1>7, <1>8
     DEF Next, TickerTimeout, AttemptElection, Start, BroadcastEntries, PrepareSnapShot,
         sendSnapShot, sendSnapShotNotLeader, ApplierTakeSnapshot, ApplierTakeEntries,
         ApplierSend, ApplierDone

-----------------------------------------------------------------------------
(***************************************************************************)
(* Where a leader goes on after a refusal, and what never happens while    *)
(* nothing is compacted: no snapshot is sent, so no path of                *)
(* InstallSnapShot() leaves a term unsaved and no sendSnapShot() leaves    *)
(* the lock held.                                                          *)
(***************************************************************************)
\* A refusal points below what the call said came before.
BacksUp(r) ==
  \/ r.result.Success
  \/ r.Term > r.args.Term
  \/ IF r.result.XTerm = 0 THEN r.result.XLen \in 1 .. r.args.PrevLogIndex
                           ELSE r.result.XIndex \in 1 .. r.args.PrevLogIndex

\* As long as the caller leads it has what the call said came before.
Reaches(r) ==
  State[r.args.from] = Leader /\ CurrentTerm[r.args.from] = r.args.Term =>
    r.args.PrevLogIndex <= GetLastLog(r.args.from).Index

NoSnapShots ==
  /\ \A s \in Server : sending[s] = {}
  /\ \A m \in net : m.type \notin {"InstallSnapShot", "InstallSnapShotReply"}

Answers == \A r \in net : r.type = "AppendEntriesReply" => BacksUp(r) /\ Reaches(r)

Bounded == NextIndexInBounds /\ PersistentState /\ MutexReleased /\ NoSnapShots /\ Answers

BoundInv == SafetyInv /\ Bounded

\* Only a placeholder is of term 0.
LEMMA TermsStart ==
  ASSUME SafetyInv, NEW s \in Server, NEW e \in Held(s), e.Index >= 1
  PROVE  e.Term >= 1
<1>1. PICK L, A : History(L, A)
  BY DEF SafetyInv
<1>2. PlainInv
  BY DEF SafetyInv
<1>3. e \in LogEntry /\ e.Term \in Nat /\ e.Index \in Nat
  <2>1. e \in LogEntry
    BY <1>2, HeldEntries
  <2>2. QED
    BY <2>1, EntryFields
<1>4. Same(Held(s), L[e.Term], e.Index)
  BY <1>1 DEF History, PeerLogs, Rooted
<1>5. e.Index <= e.Index
  BY <1>3
<1>6. e \in L[e.Term]
  BY <1>3, <1>4, <1>5 DEF Same
<1>7. QED
  BY <1>1, <1>3, <1>6 DEF History, Elected

\* The run of entries of one term does not reach back to the placeholder.
LEMMA FirstIndexBounds ==
  ASSUME Counting,
         SafetyInv, NEW s \in Server, NEW i \in Nat, HasLogEntry(s, i),
         GetLogEntry(s, i).Term # 0
  PROVE  FirstIndexOfTerm(s, i) \in 1 .. i
<1>1. PlainInv /\ LastIncludedIndex[s] = 0
  BY DEF SafetyInv, PlainInv, Plain
<1> DEFINE S == {f \in 0 .. i : \A g \in f .. i : GetLogEntry(s, g).Term = GetLogEntry(s, i).Term}
<1>2. FirstIndexOfTerm(s, i) = MinOf(S)
  BY <1>1 DEF FirstIndexOfTerm
<1>3. i \in S /\ S \in SUBSET Nat
  <2>1. \A g \in i .. i : g = i
    OBVIOUS
  <2>2. QED
    BY <2>1
<1>4. 0 \notin S
  <2>1. GetLogEntry(s, 0).Term = 0
    <3>1. PICK L, A : History(L, A)
      BY DEF SafetyInv
    <3>2. PICK P \in Held(s) : P.Index = 0 /\ P.Term = 0
      <4>1. Placeholder(0, 0).Index = 0 /\ Placeholder(0, 0).Term = 0
        BY DEF Placeholder
      <4>2. QED
        BY <3>1, <4>1 DEF History, PeerLogs, IsLog
    <3>3. GetLogEntry(s, 0) = P
      BY <1>1, <3>2, HeldAt
    <3>4. QED
      BY <3>2, <3>3
  <2>2. 0 \in 0 .. i
    OBVIOUS
  <2>3. QED
    BY <2>1, <2>2
<1> HIDE DEF S
<1>5. MinOf(S) \in S
  BY <1>3, MinOfNat
<1>6. \A f \in S : f \in 0 .. i
  BY DEF S
<1>7. MinOf(S) \in 0 .. i /\ MinOf(S) # 0
  BY <1>4, <1>5, <1>6
<1>8. QED
  BY <1>2, <1>7

LEMMA RefusalBacksUp ==
  ASSUME Counting,
         SafetyInv, NEW m \in net, m.type = "AppendEntries", NEW p \in Server
  PROVE  \/ checkLogConsistency(p, m).Success
         \/ /\ checkLogConsistency(p, m).XTerm = 0
            /\ checkLogConsistency(p, m).XLen \in 1 .. m.PrevLogIndex
         \/ /\ checkLogConsistency(p, m).XTerm # 0
            /\ checkLogConsistency(p, m).XIndex \in 1 .. m.PrevLogIndex
<1>1. PlainInv /\ TypeOK /\ LastIncludedIndex[p] = 0
  BY PlainParts DEF SafetyInv, PlainInv, Plain
<1>2. m \in AppendEntriesArgs
  BY <1>1, MessageTypes
<1> DEFINE c == checkLogConsistency(p, m)
<1> HIDE DEF c
<1>3. PICK q \in Nat, last \in Nat : q = m.PrevLogIndex /\ last = GetLastLog(p).Index
  BY <1>1, <1>2, EntriesArgs, HeldLast
<1>4. ~(q < 0) /\ (HasLogEntry(p, q) <=> q <= last)
  BY <1>1, <1>3, HeldAt
<1>5. CASE ~HasLogEntry(p, q)
  <2>1. c = Rejected(0, 0, last + 1)
    BY <1>1, <1>3, <1>4, <1>5 DEF checkLogConsistency, c
  <2>2. c.XTerm = 0 /\ c.XLen = last + 1
    BY <2>1 DEF Rejected
  <2>3. last + 1 \in 1 .. q
    BY <1>3, <1>4, <1>5
  <2>4. QED
    BY <1>3, <2>2, <2>3 DEF c
<1>6. CASE HasLogEntry(p, q) /\ GetLogEntry(p, q).Term # m.PrevLogTerm
  <2>1. PICK e \in Held(p) : e = GetLogEntry(p, q) /\ e.Index = q
    BY <1>1, <1>6, HeldAt
  <2>2. c = Rejected(e.Term, FirstIndexOfTerm(p, q), 0)
    BY <1>1, <1>3, <1>4, <1>6, <2>1 DEF checkLogConsistency, c
  <2>3. c.XTerm = e.Term /\ c.XIndex = FirstIndexOfTerm(p, q)
    BY <2>2 DEF Rejected
  <2>4. q >= 1
    <3> SUFFICES ASSUME q = 0 PROVE FALSE
      OBVIOUS
    <3>1. PICK L, A : History(L, A)
      BY DEF SafetyInv
    <3>2. PICK f \in L[m.Term] : f.Index = 0 /\ f.Term = m.PrevLogTerm
      BY <1>3, <3>1 DEF History, CallsCarry, Bears, Carries
    <3>3. IsLog(L[m.Term]) /\ IsLog(Held(p)) /\ m.Term \in Nat
      BY <1>2, <3>1, <3>2, EntriesArgs DEF History, LeaderLogs, PeerLogs
    <3>4. Placeholder(0, 0).Index = 0
      BY DEF Placeholder
    <3>5. f = Placeholder(0, 0) /\ e = Placeholder(0, 0)
      BY <2>1, <3>2, <3>3, <3>4 DEF IsLog
    <3>6. QED
      BY <1>6, <2>1, <3>2, <3>5
  <2>5. e.Term \in Nat /\ e.Term >= 1
    BY <1>1, <2>1, <2>4, TermsStart, HeldEntries, EntryFields
  <2>6. FirstIndexOfTerm(p, q) \in 1 .. q
    BY <1>6, <2>1, <2>5, FirstIndexBounds
  <2>7. QED
    BY <1>3, <2>3, <2>5, <2>6 DEF c
<1>7. CASE HasLogEntry(p, q) /\ GetLogEntry(p, q).Term = m.PrevLogTerm
  <2>1. checkLogConsistency(p, m) = Accepted
    BY <1>1, <1>3, <1>4, <1>7 DEF checkLogConsistency
  <2>2. QED
    BY <2>1 DEF Accepted
<1>8. QED
  BY <1>5, <1>6, <1>7

\* One peer may have moved, and has saved its term and vote.
OneSaves ==
  \E s \in Server :
    /\ persist(s)
    /\ \A p \in Server \ {s} : CurrentTerm'[p] = CurrentTerm[p] /\ VotedFor'[p] = VotedFor[p]

LEMMA OneSavesPersists ==
  ASSUME TypeOK, PersistentState, OneSaves
  PROVE  PersistentState'
<1>1. PICK s \in Server :
        /\ persist(s)
        /\ \A p \in Server \ {s} : CurrentTerm'[p] = CurrentTerm[p] /\ VotedFor'[p] = VotedFor[p]
  BY DEF OneSaves
<1>2. disk' = [disk EXCEPT ![s] = EncodeRaftState(s, disk[s].snapshot)]
  BY <1>1 DEF persist, Save
<1>3. disk'[s] = EncodeRaftState(s, disk[s].snapshot) /\ \A p \in Server \ {s} : disk'[p] = disk[p]
  BY <1>2 DEF TypeOK
<1>4. disk'[s].CurrentTerm = CurrentTerm'[s] /\ disk'[s].VotedFor = VotedFor'[s]
  BY <1>3 DEF EncodeRaftState
<1>5. QED
  BY <1>1, <1>3, <1>4 DEF PersistentState

LEMMA SavesInTime ==
  ASSUME TypeOK, PersistentState, NoSnapShots,
         \/ \E s \in Server : AttemptElection(s) \/ \E c \in Command : Start(s, c)
         \/ \E m \in net : HandleRequest(m) \/ HandleReply(m)
  PROVE  OneSaves \/ UNCHANGED <<CurrentTerm, VotedFor, disk>>
<1>1. ASSUME NEW s \in Server, AttemptElection(s) PROVE OneSaves
  BY <1>1 DEF AttemptElection, OneSaves, TypeOK
<1>2. ASSUME NEW s \in Server, NEW c \in Command, Start(s, c) PROVE OneSaves
  BY <1>2 DEF Start, OneSaves, electionVars
<1>3. ASSUME NEW m \in net, m.type = "RequestVote",
             RequestVoteStale(m) \/ RequestVoteRefuse(m) \/ RequestVoteGrant(m)
      PROVE  OneSaves \/ UNCHANGED <<CurrentTerm, VotedFor, disk>>
  <2>1. PICK s \in Server, t \in Nat : s = m.to /\ t = m.Term
    BY <1>3, MessageTypes DEF RequestVoteArgs
  <2>2. CASE RequestVoteStale(m)
    BY <2>2 DEF RequestVoteStale, electionVars
  <2>3. CASE RequestVoteGrant(m)
    BY <2>1, <2>3 DEF RequestVoteGrant, OneSaves, TypeOK
  <2>4. CASE RequestVoteRefuse(m) /\ t > CurrentTerm[s]
    BY <2>1, <2>4 DEF RequestVoteRefuse, OneSaves, TypeOK
  <2>5. CASE RequestVoteRefuse(m) /\ ~(t > CurrentTerm[s])
    <3>1. /\ t >= CurrentTerm[s] /\ CurrentTerm' = [CurrentTerm EXCEPT ![s] = t]
          /\ VotedFor' = [VotedFor EXCEPT ![s] = VotedFor[s]] /\ UNCHANGED disk
      BY <2>1, <2>5 DEF RequestVoteRefuse, VoteIn
    <3>2. t = CurrentTerm[s]
      <4>1. CurrentTerm[s] \in Nat
        BY <2>1, FieldTypes
      <4>2. QED
        BY <2>1, <2>5, <3>1, <4>1
    <3>3. QED
      BY <3>1, <3>2 DEF TypeOK
  <2>6. QED
    BY <1>3, <2>2, <2>3, <2>4, <2>5
<1>4. ASSUME NEW m \in net, m.type = "AppendEntries",
             AppendEntriesStale(m) \/ AppendEntriesReject(m) \/ AppendEntriesAccept(m)
      PROVE  OneSaves
  <2>1. PICK s \in Server : s = m.to
    BY <1>4, MessageTypes DEF AppendEntriesArgs
  <2>2. QED
    BY <1>4, <2>1 DEF AppendEntriesStale, AppendEntriesReject, AppendEntriesAccept, FollowTerm,
                      electionVars, OneSaves, TypeOK
<1>5. ASSUME NEW m \in net,
             \/ m.type = "RequestVoteReply" /\ VoteReplyHigherTerm(m)
             \/ m.type = "AppendEntriesReply" /\ EntriesReplyHigherTerm(m)
      PROVE  OneSaves
  <2>1. PICK s \in Server : s = m.args.from
    BY <1>5, MessageTypes
       DEF RequestVoteReply, RequestVoteArgs, AppendEntriesReply, AppendEntriesArgs
  <2>2. QED
    BY <1>5, <2>1 DEF VoteReplyHigherTerm, EntriesReplyHigherTerm, OneSaves, TypeOK
<1>6. ASSUME NEW m \in net, HandleRequest(m)
      PROVE  OneSaves \/ UNCHANGED <<CurrentTerm, VotedFor, disk>>
  BY <1>3, <1>4, <1>6 DEF HandleRequest, NoSnapShots
<1>7. ASSUME NEW m \in net, HandleReply(m)
      PROVE  OneSaves \/ UNCHANGED <<CurrentTerm, VotedFor, disk>>
  <2>1. CASE \/ m.type = "RequestVoteReply" /\ (VoteReplyIgnored(m) \/ VoteReplyGranted(m))
             \/ /\ m.type = "AppendEntriesReply"
                /\ ReplyOutdated(m) \/ EntriesReplySuccess(m) \/ EntriesReplyFailure(m)
    BY <2>1 DEF VoteReplyIgnored, VoteReplyGranted, ReplyOutdated, EntriesReplySuccess,
                EntriesReplyFailure, electionVars
  <2>2. QED
    BY <1>5, <1>7, <2>1 DEF HandleReply, NoSnapShots
<1>8. QED
  BY <1>1, <1>2, <1>6, <1>7

\* What a step has to show.  A leader still waiting for an answer is the one
\* that made the call: terms do not fall, since they are saved.
LEMMA BoundedStep ==
  ASSUME BoundInv, SafetyInv', Regular, PersistentState', UNCHANGED <<sending, stuck>>,
         \A s \in Server : State'[s] = Leader =>
           /\ (GetLastLog(s).Index)' >= GetLastLog(s).Index
           /\ \A p \in Server \ {s} : NextIndex'[s][p] \in 1 .. (GetLastLog(s).Index)' + 1,
         \A r \in net' : r \notin net =>
           /\ r.type \notin {"InstallSnapShot", "InstallSnapShotReply"}
           /\ r.type = "AppendEntriesReply" => BacksUp(r) /\ Reaches(r)'
  PROVE  Bounded'
<1>1. /\ PlainInv /\ PlainInv' /\ TypeOK /\ TypeOK' /\ TenureInv
      /\ PersistentState /\ NoSnapShots /\ Answers /\ MutexReleased
  <2>1. PlainInv /\ PlainInv' /\ PersistentState /\ NoSnapShots /\ Answers /\ MutexReleased
    BY DEF BoundInv, Bounded, SafetyInv
  <2>2. QED
    BY <2>1 DEF PlainInv, TenureInv, MatchingInv, ElectionInv, IndInv
<1>2. NextIndexInBounds'
  BY DEF NextIndexInBounds
<1>3. MutexReleased' /\ NoSnapShots'
  BY <1>1 DEF MutexReleased, NoSnapShots
<1>4. ASSUME NEW r \in net', r.type = "AppendEntriesReply" PROVE BacksUp(r) /\ Reaches(r)'
  <2>1. CASE r \notin net
    BY <1>4, <2>1
  <2>2. CASE r \in net
    <3>1. BacksUp(r) /\ Reaches(r)
      BY <1>1, <1>4, <2>2 DEF Answers
    <3>2. PICK f \in Server, t \in Nat, q \in Nat :
            f = r.args.from /\ t = r.args.Term /\ q = r.args.PrevLogIndex
      <4>1. r.args \in AppendEntriesArgs
        BY <1>1, <1>4, <2>2, MessageTypes DEF AppendEntriesReply
      <4>2. QED
        BY <4>1, EntriesArgs
    <3>3. ASSUME State'[f] = Leader, CurrentTerm'[f] = t PROVE q <= (GetLastLog(f).Index)'
      <4>1. /\ disk[f].CurrentTerm \in Nat /\ disk'[f].CurrentTerm \in Nat
            /\ disk'[f].CurrentTerm >= disk[f].CurrentTerm
        BY <1>1, DiskGrows
      <4>2. disk[f].CurrentTerm = CurrentTerm[f] /\ disk'[f].CurrentTerm = CurrentTerm'[f]
        BY <1>1 DEF PersistentState
      <4>3. InOffice(f, t)
        BY <1>1, <1>4, <2>2, <3>2 DEF TenureInv, Tenure, CallReply
      <4>4. CurrentTerm[f] = t /\ State[f] = Leader
        BY <3>3, <4>1, <4>2, <4>3 DEF InOffice
      <4>5. q <= GetLastLog(f).Index
        BY <3>1, <3>2, <4>4 DEF Reaches
      <4>6. GetLastLog(f).Index \in Nat /\ (GetLastLog(f).Index)' \in Nat
        <5>1. GetLastLog(f).Index \in Nat
          BY <1>1, HeldLast
        <5>2. IndInv'
          BY <1>1 DEF PlainInv, TenureInv, MatchingInv, ElectionInv
        <5>3. PICK b \in Nat, n \in Nat : n >= 1 /\ (GetLastLog(f).Index)' = b + n - 1
          BY <5>2, LastLogPrime
        <5>4. QED
          BY <5>1, <5>3
      <4>7. (GetLastLog(f).Index)' >= GetLastLog(f).Index
        BY <3>3
      <4>8. QED
        BY <4>5, <4>6, <4>7
    <3>4. QED
      BY <3>1, <3>2, <3>3 DEF Reaches
  <2>3. QED
    BY <2>1, <2>2
<1>5. Answers'
  BY <1>4 DEF Answers, BacksUp
<1>6. QED
  BY <1>2, <1>3, <1>5 DEF Bounded

LEMMA BoundedCalm ==
  ASSUME BoundInv, SafetyInv', Regular, PersistentState', UNCHANGED <<sending, stuck>>,
         \A s \in Server : State'[s] = Leader =>
           State[s] = Leader /\ Log'[s] = Log[s] /\ NextIndex'[s] = NextIndex[s],
         \A r \in net' : r \notin net =>
           /\ r.type \notin {"InstallSnapShot", "InstallSnapShotReply"}
           /\ r.type = "AppendEntriesReply" => BacksUp(r) /\ Reaches(r)'
  PROVE  Bounded'
<1>1. PlainInv /\ NextIndexInBounds
  BY DEF BoundInv, Bounded, SafetyInv
<1>2. ASSUME NEW s \in Server, State'[s] = Leader
      PROVE  /\ (GetLastLog(s).Index)' >= GetLastLog(s).Index
             /\ \A p \in Server \ {s} : NextIndex'[s][p] \in 1 .. (GetLastLog(s).Index)' + 1
  <2>1. (GetLastLog(s).Index)' = GetLastLog(s).Index
    BY <1>2 DEF GetLastLog
  <2>2. GetLastLog(s).Index \in Nat
    BY <1>1, HeldLast
  <2>3. \A p \in Server \ {s} : NextIndex[s][p] \in 1 .. GetLastLog(s).Index + 1
    BY <1>1, <1>2 DEF NextIndexInBounds
  <2>4. QED
    BY <1>2, <2>1, <2>2, <2>3
<1>3. QED
  BY <1>2, BoundedStep

LEMMA BoundParts ==
  ASSUME BoundInv
  PROVE  /\ SafetyInv /\ PlainInv /\ TypeOK /\ IndInv /\ TenureInv
         /\ NextIndexInBounds /\ PersistentState /\ MutexReleased /\ NoSnapShots /\ Answers
<1>1. SafetyInv /\ PlainInv
  BY DEF BoundInv, SafetyInv
<1>2. TypeOK /\ IndInv /\ TenureInv
  BY <1>1, PlainParts
<1>3. QED
  BY <1>1, <1>2 DEF BoundInv, Bounded

\* Without compaction NextIndex is always in the log: no snapshot is called for.
LEMMA NoPrepare ==
  ASSUME BoundInv, NEW s \in Server, NEW p \in Server
  PROVE  ~PrepareSnapShot(s, p)
<1> SUFFICES ASSUME PrepareSnapShot(s, p) PROVE FALSE
  OBVIOUS
<1>1. State[s] = Leader /\ p # s /\ NextIndex[s][p] <= LastIncludedIndex[s]
  BY DEF PrepareSnapShot
<1>2. LastIncludedIndex[s] = 0
  BY BoundParts DEF PlainInv, Plain
<1>3. NextIndex[s][p] \in 1 .. GetLastLog(s).Index + 1
  BY <1>1, BoundParts DEF NextIndexInBounds
<1>4. NextIndex[s][p] \in Nat
  BY BoundParts, IndexTypes
<1>5. QED
  BY <1>1, <1>2, <1>3, <1>4

LEMMA LocalBounded ==
  ASSUME Counting,
         BoundInv, SafetyInv', Regular,
         \/ UNCHANGED vars
         \/ \E s \in Server :
              \/ TickerTimeout(s) \/ AttemptElection(s)
              \/ \E p \in Server : BroadcastEntries(s, p)
              \/ ApplierTakeSnapshot(s) \/ ApplierTakeEntries(s)
              \/ ApplierSend(s) \/ ApplierDone(s)
  PROVE  Bounded'
<1>1. TypeOK /\ PersistentState /\ NoSnapShots
  BY BoundParts
<1>2. UNCHANGED <<sending, stuck, Log, NextIndex>>
  <2>1. CASE UNCHANGED vars
    BY <2>1 DEF vars, logVars, leaderVars
  <2>2. CASE \E s \in Server : TickerTimeout(s) \/ AttemptElection(s)
    BY <2>2 DEF TickerTimeout, AttemptElection, logVars, leaderVars
  <2>3. CASE \E s, p \in Server : BroadcastEntries(s, p)
    BY <2>3 DEF BroadcastEntries, logVars, leaderVars
  <2>4. CASE \E s \in Server : ApplierTakeSnapshot(s) \/ ApplierTakeEntries(s)
    BY <2>4 DEF ApplierTakeSnapshot, ApplierTakeEntries, logVars, leaderVars
  <2>5. CASE \E s \in Server : ApplierSend(s) \/ ApplierDone(s)
    BY <2>5 DEF ApplierSend, ApplierDone, logVars, leaderVars
  <2>6. QED
    BY <2>1, <2>2, <2>3, <2>4, <2>5
<1>3. PersistentState'
  <2>1. CASE \E s \in Server : AttemptElection(s)
    <3>1. OneSaves \/ UNCHANGED <<CurrentTerm, VotedFor, disk>>
      BY <1>1, <2>1, SavesInTime
    <3>2. QED
      BY <1>1, <3>1, OneSavesPersists DEF PersistentState
  <2>2. CASE UNCHANGED <<CurrentTerm, VotedFor, disk>>
    BY <1>1, <2>2 DEF PersistentState
  <2>3. QED
    BY <2>1, <2>2 DEF vars, TickerTimeout, BroadcastEntries, ApplierTakeSnapshot,
                      ApplierTakeEntries, ApplierSend, ApplierDone, electionVars
<1>4. \A s \in Server : State'[s] = Leader => State[s] = Leader
  <2>1. CASE UNCHANGED State
    BY <2>1
  <2>2. CASE \E s \in Server : AttemptElection(s)
    <3>1. PICK s \in Server : AttemptElection(s)
      BY <2>2
    <3>2. State' = [State EXCEPT ![s] = Candidate] /\ Candidate # Leader
      BY <3>1 DEF AttemptElection, Leader, Candidate
    <3>3. State \in [Server -> {Leader, Candidate, Follower}]
      BY <1>1 DEF TypeOK
    <3>4. QED
      BY <3>2, <3>3
  <2>3. QED
    BY <2>1, <2>2 DEF vars, TickerTimeout, BroadcastEntries, ApplierTakeSnapshot,
                      ApplierTakeEntries, ApplierSend, ApplierDone, electionVars
<1>5. \A r \in net' : r \notin net => r.type \in {"RequestVote", "AppendEntries"}
  <2>1. ASSUME NEW s \in Server, AttemptElection(s), NEW r \in net', r \notin net
        PROVE  r.type = "RequestVote"
    BY <2>1, CandidateAsks
  <2>2. ASSUME NEW s \in Server, NEW p \in Server, BroadcastEntries(s, p),
               NEW r \in net', r \notin net
        PROVE  r.type = "AppendEntries"
    <3>1. PICK L, A : History(L, A)
      BY BoundParts DEF SafetyInv
    <3>2. \E m : Bears(L, A, m) /\ net' \subseteq net \cup {m} /\ m.type = "AppendEntries"
      BY <2>2, <3>1, BoundParts, BroadcastBears
    <3>3. QED
      BY <2>2, <3>2
  <2>3. QED
    BY <2>1, <2>2 DEF vars, TickerTimeout, ApplierTakeSnapshot, ApplierTakeEntries,
                      ApplierSend, ApplierDone
<1>6. QED
  BY <1>2, <1>3, <1>4, <1>5, BoundedCalm

LEMMA MakeBounded ==
  ASSUME BoundInv, SafetyInv', Regular, NEW s \in Server, Make(s)
  PROVE  Bounded'
<1>1. TypeOK /\ PersistentState /\ NoSnapShots
  BY BoundParts
<1>2. sending' = [sending EXCEPT ![s] = {}] /\ sending[s] = {} /\ UNCHANGED <<stuck, disk>>
  BY <1>1 DEF Make, NoSnapShots
<1>3. UNCHANGED sending
  BY <1>1, <1>2 DEF TypeOK
<1>4. PersistentState'
  BY <1>1 DEF Make, readPersist, PersistentState, TypeOK
<1>5. \A p \in Server : State'[p] = Leader =>
        State[p] = Leader /\ Log'[p] = Log[p] /\ NextIndex'[p] = NextIndex[p]
  BY <1>1 DEF Make, readPersist, TypeOK, Follower, Leader
<1>6. net' \subseteq net
  BY DEF Make
<1>7. QED
  BY <1>2, <1>3, <1>4, <1>5, <1>6, BoundedCalm

LEMMA CallReaches ==
  ASSUME BoundInv, NEW m \in net, m.type = "AppendEntries"
  PROVE  /\ m.from \in Server /\ m.to \in Server /\ m.from # m.to
         /\ m.Term \in Nat /\ m.PrevLogIndex \in Nat
         /\ State[m.from] = Leader /\ CurrentTerm[m.from] = m.Term =>
              m.PrevLogIndex <= GetLastLog(m.from).Index
<1>1. TypeOK /\ TenureInv /\ PlainInv
  BY BoundParts
<1>2. m \in AppendEntriesArgs
  BY <1>1, MessageTypes
<1>3. m.from \in Server /\ m.to \in Server /\ m.Term \in Nat /\ m.PrevLogIndex \in Nat
  BY <1>2, EntriesArgs
<1>4. m.from # m.to
  BY <1>1 DEF TenureInv, Tenure, FromLeader, Call
<1>5. ASSUME State[m.from] = Leader, CurrentTerm[m.from] = m.Term
      PROVE  m.PrevLogIndex <= GetLastLog(m.from).Index
  <2>1. PICK L, A : History(L, A)
    BY BoundParts DEF SafetyInv
  <2>2. PICK f \in L[m.Term] : f.Index = m.PrevLogIndex
    BY <2>1 DEF History, CallsCarry, Bears, Carries
  <2>3. f \in Held(m.from)
    BY <1>3, <1>5, <2>1, <2>2 DEF History, Leads
  <2>4. QED
    BY <1>1, <1>3, <2>2, <2>3, HeldLast
<1>6. QED
  BY <1>3, <1>4, <1>5

LEMMA VoteRequestBounded ==
  ASSUME BoundInv, SafetyInv', Regular, NEW m \in net, HandleRequest(m), m.type = "RequestVote"
  PROVE  Bounded'
<1>1. TypeOK /\ PersistentState /\ NoSnapShots
  BY BoundParts
<1>2. RequestVoteStale(m) \/ RequestVoteRefuse(m) \/ RequestVoteGrant(m)
  BY DEF HandleRequest
<1>3. UNCHANGED <<sending, stuck, Log, NextIndex>>
  BY <1>2 DEF RequestVoteStale, RequestVoteRefuse, RequestVoteGrant, logVars, leaderVars
<1>4. PersistentState'
  <2>1. OneSaves \/ UNCHANGED <<CurrentTerm, VotedFor, disk>>
    BY <1>1, SavesInTime
  <2>2. QED
    BY <1>1, <2>1, OneSavesPersists DEF PersistentState
<1>5. \A s \in Server : State'[s] = Leader => State[s] = Leader
  <2>1. UNCHANGED State \/ State' = [State EXCEPT ![m.to] = Follower]
    BY <1>2 DEF RequestVoteStale, RequestVoteRefuse, RequestVoteGrant, electionVars
  <2>2. QED
    BY <1>1, <2>1 DEF TypeOK, Leader, Follower
<1>6. PICK r : Respond(m, r) /\ r.type = "RequestVoteReply"
  <2>1. ASSUME NEW t, NEW g
        PROVE  VoteReply(m, t, g).type = "RequestVoteReply"
    BY DEF VoteReply
  <2>2. QED
    BY <1>2, <2>1 DEF RequestVoteStale, RequestVoteRefuse, RequestVoteGrant
<1>7. \A x \in net' : x \notin net => x.type = "RequestVoteReply"
  BY <1>6, RespondAdds
<1>8. QED
  BY <1>3, <1>4, <1>5, <1>7, BoundedCalm

LEMMA EntriesRequestBounded ==
  ASSUME Counting,
         BoundInv, SafetyInv', Regular, NEW m \in net, HandleRequest(m), m.type = "AppendEntries"
  PROVE  Bounded'
<1>1. TypeOK /\ PersistentState /\ NoSnapShots /\ SafetyInv
  BY BoundParts
<1>2. AppendEntriesStale(m) \/ AppendEntriesReject(m) \/ AppendEntriesAccept(m)
  BY DEF HandleRequest
<1>3. UNCHANGED <<sending, stuck, NextIndex>>
  BY <1>2 DEF AppendEntriesStale, AppendEntriesReject, AppendEntriesAccept, leaderVars
<1>4. PersistentState'
  <2>1. OneSaves \/ UNCHANGED <<CurrentTerm, VotedFor, disk>>
    BY <1>1, SavesInTime
  <2>2. QED
    BY <1>1, <2>1, OneSavesPersists DEF PersistentState
<1>5. PICK p \in Server, f \in Server, t \in Nat, q \in Nat :
        p = m.to /\ f = m.from /\ t = m.Term /\ q = m.PrevLogIndex /\ p # f
  BY CallReaches
<1>6. /\ UNCHANGED <<CurrentTerm, State>> \/ State'[p] = Follower
      /\ \A s \in Server \ {p} : State'[s] = State[s] /\ CurrentTerm'[s] = CurrentTerm[s]
      /\ \A s \in Server \ {p} : Log'[s] = Log[s]
      /\ UNCHANGED Log \/ State'[p] = Follower
  <2>1. CASE AppendEntriesStale(m)
    BY <2>1 DEF AppendEntriesStale, electionVars, logVars
  <2>2. CASE AppendEntriesReject(m)
    BY <1>1, <1>5, <2>2 DEF AppendEntriesReject, FollowTerm, TypeOK, logVars
  <2>3. CASE AppendEntriesAccept(m)
    BY <1>1, <1>5, <2>3 DEF AppendEntriesAccept, FollowTerm, TypeOK
  <2>4. QED
    BY <1>2, <2>1, <2>2, <2>3
<1>7. \A s \in Server : State'[s] = Leader =>
        State[s] = Leader /\ Log'[s] = Log[s] /\ NextIndex'[s] = NextIndex[s]
  BY <1>3, <1>6 DEF Leader, Follower
<1>8. PICK c, u : /\ Respond(m, EntriesReply(m, u, c))
                  /\ \/ c.Success \/ u > t
                     \/ IF c.XTerm = 0 THEN c.XLen \in 1 .. q ELSE c.XIndex \in 1 .. q
  <2>1. CASE AppendEntriesStale(m)
    <3>1. Respond(m, EntriesReply(m, CurrentTerm[p], Rejected(0, 0, 0))) /\ t < CurrentTerm[p]
      BY <1>5, <2>1 DEF AppendEntriesStale
    <3>2. CurrentTerm[p] > t
      BY <1>1, <1>5, <3>1 DEF TypeOK
    <3>3. QED
      BY <3>1, <3>2
  <2>2. CASE AppendEntriesReject(m)
    <3>1. Respond(m, EntriesReply(m, t, checkLogConsistency(p, m)))
      BY <1>5, <2>2 DEF AppendEntriesReject
    <3>2. \/ checkLogConsistency(p, m).Success
          \/ IF checkLogConsistency(p, m).XTerm = 0
               THEN checkLogConsistency(p, m).XLen \in 1 .. q
               ELSE checkLogConsistency(p, m).XIndex \in 1 .. q
      BY <1>1, <1>5, RefusalBacksUp
    <3>3. QED
      BY <3>1, <3>2
  <2>3. CASE AppendEntriesAccept(m)
    <3>1. Respond(m, EntriesReply(m, t, Accepted))
      BY <1>5, <2>3 DEF AppendEntriesAccept
    <3>2. Accepted.Success
      BY DEF Accepted
    <3>3. QED
      BY <3>1, <3>2
  <2>4. QED
    BY <1>2, <2>1, <2>2, <2>3
<1>9. PICK r : /\ r = EntriesReply(m, u, c) /\ r.type = "AppendEntriesReply"
               /\ r.args = m /\ r.Term = u /\ r.result = c
  <2>1. /\ EntriesReply(m, u, c).type = "AppendEntriesReply"
        /\ EntriesReply(m, u, c).args = m /\ EntriesReply(m, u, c).Term = u
        /\ EntriesReply(m, u, c).result = c
    BY DEF EntriesReply
  <2>2. QED
    BY <2>1
<1>10. BacksUp(r)
  BY <1>5, <1>8, <1>9 DEF BacksUp
<1>11. Reaches(r)'
  <2>1. ASSUME State'[f] = Leader, CurrentTerm'[f] = t PROVE q <= (GetLastLog(f).Index)'
    <3>1. State[f] = Leader /\ CurrentTerm[f] = t /\ Log'[f] = Log[f]
      BY <1>5, <1>6, <2>1
    <3>2. q <= GetLastLog(f).Index
      BY <1>5, <3>1, CallReaches
    <3>3. (GetLastLog(f).Index)' = GetLastLog(f).Index
      BY <3>1 DEF GetLastLog
    <3>4. QED
      BY <3>2, <3>3
  <2>2. QED
    BY <1>5, <1>9, <2>1 DEF Reaches
<1>12. \A x \in net' : x \notin net => x = r
  BY <1>8, <1>9, RespondAdds
<1>13. \A x \in net' : x \notin net =>
         /\ x.type \notin {"InstallSnapShot", "InstallSnapShotReply"}
         /\ x.type = "AppendEntriesReply" => BacksUp(x) /\ Reaches(x)'
  BY <1>9, <1>10, <1>11, <1>12
<1>14. QED
  BY <1>3, <1>4, <1>7, <1>13, BoundedCalm

\* Every step but four of a leader: winning, appending and hearing from a peer.
LEMMA CalmReplyBounded ==
  ASSUME BoundInv, SafetyInv', Regular, NEW m \in net,
         \/ /\ m.type = "RequestVoteReply"
            /\ \/ VoteReplyIgnored(m) \/ VoteReplyHigherTerm(m)
               \/ VoteReplyGranted(m) /\ UNCHANGED <<State, leaderVars>>
         \/ m.type = "AppendEntriesReply" /\ (ReplyOutdated(m) \/ EntriesReplyHigherTerm(m))
  PROVE  Bounded'
<1>1. TypeOK /\ PersistentState /\ NoSnapShots
  BY BoundParts
<1>2. UNCHANGED <<sending, stuck, Log, NextIndex>>
  BY DEF VoteReplyIgnored, VoteReplyHigherTerm, VoteReplyGranted, ReplyOutdated,
         EntriesReplyHigherTerm, logVars, leaderVars
<1>3. PersistentState'
  <2>1. HandleReply(m)
    BY DEF HandleReply
  <2>2. OneSaves \/ UNCHANGED <<CurrentTerm, VotedFor, disk>>
    BY <1>1, <2>1, SavesInTime
  <2>3. QED
    BY <1>1, <2>2, OneSavesPersists DEF PersistentState
<1>4. \A s \in Server : State'[s] = Leader => State[s] = Leader
  <2>1. UNCHANGED State \/ State' = [State EXCEPT ![m.args.from] = Follower]
    BY DEF VoteReplyIgnored, VoteReplyHigherTerm, VoteReplyGranted, ReplyOutdated,
           EntriesReplyHigherTerm, electionVars
  <2>2. QED
    BY <1>1, <2>1 DEF TypeOK, Leader, Follower
<1>5. net' \subseteq net
  <2>1. Consume(m)
    BY DEF VoteReplyIgnored, VoteReplyHigherTerm, VoteReplyGranted, ReplyOutdated,
           EntriesReplyHigherTerm
  <2>2. QED
    BY <2>1, ConsumeAdds
<1>6. QED
  BY <1>2, <1>3, <1>4, <1>5, BoundedCalm

\* A step that changes what one leader has for one of its peers.
LEMMA OneNextBounded ==
  ASSUME BoundInv, SafetyInv', Regular, UNCHANGED <<State, Log, sending, stuck>>,
         UNCHANGED <<CurrentTerm, VotedFor, disk>>, net' \subseteq net,
         NEW s \in Server, NEW p \in Server, NEW n,
         State[s] = Leader /\ p # s => n \in 1 .. GetLastLog(s).Index + 1,
         NextIndex' = [NextIndex EXCEPT ![s][p] = n]
  PROVE  Bounded'
<1>1. PlainInv /\ PersistentState /\ NextIndexInBounds /\ TypeOK
  BY BoundParts
<1>2. PersistentState'
  BY <1>1 DEF PersistentState
<1>3. ASSUME NEW q \in Server, State'[q] = Leader
      PROVE  /\ (GetLastLog(q).Index)' >= GetLastLog(q).Index
             /\ \A x \in Server \ {q} : NextIndex'[q][x] \in 1 .. (GetLastLog(q).Index)' + 1
  <2>1. (GetLastLog(q).Index)' = GetLastLog(q).Index /\ GetLastLog(q).Index \in Nat
    BY <1>1, <1>3, HeldLast DEF GetLastLog
  <2>2. \A x \in Server \ {q} : NextIndex[q][x] \in 1 .. GetLastLog(q).Index + 1
    BY <1>1, <1>3 DEF NextIndexInBounds
  <2>3. \A x \in Server : \/ NextIndex'[q][x] = NextIndex[q][x]
                          \/ NextIndex'[q][x] = n /\ q = s /\ x = p
    BY <1>1 DEF TypeOK
  <2>4. \A x \in Server \ {q} : NextIndex'[q][x] \in 1 .. GetLastLog(q).Index + 1
    BY <1>3, <2>2, <2>3
  <2>5. QED
    BY <2>1, <2>4
<1>4. \A r \in net' : r \notin net =>
        /\ r.type \notin {"InstallSnapShot", "InstallSnapShotReply"}
        /\ r.type = "AppendEntriesReply" => BacksUp(r) /\ Reaches(r)'
  OBVIOUS
<1>5. QED
  BY <1>2, <1>3, <1>4, BoundedStep

LEMMA EntriesReplyReaches ==
  ASSUME BoundInv, NEW m \in net, m.type = "AppendEntriesReply"
  PROVE  /\ m.args.from \in Server /\ m.args.to \in Server /\ m.args.Term \in Nat
         /\ m.Term \in Nat /\ m.args.PrevLogIndex \in Nat /\ End(m.args) \in Nat
         /\ m.result \in [Success : BOOLEAN, XTerm : Nat, XIndex : Nat, XLen : Nat]
         /\ State[m.args.from] = Leader /\ CurrentTerm[m.args.from] = m.args.Term =>
              /\ m.args.PrevLogIndex <= GetLastLog(m.args.from).Index
              /\ m.result.Success => End(m.args) <= GetLastLog(m.args.from).Index
<1>1. TypeOK /\ PlainInv /\ Answers
  BY BoundParts
<1>2. m \in AppendEntriesReply
  BY <1>1, MessageTypes
<1>3. /\ m.args \in AppendEntriesArgs /\ m.Term \in Nat
      /\ m.result \in [Success : BOOLEAN, XTerm : Nat, XIndex : Nat, XLen : Nat]
  BY <1>2 DEF AppendEntriesReply
<1>4. PICK f \in Server, t \in Nat, n \in Nat :
        f = m.args.from /\ t = m.args.Term /\ n = End(m.args)
  BY <1>3, EntriesArgs
<1>5. ASSUME State[f] = Leader, CurrentTerm[f] = t
      PROVE  m.args.PrevLogIndex <= GetLastLog(f).Index
  BY <1>1, <1>4, <1>5 DEF Answers, Reaches
<1>6. ASSUME State[f] = Leader, CurrentTerm[f] = t, m.result.Success
      PROVE  n <= GetLastLog(f).Index
  <2>1. PICK L, A : History(L, A)
    BY BoundParts DEF SafetyInv
  <2>2. GetLastLog(f).Index \in Nat
    BY <1>1, HeldLast
  <2>3. CASE n >= 1
    <3>1. n \in 1 .. n
      BY <2>3
    <3>2. Acked(A, m.args.to, n, t)
      BY <1>4, <1>6, <2>1, <3>1 DEF History, Confirmed
    <3>3. m.args.to \in Server
      BY <1>3, EntriesArgs
    <3>4. PICK e \in L[t] : e.Index = n
      BY <2>1, <3>2, <3>3 DEF History, AckedSince
    <3>5. e \in Held(f)
      BY <1>6, <2>1, <3>4 DEF History, Leads
    <3>6. QED
      BY <1>1, <3>4, <3>5, HeldLast
  <2>4. QED
    BY <2>2, <2>3
<1>7. /\ m.args.from \in Server /\ m.args.to \in Server /\ m.args.Term \in Nat
      /\ m.args.PrevLogIndex \in Nat /\ End(m.args) \in Nat
  BY <1>3, EntriesArgs
<1>8. QED
  BY <1>3, <1>4, <1>5, <1>6, <1>7

LEMMA SuccessBounded ==
  ASSUME Counting,
         BoundInv, SafetyInv', Regular, NEW m \in net, m.type = "AppendEntriesReply",
         EntriesReplySuccess(m)
  PROVE  Bounded'
<1>1. TypeOK /\ PlainInv /\ NextIndexInBounds
  BY BoundParts
<1>2. PICK s \in Server, p \in Server, n \in Nat :
        s = m.args.from /\ p = m.args.to /\ n = End(m.args)
  BY EntriesReplyReaches
<1> DEFINE next == MaxOf({NextIndex[s][p], n + 1})
<1>3. NextIndex' = [NextIndex EXCEPT ![s][p] = next]
  BY <1>2 DEF EntriesReplySuccess, Matched, End
<1>4. UNCHANGED <<State, Log, sending, stuck, CurrentTerm, VotedFor, disk>>
  BY DEF EntriesReplySuccess, electionVars, logVars
<1>5. net' \subseteq net
  BY ConsumeAdds DEF EntriesReplySuccess
<1>6. ASSUME State[s] = Leader, p # s PROVE next \in 1 .. GetLastLog(s).Index + 1
  <2>1. CurrentTerm[s] = m.args.Term /\ m.result.Success
    BY <1>2 DEF EntriesReplySuccess
  <2>2. PICK last \in Nat : last = GetLastLog(s).Index
    BY <1>1, HeldLast
  <2>3. n <= last
    BY <1>2, <1>6, <2>1, <2>2, EntriesReplyReaches
  <2>4. PICK x \in Nat : x = NextIndex[s][p] /\ x \in 1 .. last + 1
    <3>1. NextIndex[s][p] \in Nat
      BY <1>1, IndexTypes
    <3>2. NextIndex[s][p] \in 1 .. last + 1
      BY <1>1, <1>6, <2>2 DEF NextIndexInBounds
    <3>3. QED
      BY <3>1, <3>2
  <2>5. next \in {x, n + 1}
    <3>1. n + 1 \in Nat
      OBVIOUS
    <3>2. MaxOf({x, n + 1}) \in {x, n + 1}
      BY <3>1, MaxOfTwo
    <3>3. QED
      BY <2>4, <3>2
  <2>6. n + 1 \in 1 .. last + 1
    BY <2>3
  <2>7. QED
    BY <2>2, <2>4, <2>5, <2>6
<1> HIDE DEF next
<1>7. QED
  BY <1>3, <1>4, <1>5, <1>6, OneNextBounded

LEMMA FailureBounded ==
  ASSUME Counting,
         BoundInv, SafetyInv', Regular, NEW m \in net, m.type = "AppendEntriesReply",
         EntriesReplyFailure(m)
  PROVE  Bounded'
<1>1. TypeOK /\ PlainInv /\ Answers
  BY BoundParts
<1>2. PICK s \in Server, p \in Server, q \in Nat, t \in Nat, u \in Nat :
        /\ s = m.args.from /\ p = m.args.to /\ q = m.args.PrevLogIndex
        /\ t = m.args.Term /\ u = m.Term
  BY EntriesReplyReaches
<1> DEFINE next == BackUp(s, m.result)
<1>3. NextIndex' = [NextIndex EXCEPT ![s][p] = next]
  BY <1>2 DEF EntriesReplyFailure
<1>4. UNCHANGED <<State, Log, sending, stuck, CurrentTerm, VotedFor, disk>>
  BY DEF EntriesReplyFailure, electionVars, logVars
<1>5. net' \subseteq net
  BY ConsumeAdds DEF EntriesReplyFailure
<1>6. ASSUME State[s] = Leader PROVE next \in 1 .. GetLastLog(s).Index + 1
  <2>1. CurrentTerm[s] = t /\ ~m.result.Success /\ u <= t
    BY <1>2 DEF EntriesReplyFailure
  <2>2. PICK last \in Nat : last = GetLastLog(s).Index /\ last = Len(Log[s]) - 1
    BY <1>1, HeldLast
  <2>3. q <= last
    BY <1>2, <1>6, <2>1, <2>2, EntriesReplyReaches
  <2>4. IF m.result.XTerm = 0 THEN m.result.XLen \in 1 .. q ELSE m.result.XIndex \in 1 .. q
    <3>1. BacksUp(m)
      BY <1>1 DEF Answers
    <3>2. ~(u > t)
      BY <2>1
    <3>3. QED
      BY <1>2, <2>1, <3>1, <3>2 DEF BacksUp
  <2> DEFINE same == {k \in 1 .. Len(Log[s]) : Log[s][k].Term = m.result.XTerm}
  <2>5. CASE m.result.XTerm = 0
    <3>1. next = m.result.XLen
      BY <2>5 DEF BackUp
    <3>2. QED
      BY <2>2, <2>3, <2>4, <2>5, <3>1
  <2>6. CASE m.result.XTerm # 0 /\ same # {}
    <3>1. next = Log[s][MaxOf(same)].Index + 1
      BY <2>6 DEF BackUp
    <3>2. Len(Log[s]) \in Nat /\ same \in SUBSET Nat /\ \A y \in same : y <= Len(Log[s])
      BY <1>1, HeldEntries
    <3>3. MaxOf(same) \in same
      <4> HIDE DEF same
      <4>1. QED
        BY <2>6, <3>2, MaxOfNat
    <3>4. PICK k \in 1 .. Len(Log[s]) : k = MaxOf(same)
      BY <3>3
    <3>5. Log[s][k].Index = k - 1
      BY <1>1, HeldEntries
    <3>6. QED
      BY <2>2, <3>1, <3>2, <3>4, <3>5
  <2>7. CASE m.result.XTerm # 0 /\ same = {}
    <3>1. next = m.result.XIndex
      BY <2>7 DEF BackUp
    <3>2. QED
      BY <2>2, <2>3, <2>4, <2>7, <3>1
  <2>8. QED
    BY <2>5, <2>6, <2>7
<1> HIDE DEF next
<1>7. QED
  BY <1>3, <1>4, <1>5, <1>6, OneNextBounded

LEMMA LeaderBounded ==
  ASSUME BoundInv, SafetyInv', Regular, NEW s \in Server,
         \/ \E c \in Command : Start(s, c)
         \/ \E m \in net : /\ m.type = "RequestVoteReply" /\ m.args.from = s
                           /\ VoteReplyGranted(m) /\ BecomeLeader(s)
  PROVE  Bounded'
<1>1. TypeOK /\ PlainInv /\ NextIndexInBounds /\ PersistentState /\ NoSnapShots
  BY BoundParts
<1>2. UNCHANGED <<sending, stuck>>
  BY DEF Start, VoteReplyGranted
<1>3. PersistentState'
  <2>1. \/ \E c \in Command : Start(s, c)
        \/ \E m \in net : HandleReply(m)
    BY DEF HandleReply
  <2>2. OneSaves \/ UNCHANGED <<CurrentTerm, VotedFor, disk>>
    BY <1>1, <2>1, SavesInTime
  <2>3. QED
    BY <1>1, <2>2, OneSavesPersists DEF PersistentState
<1>4. net' \subseteq net
  BY ConsumeAdds DEF Start, VoteReplyGranted
<1>5. ASSUME NEW q \in Server \ {s}
      PROVE  State'[q] = State[q] /\ Log'[q] = Log[q] /\ NextIndex'[q] = NextIndex[q]
  <2>1. CASE \E c \in Command : Start(s, c)
    BY <1>1, <2>1 DEF Start, TypeOK, electionVars, leaderVars
  <2>2. CASE BecomeLeader(s) /\ UNCHANGED Log
    BY <1>1, <2>2 DEF BecomeLeader, TypeOK
  <2>3. QED
    BY <2>1, <2>2 DEF VoteReplyGranted, logVars
<1>6. PICK last \in Nat : last = GetLastLog(s).Index /\ last = Len(Log[s]) - 1
  BY <1>1, HeldLast
<1>7. /\ (GetLastLog(s).Index)' \in {last, last + 1}
      /\ \A p \in Server \ {s} : NextIndex'[s][p] \in 1 .. last + 1
  <2>1. ASSUME NEW c \in Command, Start(s, c)
        PROVE  /\ (GetLastLog(s).Index)' = last + 1
               /\ \A p \in Server \ {s} : NextIndex'[s][p] \in 1 .. last + 1
    <3> DEFINE e == [Command |-> c, Term |-> CurrentTerm[s], Index |-> last + 1]
    <3>1. Log' = [Log EXCEPT ![s] = Append(@, e)] /\ State[s] = Leader /\ UNCHANGED NextIndex
      BY <1>6, <2>1 DEF Start, leaderVars
    <3>2. e.Index = last + 1
      OBVIOUS
    <3> HIDE DEF e
    <3>3. Log'[s] = Append(Log[s], e)
      BY <1>1, <3>1 DEF TypeOK
    <3>4. Log[s] \in Seq(LogEntry)
      BY <1>1, HeldEntries
    <3>5. Log'[s][Len(Log'[s])] = e
      BY <3>3, <3>4
    <3>6. (GetLastLog(s).Index)' = last + 1
      BY <3>2, <3>5 DEF GetLastLog
    <3>7. \A p \in Server \ {s} : NextIndex'[s][p] \in 1 .. last + 1
      BY <1>1, <1>6, <3>1 DEF NextIndexInBounds
    <3>8. QED
      BY <3>6, <3>7
  <2>2. ASSUME NEW m \in net, VoteReplyGranted(m), BecomeLeader(s)
        PROVE  /\ (GetLastLog(s).Index)' = last
               /\ \A p \in Server \ {s} : NextIndex'[s][p] \in 1 .. last + 1
    <3>1. Log'[s] = Log[s]
      BY <2>2 DEF VoteReplyGranted, logVars
    <3>2. (GetLastLog(s).Index)' = last
      BY <1>6, <3>1 DEF GetLastLog
    <3>3. NextIndex'[s] = [p \in Server |-> last + 1]
      BY <1>1, <1>6, <2>2 DEF BecomeLeader, TypeOK
    <3>4. QED
      BY <3>2, <3>3
  <2>3. QED
    BY <2>1, <2>2
<1>8. ASSUME NEW q \in Server, State'[q] = Leader
      PROVE  /\ (GetLastLog(q).Index)' >= GetLastLog(q).Index
             /\ \A p \in Server \ {q} : NextIndex'[q][p] \in 1 .. (GetLastLog(q).Index)' + 1
  <2>1. CASE q = s
    <3>1. PICK n \in Nat : n = (GetLastLog(s).Index)' /\ n \in {last, last + 1}
      BY <1>7
    <3>2. n >= last /\ 1 .. last + 1 \subseteq 1 .. n + 1
      BY <3>1
    <3>3. QED
      BY <1>6, <1>7, <2>1, <3>1, <3>2
  <2>2. CASE q # s
    <3>1. State[q] = Leader /\ Log'[q] = Log[q] /\ NextIndex'[q] = NextIndex[q]
      BY <1>5, <1>8, <2>2
    <3>2. (GetLastLog(q).Index)' = GetLastLog(q).Index
      BY <3>1 DEF GetLastLog
    <3>3. GetLastLog(q).Index \in Nat
      BY <1>1, HeldLast
    <3>4. \A p \in Server \ {q} : NextIndex[q][p] \in 1 .. GetLastLog(q).Index + 1
      BY <1>1, <3>1 DEF NextIndexInBounds
    <3>5. QED
      BY <3>1, <3>2, <3>3, <3>4
  <2>3. QED
    BY <2>1, <2>2
<1>9. \A r \in net' : r \notin net =>
        /\ r.type \notin {"InstallSnapShot", "InstallSnapShotReply"}
        /\ r.type = "AppendEntriesReply" => BacksUp(r) /\ Reaches(r)'
  BY <1>4
<1>10. QED
  BY <1>2, <1>3, <1>8, <1>9, BoundedStep

LEMMA InitBounded ==
  ASSUME Init
  PROVE  Bounded
<1>1. net = {} /\ \A s \in Server : State[s] = Follower /\ sending[s] = {} /\ ~stuck[s]
  BY DEF Init
<1>2. PersistentState
  BY DEF Init, PersistentState
<1>3. NextIndexInBounds /\ MutexReleased /\ NoSnapShots /\ Answers
  BY <1>1 DEF NextIndexInBounds, MutexReleased, NoSnapShots, Answers, Leader, Follower
<1>4. QED
  BY <1>2, <1>3 DEF Bounded

LEMMA RequestBounded ==
  ASSUME Counting,
         BoundInv, SafetyInv', Regular, NEW m \in net, HandleRequest(m)
  PROVE  Bounded'
<1>1. m.type # "InstallSnapShot"
  BY BoundParts DEF NoSnapShots
<1>2. m.type = "RequestVote" \/ m.type = "AppendEntries"
  BY <1>1 DEF HandleRequest
<1>3. QED
  BY <1>2, VoteRequestBounded, EntriesRequestBounded

LEMMA ReplyBounded ==
  ASSUME Counting,
         BoundInv, SafetyInv', Regular, NEW m \in net, HandleReply(m)
  PROVE  Bounded'
<1>1. m.type # "InstallSnapShotReply"
  BY BoundParts DEF NoSnapShots
<1>2. CASE m.type = "RequestVoteReply"
  <2>1. VoteReplyIgnored(m) \/ VoteReplyHigherTerm(m) \/ VoteReplyGranted(m)
    BY <1>2 DEF HandleReply
  <2>2. CASE VoteReplyIgnored(m) \/ VoteReplyHigherTerm(m)
    BY <1>2, <2>2, CalmReplyBounded
  <2>3. CASE VoteReplyGranted(m) /\ UNCHANGED <<State, leaderVars>>
    BY <1>2, <2>3, CalmReplyBounded
  <2>4. CASE VoteReplyGranted(m) /\ BecomeLeader(m.args.from)
    <3>1. m \in RequestVoteReply
      BY <1>2, BoundParts, MessageTypes
    <3>2. PICK s \in Server : s = m.args.from
      BY <3>1 DEF RequestVoteReply, RequestVoteArgs
    <3>3. QED
      BY <1>2, <2>4, <3>2, LeaderBounded
  <2>5. VoteReplyGranted(m) => UNCHANGED <<State, leaderVars>> \/ BecomeLeader(m.args.from)
    BY DEF VoteReplyGranted
  <2>6. QED
    BY <2>1, <2>2, <2>3, <2>4, <2>5
<1>3. CASE m.type = "AppendEntriesReply"
  <2>1. \/ ReplyOutdated(m) \/ EntriesReplyHigherTerm(m)
        \/ EntriesReplySuccess(m) \/ EntriesReplyFailure(m)
    BY <1>3 DEF HandleReply
  <2>2. CASE ReplyOutdated(m) \/ EntriesReplyHigherTerm(m)
    BY <1>3, <2>2, CalmReplyBounded
  <2>3. QED
    BY <1>3, <2>1, <2>2, SuccessBounded, FailureBounded
<1>4. QED
  BY <1>1, <1>2, <1>3 DEF HandleReply

LEMMA StepBounded ==
  ASSUME Counting,
         BoundInv, SafetyInv', Regular, [Next]_vars
  PROVE  BoundInv'
<1>1. SafetyInv /\ PlainInv /\ NoSnapShots
  BY BoundParts
<1>2. SafetyInv' /\ Regular
  OBVIOUS
<1>4. ASSUME UNCHANGED vars PROVE Bounded'
  BY <1>2, <1>4, LocalBounded
<1>5. ASSUME Next PROVE Bounded'
  <2>1. ASSUME NEW s \in Server,
               \/ TickerTimeout(s) \/ AttemptElection(s)
               \/ \E p \in Server : BroadcastEntries(s, p)
               \/ ApplierTakeSnapshot(s) \/ ApplierTakeEntries(s)
               \/ ApplierSend(s) \/ ApplierDone(s)
        PROVE  Bounded'
    BY <1>2, <2>1, LocalBounded
  <2>2. ASSUME NEW s \in Server, Make(s) PROVE Bounded'
    BY <1>2, <2>2, MakeBounded
  <2>3. ASSUME NEW s \in Server, NEW c \in Command, Start(s, c) PROVE Bounded'
    BY <1>2, <2>3, LeaderBounded
  <2>4. ~\E s, p \in Server : PrepareSnapShot(s, p)
    BY NoPrepare
  <2>5. \A s \in Server : sending[s] = {}
    BY <1>1 DEF NoSnapShots
  <2>6. ~\E s \in Snapshotters : Snapshot(s)
    BY <1>1 DEF PlainInv, Plain
  <2>7. ASSUME NEW m \in net, HandleRequest(m) \/ HandleReply(m) PROVE Bounded'
    BY <1>2, <2>7, RequestBounded, ReplyBounded
  <2>8. QED
    BY <1>5, <2>1, <2>2, <2>3, <2>4, <2>5, <2>6, <2>7, ServerAssumption DEF Next
<1>6. QED
  BY <1>2, <1>4, <1>5 DEF BoundInv

-----------------------------------------------------------------------------
(***************************************************************************)
(* Raft as one agreed log.  What the peers know to be committed are        *)
(* prefixes of one log, and no step takes an entry back.                   *)
(***************************************************************************)
\* A commit index names an entry that the peer has.
LEMMA CommitHeld ==
  ASSUME SafetyInv, NEW s \in Server
  PROVE  CommitIndex[s] \in Nat /\ CommitIndex[s] + 1 <= Len(Log[s])
<1>1. PlainInv /\ TypeOK
  BY PlainParts DEF SafetyInv
<1>2. PICK c \in Nat : c = CommitIndex[s]
  BY <1>1 DEF TypeOK
<1>3. Len(Log[s]) \in Nat /\ Len(Log[s]) >= 1
  BY <1>1, HeldEntries
<1>4. CASE c = 0
  BY <1>2, <1>3, <1>4
<1>5. CASE c >= 1
  <2>1. PICK L, A : History(L, A)
    BY DEF SafetyInv
  <2>2. LeaderLogs(L) /\ Commits(L, A, Held(s), c, CurrentTerm[s])
    BY <1>2, <1>5, <2>1 DEF History, PeersCommit
  <2>3. PICK e \in LogEntry : /\ Entry(L, e) /\ c <= e.Index /\ Same(Held(s), L[e.Term], c)
    BY <2>2 DEF Commits
  <2>4. e.Term \in Nat /\ e.Index \in Nat
    BY EntryFields
  <2>5. IsLog(L[e.Term]) /\ e \in L[e.Term] /\ c \in 0 .. e.Index
    BY <2>2, <2>3, <2>4 DEF LeaderLogs, Entry
  <2>6. PICK f \in L[e.Term] : f.Index = c
    BY <2>5 DEF IsLog
  <2>7. f \in LogEntry
    BY <2>5 DEF IsLog
  <2>8. f \in Held(s)
    BY <2>3, <2>6, <2>7 DEF Same
  <2>9. f.Index + 1 \in 1 .. Len(Log[s])
    BY <1>1, <2>8, HeldEntries
  <2>10. QED
    BY <1>2, <1>3, <2>6, <2>9
<1>6. QED
  BY <1>4, <1>5

\* Two logs that are the same up to an index have the same entries there.
LEMMA SameEntries ==
  ASSUME NEW s \in Server, NEW p \in Server, PlainInv, NEW i \in Nat,
         Same(Held(s), Held(p), i), NEW k \in 1 .. i + 1, k <= Len(Log[s])
  PROVE  Log[s][k] = Log[p][k]
<1>1. Len(Log[s]) \in Nat /\ k \in 1 .. Len(Log[s])
  BY HeldEntries
<1>2. PICK e \in LogEntry : e = Log[s][k] /\ e.Index = k - 1 /\ e \in Held(s)
  BY <1>1, HeldEntries
<1>3. e.Index <= i
  BY <1>2
<1>4. e \in Held(p)
  BY <1>2, <1>3 DEF Same
<1>5. e = Log[p][e.Index + 1]
  BY <1>4, HeldEntries
<1>6. e.Index + 1 = k
  BY <1>2
<1>7. QED
  BY <1>2, <1>5, <1>6

\* Whatever two peers know to be committed is the same.
LEMMA CommitsAgree ==
  ASSUME Counting,
         SafetyInv, NEW s \in Server, NEW p \in Server, CommitIndex[s] <= CommitIndex[p],
         NEW k \in 1 .. CommitIndex[s]
  PROVE  Log[s][k + 1] = Log[p][k + 1]
<1>1. PlainInv /\ TypeOK
  BY PlainParts DEF SafetyInv
<1>2. PICK c \in Nat, d \in Nat : c = CommitIndex[s] /\ d = CommitIndex[p] /\ c <= d /\ c >= 1
  <2>1. CommitIndex[s] \in Nat /\ CommitIndex[p] \in Nat
    BY <1>1 DEF TypeOK
  <2>2. QED
    BY <2>1
<1>3. PICK L, A : History(L, A)
  BY DEF SafetyInv
<1>4. /\ LeaderLogs(L) /\ Lasting(L, A)
      /\ Commits(L, A, Held(s), c, CurrentTerm[s])
      /\ Commits(L, A, Held(p), d, CurrentTerm[p])
  BY <1>2, <1>3 DEF History, PeersCommit
<1>5. PICK e \in LogEntry : /\ Entry(L, e) /\ Chosen(A, e.Index, e.Term)
                            /\ c <= e.Index /\ Same(Held(s), L[e.Term], c)
  BY <1>4 DEF Commits
<1>6. PICK f \in LogEntry : /\ Entry(L, f) /\ Chosen(A, f.Index, f.Term)
                            /\ d <= f.Index /\ Same(Held(p), L[f.Term], d)
  BY <1>4 DEF Commits
<1>7. e.Term \in Nat /\ e.Index \in Nat /\ f.Term \in Nat /\ f.Index \in Nat
  BY EntryFields
<1>8. Same(L[e.Term], L[f.Term], c)
  <2>1. L[e.Term] # {} /\ L[f.Term] # {}
    BY <1>5, <1>6 DEF Entry
  <2>2. CASE e.Term <= f.Term
    <3>1. Same(L[f.Term], L[e.Term], e.Index)
      BY <1>4, <1>5, <1>7, <2>1, <2>2, ChosenLasts
    <3>2. QED
      BY <1>5, <1>7, <3>1, SameLess, SameTurned
  <2>3. CASE f.Term <= e.Term
    <3>1. Same(L[e.Term], L[f.Term], f.Index)
      BY <1>4, <1>6, <1>7, <2>1, <2>3, ChosenLasts
    <3>2. c <= f.Index
      BY <1>2, <1>6, <1>7
    <3>3. QED
      BY <1>7, <3>1, <3>2, SameLess
  <2>4. QED
    BY <1>7, <2>2, <2>3
<1>9. Same(Held(p), L[f.Term], c)
  BY <1>2, <1>6, SameLess
<1>10. Same(Held(s), Held(p), c)
  BY <1>5, <1>8, <1>9, SameTurned, SameJoined
<1>11. k + 1 \in 1 .. c + 1 /\ k + 1 <= Len(Log[s])
  <2>1. c + 1 <= Len(Log[s])
    BY <1>2, CommitHeld
  <2>2. Len(Log[s]) \in Nat /\ k \in 1 .. c
    BY <1>1, <1>2, HeldEntries
  <2>3. QED
    BY <2>1, <2>2
<1>12. QED
  BY <1>1, <1>10, <1>11, SameEntries

\* The steps that change a log or a commit index, other than a restart.
LEMMA CommitSteps ==
  ASSUME Counting,
         SafetyInv, Next, boot' = boot
  PROVE  \/ UNCHANGED <<CommitIndex, Log>>
         \/ UNCHANGED CommitIndex /\ \E s \in Server, command \in Command : Start(s, command)
         \/ \E m \in net : m.type = "AppendEntries" /\ AppendEntriesAccept(m)
         \/ UNCHANGED Log /\ \E p \in Server : \E q, n : Matched(p, q, n)
<1> DEFINE Goal == \/ UNCHANGED <<CommitIndex, Log>>
                   \/ UNCHANGED CommitIndex /\ \E s \in Server, command \in Command : Start(s, command)
                   \/ \E m \in net : m.type = "AppendEntries" /\ AppendEntriesAccept(m)
                   \/ UNCHANGED Log /\ \E p \in Server : \E q, n : Matched(p, q, n)
<1>1. PlainInv /\ TypeOK
  BY PlainParts DEF SafetyInv
<1>2. ASSUME UNCHANGED <<CommitIndex, Log>> PROVE Goal
  BY <1>2
<1>3. ~\E p \in Server : Make(p)
  <2> SUFFICES ASSUME NEW p \in Server, Make(p) PROVE FALSE
    OBVIOUS
  <2>1. boot'[p] # boot[p]
    BY <1>1, MakeBoots
  <2>2. QED
    BY <2>1
<1>4. ASSUME NEW s \in Server, NEW command \in Command, Start(s, command) PROVE Goal
  BY <1>4 DEF Start
<1>5. ASSUME NEW m \in net, m.type = "AppendEntries", AppendEntriesAccept(m) PROVE Goal
  BY <1>5
<1>6. ASSUME NEW p \in Server, NEW q, NEW n, Matched(p, q, n), UNCHANGED Log PROVE Goal
  BY <1>6
<1> HIDE DEF Goal
<1>7. ASSUME NEW m \in net, HandleRequest(m) PROVE Goal
  <2>1. \/ m.type = "AppendEntries" /\ AppendEntriesAccept(m)
        \/ RequestVoteStale(m) \/ RequestVoteRefuse(m) \/ RequestVoteGrant(m)
        \/ AppendEntriesStale(m) \/ AppendEntriesReject(m)
        \/ InstallSnapShotStale(m) \/ InstallSnapShotOld(m)
    BY <1>1, <1>7, NoInstall, ZenonT(60) DEF HandleRequest
  <2>2. CASE RequestVoteStale(m) \/ RequestVoteRefuse(m) \/ RequestVoteGrant(m)
    BY <1>2, <2>2 DEF RequestVoteStale, RequestVoteRefuse, RequestVoteGrant, logVars
  <2>3. CASE AppendEntriesStale(m) \/ AppendEntriesReject(m)
    BY <1>2, <2>3 DEF AppendEntriesStale, AppendEntriesReject, logVars
  <2>4. CASE InstallSnapShotStale(m) \/ InstallSnapShotOld(m)
    BY <1>2, <2>4 DEF InstallSnapShotStale, InstallSnapShotOld, logVars
  <2>5. QED
    BY <1>5, <2>1, <2>2, <2>3, <2>4
<1>8. ASSUME NEW m \in net, HandleReply(m) PROVE Goal
  <2>1. CASE \/ m.type = "AppendEntriesReply" /\ EntriesReplySuccess(m)
             \/ m.type = "InstallSnapShotReply" /\ SnapShotReplySuccess(m)
    <3>1. m.args.from \in Server
      BY <1>1, <2>1, MessageTypes
         DEF AppendEntriesReply, InstallSnapshotReply, AppendEntriesArgs, InstallSnapshotArgs
    <3>2. UNCHANGED Log
      BY <2>1 DEF EntriesReplySuccess, SnapShotReplySuccess, logVars
    <3>3. PICK q, n : Matched(m.args.from, q, n)
      BY <2>1, ZenonT(60) DEF EntriesReplySuccess, SnapShotReplySuccess
    <3>4. QED
      BY <1>6, <3>1, <3>2, <3>3
  <2>2. QED
    BY <1>2, <1>8, <2>1
       DEF HandleReply, VoteReplyIgnored, VoteReplyHigherTerm, VoteReplyGranted, ReplyOutdated,
           EntriesReplyHigherTerm, EntriesReplyFailure, SnapShotReplyHigherTerm, logVars
<1>9. ~\E p \in Snapshotters : Snapshot(p)
  BY <1>1 DEF PlainInv, Plain
<1>10. ASSUME NEW s \in Server, \/ TickerTimeout(s) \/ AttemptElection(s)
                               \/ ApplierTakeSnapshot(s) \/ ApplierTakeEntries(s)
                               \/ ApplierSend(s) \/ ApplierDone(s)
       PROVE  Goal
  BY <1>2, <1>10 DEF TickerTimeout, AttemptElection, ApplierTakeSnapshot, ApplierTakeEntries,
                     ApplierSend, ApplierDone, logVars
<1>11. ASSUME NEW s \in Server, NEW p, BroadcastEntries(s, p) \/ PrepareSnapShot(s, p)
       PROVE  Goal
  BY <1>2, <1>11 DEF BroadcastEntries, PrepareSnapShot, logVars
<1>12. ASSUME NEW s \in Server, NEW m, sendSnapShot(s, m) \/ sendSnapShotNotLeader(s, m)
       PROVE  Goal
  BY <1>2, <1>12 DEF sendSnapShot, sendSnapShotNotLeader, logVars
<1>13. Goal
  BY <1>3, <1>4, <1>7, <1>8, <1>9, <1>10, <1>11, <1>12, ServerAssumption, ZenonT(60) DEF Next
<1>14. QED
  BY <1>13 DEF Goal

\* At most one peer learns of commitment at a time.
LEMMA OneCommits ==
  ASSUME Counting,
         SafetyInv, Next, boot' = boot, Server # {}
  PROVE  \E s \in Server : \A p \in Server \ {s} : CommitIndex'[p] = CommitIndex[p]
<1>1. PlainInv /\ TypeOK
  BY PlainParts DEF SafetyInv
<1>2. CASE UNCHANGED CommitIndex
  BY <1>2
<1>3. CASE \E m \in net : m.type = "AppendEntries" /\ AppendEntriesAccept(m)
  <2>1. PICK m \in net : m.type = "AppendEntries" /\ AppendEntriesAccept(m)
    BY <1>3
  <2>2. PICK L, A : History(L, A)
    BY DEF SafetyInv
  <2>3. \A p \in Server \ {m.to} : CommitIndex'[p] = CommitIndex[p]
    BY <1>1, <2>1, <2>2, AcceptCommit
  <2>4. m.to \in Server
    BY <1>1, <2>1, MessageTypes, EntriesArgs
  <2>5. QED
    BY <2>3, <2>4
<1>4. CASE \E s \in Server : \E q, n : Matched(s, q, n)
  <2>1. PICK s \in Server : \E q, n : Matched(s, q, n)
    BY <1>4
  <2>2. CommitIndex' = [CommitIndex EXCEPT ![s] = updateCommitIndex(s, MatchIndex'[s])]
    BY <2>1 DEF Matched
  <2>3. QED
    BY <1>1, <2>2 DEF TypeOK
<1>5. QED
  BY <1>2, <1>3, <1>4, CommitSteps

\* What a peer knows to be committed it keeps, position by position.
LEMMA CommittedStays ==
  ASSUME Counting,
         SafetyInv, PlainInv', Next, boot' = boot, NEW s \in Server,
         NEW k \in 1 .. CommitIndex[s]
  PROVE  Log'[s][k + 1] = Log[s][k + 1]
<1>1. PlainInv /\ TypeOK
  BY PlainParts DEF SafetyInv
<1>2. PICK c \in Nat : c = CommitIndex[s] /\ c + 1 <= Len(Log[s]) /\ k \in 1 .. c /\ c >= 1
  <2>1. CommitIndex[s] \in Nat /\ CommitIndex[s] + 1 <= Len(Log[s])
    BY CommitHeld
  <2>2. QED
    BY <2>1
<1>3. Log[s] \in Seq(LogEntry) /\ Len(Log[s]) \in Nat
  BY <1>1, HeldEntries
<1>4. CASE UNCHANGED Log
  BY <1>4
<1>5. CASE \E p \in Server, command \in Command : Start(p, command)
  <2>0. PICK p \in Server : \E n : Log' = [Log EXCEPT ![p] = Append(@, n)]
    BY <1>5 DEF Start
  <2>1. PICK n : Log' = [Log EXCEPT ![p] = Append(@, n)]
    BY <2>0
  <2>2. CASE p = s
    <3>1. Log'[s] = Append(Log[s], n)
      BY <1>1, <2>1, <2>2 DEF TypeOK
    <3>2. k + 1 \in 1 .. Len(Log[s])
      BY <1>2, <1>3
    <3>3. QED
      BY <1>3, <3>1, <3>2
  <2>3. CASE p # s
    BY <1>1, <2>1, <2>3 DEF TypeOK
  <2>4. QED
    BY <2>2, <2>3
<1>6. CASE \E m \in net : m.type = "AppendEntries" /\ AppendEntriesAccept(m)
  <2>1. PICK m \in net : m.type = "AppendEntries" /\ AppendEntriesAccept(m)
    BY <1>6
  <2>2. m \in AppendEntriesArgs
    BY <1>1, <2>1, MessageTypes
  <2>3. PICK p \in Server, T \in Nat, E \in Nat : p = m.to /\ T = m.Term /\ E = End(m)
    BY <2>2, EntriesArgs
  <2>4. /\ T >= CurrentTerm[p]
        /\ checkLogConsistency(p, m).Success
        /\ Log' = [Log EXCEPT ![p] = MergedLog(p, m.Entries)]
    BY <2>1, <2>3 DEF AppendEntriesAccept, FollowTerm
  <2>5. CASE p # s
    BY <1>1, <2>4, <2>5 DEF TypeOK
  <2>6. CASE p = s
    <3>1. PICK L, A : History(L, A)
      BY DEF SafetyInv
    <3>2. /\ LeaderLogs(L) /\ Lasting(L, A) /\ CallsCarry(L, A)
          /\ Commits(L, A, Held(s), c, CurrentTerm[s])
      BY <1>2, <3>1 DEF History, PeersCommit
    <3>3. L[T] # {}
      BY <2>1, <2>3, <3>2 DEF CallsCarry, Bears, Carries
    <3>4. Log'[s] = MergedLog(p, m.Entries)
      BY <1>1, <2>4, <2>6 DEF TypeOK
    <3>5. Merged(Held(s), Held(s)', L[T], E)
      BY <1>1, <2>2, <2>3, <2>4, <2>6, <3>1, <3>4, AcceptMerges
    <3>6. CurrentTerm[s] \in Nat /\ CurrentTerm[s] <= T
      BY <1>1, <2>4, <2>6 DEF TypeOK
    <3>7. Same(Held(s), L[T], c)
      BY <3>2, <3>3, <3>6, CommitsLast
    <3>8. Same(Held(s)', L[T], c)
      BY <3>5, <3>7 DEF Merged
    <3>9. PICK e \in LogEntry : e = Log[s][k + 1] /\ e.Index = k /\ e \in Held(s)
      <4>1. k + 1 \in 1 .. Len(Log[s]) /\ (k + 1) - 1 = k
        BY <1>2, <1>3
      <4>2. QED
        BY <1>1, <4>1, HeldEntries
    <3>10. e.Index <= c
      BY <1>2, <3>9
    <3>11. e \in Held(s)'
      BY <3>7, <3>8, <3>9, <3>10 DEF Same
    <3>12. PICK j \in 1 .. Len(Log'[s]) : e = Log'[s][j]
      BY <3>11 DEF Held
    <3>13. LogIndexing' /\ LastIncludedIndex'[s] = 0
      BY DEF PlainInv, TenureInv, MatchingInv, ElectionInv, IndInv, Plain
    <3>14. e.Index = LastIncludedIndex'[s] + j - 1
      BY <3>12, <3>13 DEF LogIndexing
    <3>15. j = k + 1
      BY <3>9, <3>13, <3>14
    <3>16. QED
      BY <3>9, <3>12, <3>15
  <2>7. QED
    BY <2>5, <2>6
<1>7. QED
  BY <1>4, <1>5, <1>6, CommitSteps

-----------------------------------------------------------------------------
(***************************************************************************)
(* Prefixes of one log.                                                    *)
(***************************************************************************)
\* Sequences of one length that agree everywhere are equal.
LEMMA SameSequence ==
  ASSUME NEW X, NEW a \in Seq(X), NEW b \in Seq(X), Len(a) = Len(b),
         \A k \in 1 .. Len(a) : a[k] = b[k]
  PROVE  a = b
OBVIOUS

\* The first n entries of a sequence.
LEMMA FirstEntries ==
  ASSUME NEW X, NEW a \in Seq(X), NEW n \in Nat, n <= Len(a)
  PROVE  /\ SubSeq(a, 1, n) \in Seq(X) /\ Len(SubSeq(a, 1, n)) = n
         /\ \A k \in 1 .. n : SubSeq(a, 1, n)[k] = a[k]
<1>1. Len(a) \in Nat
  OBVIOUS
<1>2. \A k \in 1 .. n : a[k] \in X
  BY <1>1
<1>3. QED
  BY <1>1, <1>2

\* What is longest among several prefixes of one log is each that is longest.
LEMMA LongestTops ==
  ASSUME NEW X, NEW S, NEW D \in [S -> Seq(X)], Prefixes(S, D),
         NEW l \in {D[p] : p \in S}, \A k \in {D[p] : p \in S} : Len(l) >= Len(k)
  PROVE  Tops(S, D, l)
<1> SUFFICES ASSUME NEW q \in S, \A p \in S : Len(D[p]) <= Len(D[q])
             PROVE  l = D[q]
  BY DEF Tops
<1>1. \A p \in S : D[p] \in Seq(X) /\ Len(D[p]) \in Nat
  OBVIOUS
<1>2. PICK r \in S : l = D[r]
  OBVIOUS
<1>3. Len(D[r]) = Len(D[q])
  <2>1. Len(D[r]) >= Len(D[q]) /\ Len(D[r]) <= Len(D[q])
    BY <1>2
  <2>2. QED
    BY <1>1, <2>1
<1>4. \A k \in 1 .. Len(D[r]) : D[r][k] = D[q][k]
  BY <1>1, <1>3 DEF Prefixes
<1>5. D[r] = D[q]
  BY <1>1, <1>3, <1>4, SameSequence
<1>6. QED
  BY <1>2, <1>5

\* One of several prefixes of one log grows: either it is now the longest and
\* extends the one that was, or it is a longer piece of that one.
LEMMA PrefixGrows ==
  ASSUME NEW X, NEW S, NEW D \in [S -> Seq(X)], NEW E \in [S -> Seq(X)],
         Prefixes(S, D), Prefixes(S, E),
         NEW q \in S, \A p \in S : Len(D[p]) <= Len(D[q]),
         NEW s \in S, \A p \in S \ {s} : E[p] = D[p], Len(D[s]) <= Len(E[s]),
         \A k \in 1 .. Len(D[s]) : E[s][k] = D[s][k],
         NEW a, NEW b, Tops(S, D, a), Tops(S, E, b)
  PROVE  Lengthened(S, D, E, s, a, b)
<1> USE DEF Lengthened
<1>1. \A p \in S : /\ D[p] \in Seq(X) /\ Len(D[p]) \in Nat
                   /\ E[p] \in Seq(X) /\ Len(E[p]) \in Nat
  OBVIOUS
<1>2. a = D[q]
  BY DEF Tops
<1>3. E = [D EXCEPT ![s] = E[s]]
  OBVIOUS
<1>4. CASE Len(E[s]) = Len(D[s])
  <2>1. E[s] = D[s]
    BY <1>1, <1>4, SameSequence
  <2>2. E = D
    BY <1>3, <2>1
  <2>3. \A p \in S : Len(E[p]) <= Len(E[q])
    BY <2>2
  <2>4. b = a
    BY <1>2, <2>2, <2>3 DEF Tops
  <2>5. QED
    BY <2>2, <2>3, <2>4
<1>5. CASE Len(E[s]) > Len(D[q])
  <2>1. \A p \in S : Len(E[p]) <= Len(E[s])
    <3> SUFFICES ASSUME NEW p \in S, p # s PROVE Len(E[p]) <= Len(E[s])
      BY <1>1
    <3>1. E[p] = D[p] /\ Len(D[p]) <= Len(D[q])
      OBVIOUS
    <3>2. QED
      BY <1>1, <1>5, <3>1
  <2>2. b = E[s]
    BY <2>1 DEF Tops
  <2>3. Len(a) < Len(b) /\ Len(a) <= Len(b)
    BY <1>1, <1>2, <1>5, <2>2
  <2>4. \A k \in 1 .. Len(a) : a[k] = b[k]
    <3>1. CASE q = s
      BY <1>2, <2>2, <3>1
    <3>2. CASE q # s
      <4>1. E[q] = D[q] /\ Len(E[q]) <= Len(E[s])
        BY <2>1, <3>2
      <4>2. QED
        BY <1>2, <2>2, <4>1 DEF Prefixes
    <3>3. QED
      BY <3>1, <3>2
  <2>5. a \in Seq(X) /\ b \in Seq(X) /\ Len(a) \in Nat
    BY <1>1, <1>2, <2>2
  <2>6. SubSeq(b, 1, Len(a)) = a
    <3> DEFINE u == SubSeq(b, 1, Len(a))
    <3>1. u \in Seq(X) /\ Len(u) = Len(a) /\ \A k \in 1 .. Len(a) : u[k] = b[k]
      BY <2>3, <2>5, FirstEntries, ZenonT(60)
    <3> HIDE DEF u
    <3>2. a = u
      BY <2>4, <2>5, <3>1, SameSequence
    <3>3. QED
      BY <3>2 DEF u
  <2>7. QED
    BY <1>3, <2>1, <2>2, <2>3, <2>6
<1>6. CASE Len(D[s]) < Len(E[s]) /\ Len(E[s]) <= Len(D[q])
  <2>1. q # s /\ E[q] = D[q]
    <3>1. q # s
      BY <1>1, <1>6
    <3>2. QED
      BY <3>1
  <2>2. \A p \in S : Len(E[p]) <= Len(E[q])
    <3> SUFFICES ASSUME NEW p \in S PROVE Len(E[p]) <= Len(E[q])
      OBVIOUS
    <3>1. CASE p = s
      BY <1>6, <2>1, <3>1
    <3>2. CASE p # s
      BY <2>1, <3>2
    <3>3. QED
      BY <3>1, <3>2
  <2>3. b = a
    BY <1>2, <2>1, <2>2 DEF Tops
  <2>4. PICK n \in Nat : n = Len(E[s]) /\ n <= Len(a)
    BY <1>1, <1>2, <1>6
  <2>5. n \in Len(D[s]) + 1 .. Len(a)
    BY <1>1, <1>2, <1>6, <2>4
  <2>6. \A k \in 1 .. n : E[s][k] = a[k]
    BY <1>2, <1>6, <2>1, <2>4 DEF Prefixes
  <2>7. E[s] = SubSeq(a, 1, n)
    <3> DEFINE u == SubSeq(a, 1, n)
    <3>1. u \in Seq(X) /\ Len(u) = n /\ \A k \in 1 .. n : u[k] = a[k]
      <4>1. a \in Seq(X)
        BY <1>1, <1>2
      <4>2. QED
        BY <2>4, <4>1, FirstEntries, ZenonT(60)
    <3> HIDE DEF u
    <3>2. E[s] = u
      <4>1. E[s] \in Seq(X) /\ Len(E[s]) = Len(u)
        BY <1>1, <2>4, <3>1
      <4>2. \A k \in 1 .. Len(E[s]) : E[s][k] = u[k]
        BY <2>4, <2>6, <3>1
      <4>3. QED
        BY <3>1, <4>1, <4>2, SameSequence, ZenonT(60)
    <3>3. QED
      BY <3>2 DEF u
  <2>8. QED
    BY <1>3, <2>2, <2>3, <2>5, <2>7
<1>7. QED
  <2>1. \/ Len(E[s]) = Len(D[s])
        \/ Len(E[s]) > Len(D[q])
        \/ Len(D[s]) < Len(E[s]) /\ Len(E[s]) <= Len(D[q])
    BY <1>1
  <2>2. QED
    BY <1>4, <1>5, <1>6, <2>1
=============================================================================
