------------------------- MODULE RaftHistoryProofs --------------------------
(***************************************************************************)
(* For every set of peers, whatever the network does and wherever a peer   *)
(* stops and restarts, as long as no service takes a snapshot: a step      *)
(* keeps what is committed committed.  These are the steps that change the *)
(* history: an election is won, a leader appends, a follower takes         *)
(* entries.                                                                *)
(***************************************************************************)
EXTENDS RaftHistory

\* A leaf that names no prover is tried with Zenon and with the SMT solver, then
\* with both once more.
USE ZenonT(5), SMTT(60), Z3T(60), ZenonT(30)

-----------------------------------------------------------------------------
(***************************************************************************)
(* A candidate is elected: its log becomes that of the term's leader.      *)
(***************************************************************************)
LeadersHaveWon == \A s \in Server : State[s] = Leader => Won(s, CurrentTerm[s])

LEMMA LeadersWin == PlainInv => LeadersHaveWon
<1> SUFFICES ASSUME PlainInv, NEW s \in Server, State[s] = Leader
             PROVE  Won(s, CurrentTerm[s])
  BY DEF LeadersHaveWon
<1>1. ElectionInv /\ TermSaved(s)
  BY PlainParts DEF PlainInv, TenureInv, Tenure
<1>2. QED
  BY <1>1, LeaderWon

\* A majority of votes for the candidate c, of its term.
Backed(c, u, V) ==
  /\ State[c] = Candidate /\ u \in Nat /\ CurrentTerm[c] = u
  /\ V \in SUBSET Server /\ Cardinality(V) >= Majority
  /\ \A v \in V : HasVote(v, c, u)

\* Its term has no leader yet, ...
LEMMA BackedIsFirst ==
  ASSUME Counting,
         PlainInv, NEW c \in Server, NEW u, NEW V, Backed(c, u, V), NEW L, Elected(L)
  PROVE  L[u] = {}
<1> SUFFICES ASSUME L[u] # {} PROVE FALSE
  OBVIOUS
<1>1. PICK w \in Server : Won(w, u)
  BY DEF Elected, Backed
<1>2. PICK Q \in SUBSET Server : /\ Cardinality(Q) >= Majority
                                 /\ \A v \in Q : Pledged(v, w, u)
  BY <1>1 DEF Won
<1>3. PICK v \in Server : v \in Q /\ v \in V
  BY <1>2, MajoritiesMeet DEF Backed
<1>4. w = c
  BY <1>2, <1>3 DEF Pledged, Backed
<1>5. QED
  BY <1>1, <1>4 DEF Won, Backed

\* ... and it holds what may be committed.
LEMMA BackedHolds ==
  ASSUME PlainInv, NEW c \in Server, NEW u, NEW V, Backed(c, u, V), NEW L, NEW A, History(L, A),
         NEW e \in LogEntry, Alive(L, A, e), e.Term < u
  PROVE  e \in Held(c)
<1> SUFFICES ASSUME e \notin Held(c) PROVE Blocked(A, e.Index, e.Term)
  BY DEF Alive
<1>1. e.Term \in Nat /\ u \in Nat
  BY EntryFields DEF Backed
<1>2. ASSUME NEW v \in V PROVE ~Acked(A, v, e.Index, e.Term) /\ disk[v].CurrentTerm > e.Term
  <2>1. v \in Server /\ HasVote(v, c, u) /\ State[c] = Candidate /\ CurrentTerm[c] = u
    BY DEF Backed
  <2>2. ~Acked(A, v, e.Index, e.Term)
    BY <2>1 DEF History, VotesCheck
  <2>3. disk[v].CurrentTerm \in Nat
    BY <2>1, PlainParts DEF TypeOK, Persisted
  <2>4. disk[v].CurrentTerm > u \/ disk[v].CurrentTerm = u
    BY <1>1, <2>1, PlainParts DEF ElectionInv, VotesBind, Bound
  <2>5. QED
    BY <1>1, <2>2, <2>3, <2>4
<1>3. QED
  BY <1>2 DEF Blocked, Backed

\* The history with the log of the candidate as that of its term.
Crowned(L, M, c, u) ==
  /\ L[u] = {}
  /\ M \in [Nat -> SUBSET LogEntry]
  /\ M[u] = Held(c)
  /\ \A t \in Nat \ {u} : M[t] = L[t]

LEMMA CrownedGrows ==
  ASSUME NEW L, LeaderLogs(L), NEW M, NEW c, NEW u \in Nat, Crowned(L, M, c, u)
  PROVE  Grows(L, M)
<1>1. \A t \in Nat : t = u \/ M[t] = L[t]
  BY DEF Crowned
<1>2. L \in [Nat -> SUBSET LogEntry] /\ M \in [Nat -> SUBSET LogEntry]
  BY DEF LeaderLogs, Crowned
<1>3. \A t \in Nat : L[t] \subseteq M[t]
  BY <1>1 DEF Crowned
<1>4. \A t \in Nat : \A e \in M[t], f \in L[t] :
        e \in L[t] \/ (f.Index < e.Index /\ e.Term = t)
  BY <1>1 DEF Crowned
<1>5. QED
  BY <1>2, <1>3, <1>4 DEF Grows

\* No entry is new: the candidate has none of its own term.
LEMMA CrownedEntry ==
  ASSUME PlainInv, NEW c \in Server, NEW u \in Nat, NEW L, NEW A, History(L, A), NEW M,
         Crowned(L, M, c, u)
  PROVE  /\ \A e \in Held(c) : e.Index >= 1 => e.Term # u
         /\ \A e \in LogEntry : Entry(M, e) => Entry(L, e)
<1>1. /\ IsLog(Held(c)) /\ Rooted(L, Held(c), disk[c].CurrentTerm) /\ disk[c].CurrentTerm \in Nat
      /\ LeaderLogs(L)
  BY PlainParts DEF History, PeerLogs, TypeOK, Persisted
<1>2. ASSUME NEW e \in Held(c), e.Index >= 1 PROVE e.Term # u
  <2>1. e \in L[e.Term]
    BY <1>1, <1>2, RootedEntry
  <2>2. QED
    BY <2>1 DEF Crowned
<1>3. ASSUME NEW e \in LogEntry, Entry(M, e) PROVE Entry(L, e)
  <2>1. e.Term \in Nat
    BY EntryFields
  <2>2. e.Term # u
    BY <1>2, <1>3 DEF Entry, Crowned
  <2>3. QED
    BY <1>3, <2>1, <2>2 DEF Entry, Crowned
<1>4. QED
  BY <1>2, <1>3

LEMMA CrownedLogs ==
  ASSUME PlainInv, NEW c \in Server, NEW u \in Nat, NEW L, NEW A, History(L, A), NEW M,
         Crowned(L, M, c, u), disk[c].CurrentTerm = u
  PROVE  LeaderLogs(M) /\ PeerLogs(M)
<1>1. LeaderLogs(L) /\ Grows(L, M)
  BY CrownedGrows DEF History
<1>2. PeerLogs(M)
  <2> SUFFICES ASSUME NEW s \in Server
               PROVE  IsLog(Held(s)) /\ Rooted(M, Held(s), disk[s].CurrentTerm)
    BY DEF PeerLogs
  <2>1. IsLog(Held(s)) /\ Rooted(L, Held(s), disk[s].CurrentTerm) /\ disk[s].CurrentTerm \in Nat
    BY PlainParts DEF History, PeerLogs, TypeOK, Persisted
  <2>2. QED
    BY <1>1, <2>1, GrowRooted
<1>3. LeaderLogs(M)
  <2> SUFFICES ASSUME NEW t \in Nat, M[t] # {}
               PROVE  IsLog(M[t]) /\ Rooted(M, M[t], t)
    BY <1>1 DEF LeaderLogs, Grows
  <2>1. CASE t = u
    BY <1>2, <2>1 DEF PeerLogs, Crowned
  <2>2. CASE t # u
    <3>1. M[t] = L[t]
      BY <2>2 DEF Crowned
    <3>2. IsLog(L[t]) /\ Rooted(L, L[t], t)
      BY <1>1, <3>1 DEF LeaderLogs
    <3>3. QED
      BY <1>1, <3>1, <3>2, GrowRooted
  <2>3. QED
    BY <2>1, <2>2
<1>4. QED
  BY <1>2, <1>3

LEMMA ElectedHistory ==
  ASSUME Counting,
         PlainInv, PlainInv', Regular, NEW m \in net, m.type = "RequestVoteReply",
         VoteReplyGranted(m), Cardinality(votes'[m.args.from]) >= Majority,
         NEW L, NEW A, History(L, A)
  PROVE  \E M : History(M, A)'
<1>1. TypeOK /\ TypeOK' /\ TenureInv
  BY DEF PlainInv, TenureInv, MatchingInv, ElectionInv, IndInv
<1>2. PICK c \in Server : c = m.args.from /\ m.args.to \in Server
  BY <1>1, MessageTypes DEF RequestVoteReply, RequestVoteArgs
<1>3. /\ State[c] = Candidate /\ CurrentTerm[c] = m.args.Term /\ m.VoteGrabted
      /\ votes' = [votes EXCEPT ![c] = @ \cup {m.args.to}]
      /\ State' = [State EXCEPT ![c] = Leader]
      /\ MatchIndex' = [MatchIndex EXCEPT ![c] = [p \in Server |-> 0]]
      /\ Consume(m)
      /\ UNCHANGED <<CurrentTerm, Log, CommitIndex, disk, sm, applier>>
  BY <1>2 DEF VoteReplyGranted, BecomeLeader, logVars, applyVars
<1>4. PICK u \in Nat : u = CurrentTerm[c]
  BY <1>1 DEF TypeOK
<1>5. PICK V \in SUBSET Server : V = votes'[c] /\ V = votes[c] \cup {m.args.to}
  <2>1. votes \in [Server -> SUBSET Server] /\ votes' \in [Server -> SUBSET Server]
    BY <1>1 DEF TypeOK
  <2>2. votes'[c] = votes[c] \cup {m.args.to}
    BY <1>3, <2>1
  <2>3. QED
    BY <2>1, <2>2
<1>6. Backed(c, u, V)
  <2>1. \A v \in V : HasVote(v, c, u)
    BY <1>2, <1>3, <1>4, <1>5 DEF HasVote
  <2>2. Cardinality(V) >= Majority
    BY <1>2, <1>5
  <2>3. QED
    BY <1>3, <1>4, <2>1, <2>2 DEF Backed
<1>7. PICK M : M = [L EXCEPT ![u] = Held(c)]
  OBVIOUS
<1>8. Crowned(L, M, c, u)
  <2>1. L \in [Nat -> SUBSET LogEntry] /\ L[u] = {}
    BY <1>6, BackedIsFirst DEF History, LeaderLogs
  <2>2. Held(c) \subseteq LogEntry
    BY DEF History, PeerLogs, IsLog
  <2>3. QED
    BY <1>7, <2>1, <2>2 DEF Crowned
<1>9. Grows(L, M) /\ Adds(A, A) /\ A \subseteq A
  BY <1>8, CrownedGrows, AddsNot DEF History
<1>10. disk[c].CurrentTerm = u /\ u >= 1
  BY <1>1, <1>3, <1>4 DEF TenureInv, Tenure, TermSaved
<1>11. LeaderLogs(M) /\ PeerLogs(M)
  BY <1>8, <1>10, CrownedLogs
<1>12. \A s \in Server : Held(s)' = Held(s)
  BY <1>3 DEF Held
<1>13. PeerLogs(M)'
  BY <1>3, <1>11, <1>12 DEF PeerLogs
<1>14. /\ \A s \in Server \ {c} : State'[s] = State[s] /\ MatchIndex'[s] = MatchIndex[s]
       /\ State'[c] = Leader /\ MatchIndex'[c] = [p \in Server |-> 0]
  <2>1. /\ State \in [Server -> {Leader, Candidate, Follower}]
        /\ MatchIndex \in [Server -> [Server -> Nat]]
    BY <1>1 DEF TypeOK
  <2>2. /\ State' = [State EXCEPT ![c] = Leader]
        /\ MatchIndex' = [MatchIndex EXCEPT ![c] = [p \in Server |-> 0]]
    BY <1>3
  <2>3. QED
    BY <2>1, <2>2
<1>15. Leads(M)'
  <2> SUFFICES ASSUME NEW s \in Server, State'[s] = Leader
               PROVE  M[CurrentTerm'[s]] = Held(s)'
    BY DEF Leads
  <2>1. CASE s = c
    BY <1>3, <1>4, <1>8, <1>12, <2>1 DEF Crowned
  <2>2. CASE s # c
    <3>1. State[s] = Leader /\ CurrentTerm[s] \in Nat
      BY <1>1, <1>14, <2>2 DEF TypeOK
    <3>2. L[CurrentTerm[s]] = Held(s)
      BY <3>1 DEF History, Leads
    <3>3. Placeholder(0, 0) \in Held(s)
      BY DEF History, PeerLogs, IsLog
    <3>4. CurrentTerm[s] # u
      BY <1>8, <3>2, <3>3 DEF Crowned
    <3>5. QED
      BY <1>3, <1>8, <1>12, <3>1, <3>2, <3>4 DEF Crowned
  <2>3. QED
    BY <2>1, <2>2
<1>16. Elected(M)'
  <2>1. LeadersHaveWon'
    BY PlainInv', LeadersWin, PTL
  <2>2. State'[c] = Leader /\ CurrentTerm'[c] = u
    BY <1>3, <1>4, <1>14
  <2>3. Won(c, CurrentTerm[c])'
    BY <2>1, <2>2 DEF LeadersHaveWon
  <2>4. Won(c, u)'
    BY <2>2, <2>3 DEF Won
  <2>5. \A t \in Nat : M[t] # {} => L[t] # {} \/ (t >= 1 /\ \E w \in Server : Won(w, t)')
    BY <1>8, <1>10, <2>4 DEF Crowned
  <2>6. QED
    BY <1>1, <2>5, ElectedStill DEF History
<1>17. net' \subseteq net
  BY <1>3, ConsumeAdds
<1>18. CallsCarry(M, A)'
  BY <1>1, <1>9, <1>17, CallsStill
<1>19. ASSUME NEW e \in LogEntry, Alive(M, A, e)' PROVE Alive(L, A, e)
  <2>1. Entry(M, e)
    BY <1>19 DEF Alive
  <2>2. Entry(L, e)
    BY <1>8, <2>1, CrownedEntry
  <2>3. QED
    BY <1>1, <1>9, <1>19, <2>2, AliveBefore
<1>20. Lasting(M, A)'
  <2> SUFFICES ASSUME NEW e \in LogEntry, NEW t \in Nat, Alive(M, A, e)', t > e.Term, M[t] # {}
               PROVE  e \in M[t]
    BY DEF Lasting
  <2>1. Alive(L, A, e)
    BY <1>19
  <2>2. CASE t = u
    <3>1. e.Term < u
      BY <2>2, EntryFields
    <3>2. QED
      BY <1>6, <1>8, <2>1, <2>2, <3>1, BackedHolds DEF Crowned
  <2>3. CASE t # u
    BY <1>8, <2>1, <2>3 DEF Crowned, History, Lasting
  <2>4. QED
    BY <2>2, <2>3
<1>21. VotesCheck(M, A)'
  <2> SUFFICES ASSUME NEW x \in Server, NEW p \in Server, NEW e \in LogEntry,
                      State'[x] = Candidate, e.Term < CurrentTerm'[x],
                      HasVote(p, x, CurrentTerm[x])',
                      Alive(M, A, e)', e \notin Held(x)'
               PROVE  ~Acked(A, p, e.Index, e.Term)
    BY DEF VotesCheck
  <2>1. x # c
    BY <1>14 DEF Leader, Candidate
  <2>2. PICK t \in Nat : t = CurrentTerm[x] /\ t = CurrentTerm'[x]
    BY <1>1, <1>3 DEF TypeOK
  <2>3. HasVote(p, x, t)'
    BY <2>2 DEF HasVote
  <2>4. HasVote(p, x, t)
    BY <1>1, <2>3, CountCasts
  <2>5. Alive(L, A, e) /\ e \notin Held(x) /\ State[x] = Candidate
    BY <1>12, <1>14, <1>19, <2>1
  <2>6. QED
    BY <2>2, <2>4, <2>5 DEF History, VotesCheck
<1>22. Kept(M, A)'
  BY <1>12, <1>19 DEF History, Kept
<1>23. AckedSince(M, A)'
  BY <1>3, <1>9 DEF History, AckedSince, Grows
<1>24. Agrees(M, A)'
  <2> SUFFICES ASSUME NEW p \in Server, NEW i \in Nat, NEW t \in Nat, Acked(A, p, i, t),
                      disk'[p].CurrentTerm = t
               PROVE  Same(Held(p)', M[t], i)
    BY DEF Agrees
  <2>1. Same(Held(p), L[t], i)
    BY <1>3 DEF History, Agrees
  <2>2. PICK f \in L[t] : f.Index = i
    BY DEF History, AckedSince
  <2>3. i <= f.Index
    BY <2>2
  <2>4. QED
    BY <1>9, <1>12, <2>1, <2>3, GrowSame
<1>25. Confirmed(A)'
  BY <1>17, ConfirmedStill DEF History
<1>26. Counted(A)'
  <2> SUFFICES ASSUME NEW s \in Server, State'[s] = Leader
               PROVE  /\ \A p \in Server : \A i \in 1 .. MatchIndex'[s][p] :
                           Acked(A, p, i, CurrentTerm'[s])
                      /\ \A e \in Held(s)' : e.Index >= 1 /\ e.Term = CurrentTerm'[s] =>
                           Acked(A, s, e.Index, e.Term)
    BY DEF Counted
  <2>1. CASE s = c
    <3>1. \A p \in Server : MatchIndex'[c][p] = 0
      BY <1>14
    <3>2. \A e \in Held(s)' : e.Index >= 1 => e.Term # CurrentTerm'[s]
      BY <1>3, <1>4, <1>8, <1>12, <2>1, CrownedEntry
    <3>3. QED
      BY <2>1, <3>1, <3>2
  <2>2. CASE s # c
    BY <1>3, <1>12, <1>14, <2>2 DEF History, Counted
  <2>3. QED
    BY <2>1, <2>2
<1>27. PeersCommit(M, A)'
  <2>1. ASSUME NEW s \in Server
        PROVE  (CommitIndex[s] >= 1 => Commits(M, A, Held(s), CommitIndex[s], CurrentTerm[s]))'
    <3>1. CommitIndex[s] >= 1 => Commits(L, A, Held(s), CommitIndex[s], CurrentTerm[s])
      BY DEF History, PeersCommit
    <3>2. Log'[s] = Log[s] /\ CommitIndex'[s] = CommitIndex[s] /\ CurrentTerm'[s] >= CurrentTerm[s]
      BY <1>1, <1>3, TermKept
    <3>3. QED
      BY <1>1, <1>9, <3>1, <3>2, CommitStill
  <2>2. QED
    BY <2>1 DEF PeersCommit
<1>28. Delivered(M, A)'
  BY <1>3, <1>9, DeliveredStill DEF History
<1>29. QED
  BY <1>11, <1>13, <1>15, <1>16, <1>18, <1>20, <1>21, <1>22, <1>23, <1>24, <1>25, <1>26, <1>27, <1>28
  DEF History

-----------------------------------------------------------------------------
(***************************************************************************)
(* A leader appends the entry n, which it acknowledges to itself.          *)
(***************************************************************************)
Extended(L, M, A, B, s, T, n) ==
  /\ T \in Nat /\ n \in LogEntry /\ n.Term = T /\ n.Index >= 1
  /\ \A e \in L[T] : e.Index < n.Index
  /\ \A i \in Nat : i < n.Index => \E f \in L[T] : f.Index = i
  /\ L[T] # {}
  /\ M \in [Nat -> SUBSET LogEntry]
  /\ M[T] = L[T] \cup {n}
  /\ \A t \in Nat \ {T} : M[t] = L[t]
  /\ B = A \cup {<<s, n.Index, T>>}

LEMMA ExtendedGrows ==
  ASSUME NEW L, LeaderLogs(L), NEW M, NEW A, NEW B, NEW s, NEW T, NEW n,
         Extended(L, M, A, B, s, T, n)
  PROVE  Grows(L, M) /\ A \subseteq B
<1>1. \A t \in Nat : t = T \/ M[t] = L[t]
  BY DEF Extended
<1>2. L \in [Nat -> SUBSET LogEntry] /\ M \in [Nat -> SUBSET LogEntry] /\ A \subseteq B
  BY DEF LeaderLogs, Extended
<1>3. \A t \in Nat : L[t] \subseteq M[t]
  BY <1>1 DEF Extended
<1>4. ASSUME NEW t \in Nat, NEW e \in M[t], NEW f \in L[t]
      PROVE  e \in L[t] \/ (f.Index < e.Index /\ e.Term = t)
  BY <1>1 DEF Extended
<1>5. QED
  BY <1>2, <1>3, <1>4 DEF Grows

LEMMA ExtendedEntry ==
  ASSUME NEW L, LeaderLogs(L), NEW M, NEW A, NEW B, NEW s, NEW T, NEW n,
         Extended(L, M, A, B, s, T, n), NEW e \in LogEntry, Entry(M, e)
  PROVE  Entry(L, e) \/ e = n
<1>1. e.Term \in Nat
  BY EntryFields
<1>2. QED
  BY <1>1 DEF Entry, Extended

\* An acknowledgement is an earlier one or that of the new entry, and the
\* new entry has no earlier one.
LEMMA ExtendedAcks ==
  ASSUME NEW L, NEW M, NEW A, AckedSince(L, A), NEW B, NEW s, NEW T, NEW n,
         Extended(L, M, A, B, s, T, n)
  PROVE  /\ \A p \in Server, i \in Nat, t \in Nat :
              Acked(B, p, i, t) => Acked(A, p, i, t) \/ (p = s /\ i = n.Index /\ t = T)
         /\ \A p \in Server : ~Acked(A, p, n.Index, T)
<1>1. n.Index \in Nat /\ T \in Nat
  BY EntryFields DEF Extended
<1>2. \A p \in Server, i \in Nat, t \in Nat :
        Acked(B, p, i, t) => Acked(A, p, i, t) \/ (p = s /\ i = n.Index /\ t = T)
  BY DEF Acked, Extended
<1>3. ASSUME NEW p \in Server, Acked(A, p, n.Index, T) PROVE FALSE
  <2>1. PICK f \in L[T] : f.Index = n.Index
    BY <1>1, <1>3 DEF AckedSince
  <2>2. f.Index < n.Index
    BY <2>1 DEF Extended
  <2>3. QED
    BY <1>1, <2>1, <2>2
<1>4. QED
  BY <1>2, <1>3

LEMMA ExtendedSame ==
  ASSUME NEW L, NEW M, NEW A, NEW B, NEW s, NEW T, NEW n,
         Extended(L, M, A, B, s, T, n), NEW i \in Nat, i < n.Index
  PROVE  Same(M[T], L[T], i)
<1>1. n.Index \in Nat
  BY EntryFields DEF Extended
<1>2. ~(n.Index <= i)
  BY <1>1
<1>3. QED
  BY <1>2 DEF Same, Extended

LEMMA ExtendedLogs ==
  ASSUME NEW L, LeaderLogs(L), NEW M, NEW A, NEW B, NEW s, NEW T, NEW n,
         Extended(L, M, A, B, s, T, n)
  PROVE  LeaderLogs(M)
<1>1. Grows(L, M) /\ T \in Nat /\ n \in LogEntry /\ M \in [Nat -> SUBSET LogEntry]
  <2>1. T \in Nat /\ n \in LogEntry /\ M \in [Nat -> SUBSET LogEntry]
    BY DEF Extended
  <2>2. Grows(L, M)
    BY ExtendedGrows
  <2>3. QED
    BY <2>1, <2>2
<1>2. IsLog(L[T]) /\ Rooted(L, L[T], T) /\ M[T] = L[T] \cup {n}
  <2>1. L[T] # {} /\ M[T] = L[T] \cup {n}
    BY DEF Extended
  <2>2. QED
    BY <1>1, <2>1 DEF LeaderLogs
<1>3. Rooted(M, L[T], T)
  BY <1>1, <1>2, GrowRooted
<1>4. n.Index \in Nat /\ n.Term = T /\ n.Index >= 1
  BY <1>1, EntryFields DEF Extended
<1>5. \A e \in L[T] : e.Index < n.Index /\ e.Index \in Nat /\ e.Term \in Nat /\ e \in LogEntry
  <2>1. \A e \in L[T] : e.Index < n.Index
    BY DEF Extended
  <2>2. \A e \in L[T] : e \in LogEntry
    BY <1>2 DEF IsLog
  <2>3. QED
    BY <2>1, <2>2, EntryFields
<1>6. IsLog(M[T])
  <2>1. \A e, f \in M[T] : e.Index = f.Index => e = f
    <3> SUFFICES ASSUME NEW e \in M[T], NEW f \in M[T], e.Index = f.Index PROVE e = f
      OBVIOUS
    <3>1. CASE e \in L[T] /\ f \in L[T]
      BY <1>2, <3>1 DEF IsLog
    <3>2. CASE e = n /\ f \in L[T]
      BY <1>4, <1>5, <3>2
    <3>3. CASE f = n /\ e \in L[T]
      BY <1>4, <1>5, <3>3
    <3>4. QED
      BY <1>2, <3>1, <3>2, <3>3
  <2>2. ASSUME NEW e \in M[T], NEW i \in 0 .. e.Index PROVE \E f \in M[T] : f.Index = i
    <3>1. CASE e \in L[T]
      BY <1>2, <3>1 DEF IsLog
    <3>2. CASE e = n
      <4>1. i \in Nat /\ (i = n.Index \/ i < n.Index)
        BY <1>4, <3>2
      <4>2. QED
        BY <1>2, <4>1 DEF Extended
    <3>3. QED
      BY <1>2, <3>1, <3>2
  <2>3. QED
    BY <1>1, <1>2, <2>1, <2>2 DEF IsLog
<1>7. Rooted(M, M[T], T)
  <2> SUFFICES ASSUME NEW e \in M[T]
               PROVE  e.Term <= T /\ (e.Index >= 1 => Same(M[T], M[e.Term], e.Index))
    BY DEF Rooted
  <2>1. CASE e = n
    BY <1>1, <1>4, <2>1 DEF Same
  <2>2. CASE e \in L[T]
    <3>1. Same(M[T], L[T], e.Index)
      BY <1>5, <2>2, ExtendedSame
    <3>2. QED
      BY <1>3, <2>2, <3>1, SameJoined DEF Rooted
  <2>3. QED
    BY <1>2, <2>1, <2>2
<1>8. ASSUME NEW t \in Nat, M[t] # {}, t # T PROVE IsLog(M[t]) /\ Rooted(M, M[t], t)
  <2>1. M[t] = L[t]
    BY <1>8 DEF Extended
  <2>2. IsLog(L[t]) /\ Rooted(L, L[t], t)
    BY <1>8, <2>1 DEF LeaderLogs
  <2>3. QED
    BY <1>1, <2>1, <2>2, GrowRooted
<1>9. QED
  BY <1>1, <1>6, <1>7, <1>8 DEF LeaderLogs

\* Nobody who has elected a later leader acknowledges the new entry.
LEMMA ExtendedIsLate ==
  ASSUME PlainInv, NEW s \in Server, NEW L, NEW A, History(L, A), NEW M, NEW B, NEW T, NEW n,
         disk[s].CurrentTerm = T, Extended(L, M, A, B, s, T, n), NEW u \in Nat, u > T, L[u] # {}
  PROVE  Blocked(B, n.Index, n.Term)
<1>1. T \in Nat /\ n.Index \in Nat /\ n.Term = T
  BY EntryFields DEF Extended
<1>2. PICK w \in Server : Won(w, u)
  BY DEF History, Elected
<1>3. PICK Q \in SUBSET Server : /\ Cardinality(Q) >= Majority
                                 /\ \A v \in Q : Pledged(v, w, u)
  BY <1>2 DEF Won
<1>4. ASSUME NEW v \in Q PROVE ~Acked(B, v, n.Index, T) /\ disk[v].CurrentTerm > T
  <2>1. disk[v].CurrentTerm \in Nat
    BY PlainParts DEF TypeOK, Persisted
  <2>2. disk[v].CurrentTerm > u \/ disk[v].CurrentTerm = u
    BY <1>3 DEF Pledged, Bound
  <2>3. disk[v].CurrentTerm > T
    BY <1>1, <2>1, <2>2
  <2>4. v # s
    BY <1>1, <2>3
  <2>5. QED
    BY <1>1, <2>3, <2>4, ExtendedAcks DEF History
<1>5. QED
  BY <1>1, <1>3, <1>4 DEF Blocked

LEMMA StartExtends ==
  ASSUME PlainInv, NEW s \in Server, NEW command \in Command, Start(s, command),
         NEW L, NEW A, History(L, A)
  PROVE  \E M, B, T, n :
           /\ Extended(L, M, A, B, s, T, n)
           /\ T = CurrentTerm[s] /\ L[T] = Held(s)
           /\ Held(s)' = Held(s) \cup {n}
<1>1. TypeOK
  BY PlainParts
<1>2. PICK T \in Nat : T = CurrentTerm[s]
  BY <1>1 DEF TypeOK
<1>3. PICK q \in Nat : /\ q = GetLastLog(s).Index /\ q = Len(Log[s]) - 1 /\ Len(Log[s]) \in Nat
                       /\ \A e \in Held(s) : e.Index <= q
  BY HeldLast
<1>4. PICK n : n = [Command |-> command, Term |-> T, Index |-> q + 1]
  OBVIOUS
<1>5. n \in LogEntry /\ n.Term = T /\ n.Index = q + 1
  <2>1. q + 1 \in Nat /\ command \in Command \cup {NoCommand}
    BY <1>3
  <2>2. QED
    BY <1>2, <1>4, <2>1 DEF LogEntry
<1>6. L[T] = Held(s)
  BY <1>2 DEF Start, History, Leads
<1>7. PICK M, B : /\ M = [L EXCEPT ![T] = L[T] \cup {n}]
                  /\ B = A \cup {<<s, n.Index, T>>}
  OBVIOUS
<1>8. Extended(L, M, A, B, s, T, n)
  <2>1. L \in [Nat -> SUBSET LogEntry]
    BY DEF History, LeaderLogs
  <2>2. \A e \in L[T] : e.Index < n.Index /\ n.Index >= 1
    <3>1. \A e \in Held(s) : e.Index \in Nat
      BY HeldEntries, EntryFields
    <3>2. QED
      BY <1>3, <1>5, <1>6, <3>1
  <2>3. ASSUME NEW i \in Nat, i < n.Index PROVE \E f \in L[T] : f.Index = i
    <3>1. i + 1 \in 1 .. Len(Log[s]) /\ (i + 1) - 1 = i
      BY <1>3, <1>5, <2>3
    <3>2. QED
      BY <1>6, <3>1, HeldEntries
  <2>4. L[T] # {} /\ n.Index >= 1
    BY <1>3, <1>5, <1>6, HeldLast
  <2>5. /\ M \in [Nat -> SUBSET LogEntry] /\ M[T] = L[T] \cup {n}
        /\ \A t \in Nat \ {T} : M[t] = L[t]
    BY <1>5, <1>7, <2>1
  <2>6. QED
    BY <1>5, <1>7, <2>2, <2>3, <2>4, <2>5 DEF Extended
<1>9. Held(s)' = Held(s) \cup {n}
  <2>1. Log'[s] = Append(Log[s], n)
    BY <1>1, <1>2, <1>3, <1>4 DEF Start, TypeOK
  <2>2. Log[s] \in Seq(LogEntry) /\ Len(Log[s]) \in Nat
    BY HeldEntries
  <2>3. /\ Len(Log'[s]) = Len(Log[s]) + 1
        /\ \A k \in 1 .. Len(Log[s]) : Log'[s][k] = Log[s][k]
        /\ Log'[s][Len(Log[s]) + 1] = n
    BY <1>5, <2>1, <2>2, SeqAppend
  <2>4. PICK z \in Nat : z = Len(Log[s])
    BY <2>2
  <2>5. 1 .. (z + 1) = (1 .. z) \cup {z + 1}
    BY <2>4
  <2>6. Held(s)' = {Log'[s][k] : k \in 1 .. (z + 1)}
    BY <2>3, <2>4 DEF Held
  <2>7. Held(s) = {Log[s][k] : k \in 1 .. z}
    BY <2>4 DEF Held
  <2>8. ASSUME NEW x \in Held(s)' PROVE x \in Held(s) \cup {n}
    <3>1. PICK k \in (1 .. z) \cup {z + 1} : x = Log'[s][k]
      BY <2>5, <2>6
    <3>2. QED
      BY <2>3, <2>4, <2>7, <3>1
  <2>9. ASSUME NEW x \in Held(s) \cup {n} PROVE x \in Held(s)'
    <3>1. \E k \in (1 .. z) \cup {z + 1} : x = Log'[s][k]
      BY <2>3, <2>4, <2>7
    <3>2. QED
      BY <2>5, <2>6, <3>1
  <2>10. QED
    BY <2>8, <2>9
<1>10. QED
  BY <1>2, <1>6, <1>8, <1>9

LEMMA StartHistory ==
  ASSUME Counting,
         PlainInv, PlainInv', Regular, NEW s \in Server, NEW command \in Command,
         Start(s, command), NEW L, NEW A, History(L, A)
  PROVE  \E M, B : History(M, B)'
<1>1. TypeOK /\ TypeOK' /\ TenureInv /\ ElectionInv
  BY DEF PlainInv, TenureInv, MatchingInv, ElectionInv, IndInv
<1>2. PICK M, B, T, n : /\ Extended(L, M, A, B, s, T, n)
                        /\ T = CurrentTerm[s] /\ L[T] = Held(s)
                        /\ Held(s)' = Held(s) \cup {n}
  BY StartExtends
<1>3. /\ State[s] = Leader /\ persist(s)
      /\ UNCHANGED <<CurrentTerm, State, votes, net, MatchIndex, CommitIndex, sm, applier>>
      /\ \A p \in Server \ {s} : Log'[p] = Log[p]
  BY <1>1 DEF Start, electionVars, leaderVars, applyVars, TypeOK
<1>4. /\ T \in Nat /\ n \in LogEntry /\ n.Term = T /\ n.Index \in Nat /\ n.Index >= 1
      /\ M[T] = L[T] \cup {n} /\ \A t \in Nat \ {T} : M[t] = L[t]
  BY <1>2, EntryFields DEF Extended
<1>5. LeaderLogs(L) /\ LeaderLogs(M) /\ Grows(L, M) /\ A \subseteq B
  BY <1>2, ExtendedLogs, ExtendedGrows DEF History
<1>6. disk[s].CurrentTerm = T
  BY <1>1, <1>2, <1>3 DEF TenureInv, Tenure, TermSaved
<1>7. \A p \in Server : disk'[p].CurrentTerm = disk[p].CurrentTerm /\ disk[p].CurrentTerm \in Nat
  <2>1. \A p \in Server : disk[p].CurrentTerm \in Nat
    BY <1>1 DEF TypeOK, Persisted
  <2>2. \A p \in Server \ {s} : disk'[p] = disk[p]
    BY <1>1, <1>3 DEF persist, Save, TypeOK
  <2>3. disk'[s].CurrentTerm = CurrentTerm'[s] \/ disk'[s] = disk[s]
    BY <1>1, <1>3, persistSaves, SavedDisk
  <2>4. QED
    BY <1>2, <1>3, <1>6, <2>1, <2>2, <2>3
<1>8. \A p \in Server \ {s} : Held(p)' = Held(p)
  BY <1>3 DEF Held
<1>9. Held(s)' = M[T]
  BY <1>2, <1>4
<1>10. /\ \A p \in Server, i \in Nat, t \in Nat :
            Acked(B, p, i, t) => Acked(A, p, i, t) \/ (p = s /\ i = n.Index /\ t = T)
       /\ \A p \in Server : ~Acked(A, p, n.Index, T)
       /\ Acked(B, s, n.Index, T)
  <2>1. Acked(B, s, n.Index, T)
    BY <1>2 DEF Extended, Acked
  <2>2. QED
    BY <1>2, <2>1, ExtendedAcks DEF History
<1>11. Adds(A, B)
  BY <1>2, <1>4, <1>5, <1>10 DEF Adds
<1>12. ASSUME NEW e \in LogEntry, Alive(M, B, e)', e # n PROVE Alive(L, A, e)
  <2>1. Entry(M, e)
    BY <1>12 DEF Alive
  <2>2. Entry(L, e)
    BY <1>2, <1>5, <1>12, <2>1, ExtendedEntry
  <2>3. QED
    BY <1>1, <1>11, <1>12, <2>2, AliveBefore
\* Of an entry that is not the new one there are no new acknowledgements.
<1>13. ASSUME NEW e \in LogEntry, Entry(M, e), e # n, NEW p \in Server,
              Acked(B, p, e.Index, e.Term)
       PROVE  Acked(A, p, e.Index, e.Term)
  <2>1. e.Index \in Nat /\ e.Term \in Nat
    BY EntryFields
  <2>2. CASE e.Index = n.Index /\ e.Term = T
    <3>1. e \in M[T] /\ n \in M[T] /\ IsLog(M[T])
      BY <1>4, <1>5, <1>13, <2>2 DEF Entry, LeaderLogs
    <3>2. QED
      BY <1>13, <2>2, <3>1 DEF IsLog
  <2>3. QED
    BY <1>10, <1>13, <2>1, <2>2
<1>14. PeerLogs(M)'
  <2> SUFFICES ASSUME NEW p \in Server
               PROVE  IsLog(Held(p)') /\ Rooted(M, Held(p)', disk'[p].CurrentTerm)
    BY DEF PeerLogs
  <2>1. CASE p = s
    BY <1>4, <1>5, <1>6, <1>7, <1>9, <2>1 DEF LeaderLogs
  <2>2. CASE p # s
    <3>1. IsLog(Held(p)) /\ Rooted(L, Held(p), disk[p].CurrentTerm)
      BY DEF History, PeerLogs
    <3>2. Rooted(M, Held(p), disk[p].CurrentTerm)
      BY <1>5, <1>7, <3>1, GrowRooted
    <3>3. QED
      BY <1>7, <1>8, <2>2, <3>1, <3>2
  <2>3. QED
    BY <2>1, <2>2
<1>15. Leads(M)'
  <2> SUFFICES ASSUME NEW p \in Server, State'[p] = Leader
               PROVE  M[CurrentTerm'[p]] = Held(p)'
    BY DEF Leads
  <2>1. CASE p = s
    BY <1>2, <1>3, <1>9, <2>1
  <2>2. CASE p # s
    <3>1. State[p] = Leader /\ CurrentTerm[p] \in Nat /\ L[CurrentTerm[p]] = Held(p)
      BY <1>1, <1>3 DEF TypeOK, History, Leads
    <3>2. Won(p, CurrentTerm[p])
      BY <3>1, LeadersWin DEF LeadersHaveWon
    <3>3. CurrentTerm[p] # T
      BY <1>1, <1>2, <1>3, <2>2, <3>2, LeaderOnlyWon
    <3>4. QED
      BY <1>3, <1>4, <1>8, <2>2, <3>1, <3>3
  <2>3. QED
    BY <2>1, <2>2
<1>16. Elected(M)'
  <2>1. \A t \in Nat : M[t] # {} => L[t] # {}
    BY <1>2, <1>4 DEF Extended
  <2>2. QED
    BY <1>1, <2>1, ElectedStill DEF History
<1>17. CallsCarry(M, B)'
  BY <1>1, <1>3, <1>5, CallsStill
<1>18. Lasting(M, B)'
  <2> SUFFICES ASSUME NEW e \in LogEntry, NEW u \in Nat, Alive(M, B, e)', u > e.Term, M[u] # {}
               PROVE  e \in M[u]
    BY DEF Lasting
  <2>1. CASE e # n
    <3>1. Alive(L, A, e) /\ L[u] # {}
      BY <1>2, <1>4, <1>12, <2>1 DEF Extended
    <3>2. e \in L[u]
      BY <3>1 DEF History, Lasting
    <3>3. QED
      BY <1>5, <3>2 DEF Grows
  <2>2. CASE e = n
    <3>1. u > T /\ u # T
      BY <1>4, <2>2
    <3>2. L[u] # {}
      BY <1>4, <3>1
    <3>3. Blocked(B, n.Index, n.Term)
      BY <1>2, <1>6, <3>1, <3>2, ExtendedIsLate
    <3>4. Blocked(B, n.Index, n.Term)'
      BY <1>7, <3>3 DEF Blocked, Majority, Acked
    <3>5. QED
      BY <2>2, <3>4 DEF Alive
  <2>3. QED
    BY <2>1, <2>2
<1>19. VotesCheck(M, B)'
  <2> SUFFICES ASSUME NEW c \in Server, NEW p \in Server, NEW e \in LogEntry,
                      State'[c] = Candidate, e.Term < CurrentTerm'[c],
                      HasVote(p, c, CurrentTerm[c])',
                      Alive(M, B, e)', e \notin Held(c)', Acked(B, p, e.Index, e.Term)
               PROVE  FALSE
    BY DEF VotesCheck
  <2>1. State[c] = Candidate /\ CurrentTerm'[c] = CurrentTerm[c] /\ CurrentTerm[c] \in Nat /\ c # s
    BY <1>1, <1>3 DEF TypeOK, Leader, Candidate
  <2>2. HasVote(p, c, CurrentTerm[c])
    BY <1>3 DEF HasVote
  <2>3. CASE e # n
    <3>1. Alive(L, A, e) /\ Entry(M, e)
      BY <1>12, <2>3 DEF Alive
    <3>2. Acked(A, p, e.Index, e.Term) /\ e \notin Held(c)
      BY <1>8, <1>13, <2>1, <2>3, <3>1
    <3>3. QED
      BY <2>1, <2>2, <3>1, <3>2 DEF History, VotesCheck
  <2>4. CASE e = n
    <3>1. p = s
      BY <1>4, <1>10, <2>4
    <3>2. CurrentTerm[s] > CurrentTerm[c] \/ CurrentTerm[s] = CurrentTerm[c]
      BY <1>1, <2>1, <2>2, <3>1 DEF ElectionInv, VotesBind, Bound
    <3>3. QED
      BY <1>2, <1>4, <2>1, <2>4, <3>2
  <2>5. QED
    BY <2>3, <2>4
<1>20. Kept(M, B)'
  <2> SUFFICES ASSUME NEW p \in Server, NEW e \in LogEntry, Alive(M, B, e)',
                      Acked(B, p, e.Index, e.Term)
               PROVE  e \in Held(p)'
    BY DEF Kept
  <2>1. CASE e # n
    <3>1. Alive(L, A, e) /\ Entry(M, e)
      BY <1>12, <2>1 DEF Alive
    <3>2. Acked(A, p, e.Index, e.Term)
      BY <1>13, <2>1, <3>1
    <3>3. e \in Held(p)
      BY <3>1, <3>2 DEF History, Kept
    <3>4. QED
      BY <1>2, <1>8, <3>3
  <2>2. CASE e = n
    BY <1>2, <1>4, <1>10, <2>2
  <2>3. QED
    BY <2>1, <2>2
<1>21. AckedSince(M, B)'
  <2> SUFFICES ASSUME NEW p \in Server, NEW i \in Nat, NEW t \in Nat, Acked(B, p, i, t)
               PROVE  disk'[p].CurrentTerm >= t /\ \E f \in M[t] : f.Index = i
    BY DEF AckedSince
  <2>1. CASE Acked(A, p, i, t)
    BY <1>5, <1>7, <2>1 DEF History, AckedSince, Grows
  <2>2. CASE p = s /\ i = n.Index /\ t = T
    BY <1>4, <1>6, <1>7, <2>2
  <2>3. QED
    BY <1>10, <2>1, <2>2
<1>22. Agrees(M, B)'
  <2> SUFFICES ASSUME NEW p \in Server, NEW i \in Nat, NEW t \in Nat, Acked(B, p, i, t),
                      disk'[p].CurrentTerm = t
               PROVE  Same(Held(p)', M[t], i)
    BY DEF Agrees
  <2>1. CASE p = s
    <3>1. Held(p)' = M[t]
      BY <1>6, <1>7, <1>9, <2>1
    <3>2. QED
      BY <3>1 DEF Same
  <2>2. CASE p # s
    <3>1. Acked(A, p, i, t)
      BY <1>10, <2>2
    <3>2. Same(Held(p), L[t], i)
      BY <1>7, <3>1 DEF History, Agrees
    <3>3. PICK f \in L[t] : f.Index = i
      BY <3>1 DEF History, AckedSince
    <3>4. i <= f.Index
      BY <3>3
    <3>5. QED
      BY <1>5, <1>8, <2>2, <3>2, <3>4, GrowSame
  <2>3. QED
    BY <2>1, <2>2
<1>23. Confirmed(B)'
  BY <1>3, <1>5, ConfirmedStill DEF History
<1>24. Counted(B)'
  <2> SUFFICES ASSUME NEW p \in Server, State'[p] = Leader
               PROVE  /\ \A q \in Server : \A i \in 1 .. MatchIndex'[p][q] :
                           Acked(B, q, i, CurrentTerm'[p])
                      /\ \A e \in Held(p)' : e.Index >= 1 /\ e.Term = CurrentTerm'[p] =>
                           Acked(B, p, e.Index, e.Term)
    BY DEF Counted
  <2>1. \A q, i, t : Acked(A, q, i, t) => Acked(B, q, i, t)
    BY <1>5 DEF Acked
  <2>2. State[p] = Leader /\ CurrentTerm'[p] = CurrentTerm[p] /\ MatchIndex'[p] = MatchIndex[p]
    BY <1>3
  <2>3. \A q \in Server : \A i \in 1 .. MatchIndex'[p][q] : Acked(B, q, i, CurrentTerm'[p])
    BY <2>1, <2>2 DEF History, Counted
  <2>4. ASSUME NEW e \in Held(p)', e.Index >= 1, e.Term = CurrentTerm'[p]
        PROVE  Acked(B, p, e.Index, e.Term)
    <3>1. CASE e \in Held(p)
      BY <2>1, <2>2, <2>4, <3>1 DEF History, Counted
    <3>2. CASE e = n /\ p = s
      BY <1>4, <1>10, <3>2
    <3>3. QED
      BY <1>2, <1>8, <3>1, <3>2
  <2>5. QED
    BY <2>3, <2>4
<1>25. PeersCommit(M, B)'
  <2>1. ASSUME NEW p \in Server
        PROVE  (CommitIndex[p] >= 1 => Commits(M, B, Held(p), CommitIndex[p], CurrentTerm[p]))'
    <3>1. CommitIndex[p] >= 1 => Commits(L, A, Held(p), CommitIndex[p], CurrentTerm[p])
      BY DEF History, PeersCommit
    <3>2. CASE p # s
      <4>1. Log'[p] = Log[p] /\ CommitIndex'[p] = CommitIndex[p] /\ CurrentTerm'[p] >= CurrentTerm[p]
        BY <1>1, <1>3, <3>2, TermKept
      <4>2. QED
        BY <1>1, <1>5, <3>1, <4>1, CommitStill
    <3>3. CASE p = s
      <4> SUFFICES ASSUME CommitIndex'[s] >= 1
                   PROVE  Commits(M, B, Held(s), CommitIndex[s], CurrentTerm[s])'
        BY <3>3
      <4>1. PICK i \in Nat : i = CommitIndex[s] /\ i = CommitIndex'[s] /\ i >= 1
        BY <1>1, <1>3 DEF TypeOK
      <4>2. Commits(L, A, Held(s), i, T)
        BY <1>2, <3>1, <3>3, <4>1
      <4>3. T <= T /\ L[T] # {}
        BY <1>2, <1>4 DEF Extended
      <4>4. PICK f \in L[T] : f.Index = i
        <5>1. T \in Nat /\ LeaderLogs(L) /\ Lasting(L, A)
          BY <1>4, <1>5 DEF History
        <5>2. QED
          BY <4>2, <4>3, <5>1, CommitsReach
      <4>5. i < n.Index
        BY <1>2, <4>4 DEF Extended
      <4>6. Same(M[T], L[T], i)
        BY <1>2, <4>5, ExtendedSame
      <4>7. Commits(M, B, Held(s), i, T)
        BY <1>4, <1>5, <4>2, <4>3, GrowCommits
      <4>8. Commits(M, B, M[T], i, T)
        BY <1>2, <4>6, <4>7, CommitsMoved
      <4>9. CurrentTerm'[s] = T
        BY <1>2, <1>3
      <4>10. Commits(M, B, Held(s)', CommitIndex'[s], CurrentTerm'[s])
        BY <1>9, <4>1, <4>8, <4>9
      <4>11. QED
        BY <4>10 DEF Commits, Entry, Chosen, Majority, Acked, Same, LogEntry
    <3>4. QED
      BY <3>2, <3>3
  <2>2. QED
    BY <2>1 DEF PeersCommit
<1>26. Delivered(M, B)'
  BY <1>3, <1>5, DeliveredStill DEF History
<1>27. QED
  BY <1>5, <1>14, <1>15, <1>16, <1>17, <1>18, <1>19, <1>20, <1>21, <1>22, <1>23, <1>24, <1>25, <1>26
  DEF History

LEMMA MergedIsLog ==
  ASSUME NEW L, LeaderLogs(L), NEW S, IsLog(S), NEW t \in Nat, Rooted(L, S, t),
         NEW R, IsLog(R), NEW u \in Nat, Rooted(L, R, u), t <= u,
         NEW N, NEW E \in Nat, Merged(S, N, R, E)
  PROVE  IsLog(N) /\ Rooted(L, N, u)
<1>1. CASE N = S
  <2>1. \A e \in S : e.Term \in Nat
    BY EntryFields DEF IsLog
  <2>2. \A e \in S : e.Term <= t
    BY DEF Rooted
  <2>3. \A e \in S : e.Term <= u
    BY <2>1, <2>2
  <2>4. Rooted(L, S, u)
    BY <2>3 DEF Rooted
  <2>5. QED
    BY <1>1, <2>4
<1>2. CASE N = {e \in R : e.Index <= E}
  <2>1. \A e \in R : e \in LogEntry /\ e.Index \in Nat
    BY EntryFields DEF IsLog
  <2>2. \A e \in N : e \in R /\ e.Index <= E
    BY <1>2
  <2>3. IsLog(N)
    <3>1. N \subseteq LogEntry /\ \A e, f \in N : e.Index = f.Index => e = f
      BY <2>2 DEF IsLog
    <3>2. Placeholder(0, 0) \in R /\ Placeholder(0, 0).Index = 0
      BY DEF IsLog, Placeholder
    <3>3. Placeholder(0, 0) \in N
      BY <1>2, <3>2
    <3>4. ASSUME NEW e \in N, NEW i \in 0 .. e.Index PROVE \E f \in N : f.Index = i
      <4>1. PICK f \in R : f.Index = i
        BY <2>2 DEF IsLog
      <4>2. f.Index <= E
        BY <2>1, <2>2, <4>1
      <4>3. QED
        BY <1>2, <4>1, <4>2
    <3>5. QED
      BY <3>1, <3>3, <3>4 DEF IsLog
  <2>4. ASSUME NEW e \in N PROVE e.Term <= u /\ (e.Index >= 1 => Same(N, L[e.Term], e.Index))
    <3>1. e \in R /\ e.Index \in Nat /\ e.Index <= E
      BY <2>1, <2>2
    <3>2. Same(N, R, e.Index)
      BY <3>1, SameLess DEF Merged
    <3>3. QED
      BY <3>1, <3>2, SameJoined DEF Rooted
  <2>5. QED
    BY <2>3, <2>4 DEF Rooted
<1>3. QED
  BY <1>1, <1>2 DEF Merged

\* A peer that is at index i in agreement with what was chosen by its term
\* stays so.
LEMMA AcceptKeepsCommit ==
  ASSUME Counting,
         NEW L, NEW A, LeaderLogs(L), Lasting(L, A), NEW S, NEW N, NEW T \in Nat, L[T] # {},
         NEW E \in Nat, Merged(S, N, L[T], E), NEW i \in Nat, NEW t \in Nat, t <= T,
         Commits(L, A, S, i, t)
  PROVE  Commits(L, A, N, i, t)
<1>1. Same(S, L[T], i) /\ Commits(L, A, L[T], i, t)
  BY CommitsLast
<1>2. Same(N, L[T], i)
  BY <1>1 DEF Merged
<1>3. QED
  BY <1>1, <1>2, CommitsMoved

LEMMA AcceptHistory ==
  ASSUME Counting,
         PlainInv, PlainInv', Regular, NEW m \in net, m.type = "AppendEntries",
         AppendEntriesAccept(m), NEW L, NEW A, History(L, A)
  PROVE  \E B : History(L, B)'
<1>1. TypeOK /\ TypeOK' /\ TenureInv /\ ElectionInv /\ IndInv /\ m \in AppendEntriesArgs
  <2>1. TypeOK /\ TypeOK' /\ TenureInv /\ ElectionInv /\ IndInv
    BY DEF PlainInv, TenureInv, MatchingInv, ElectionInv, IndInv
  <2>2. QED
    BY <2>1, MessageTypes
<1>2. PICK p \in Server, T \in Nat, E \in Nat : p = m.to /\ T = m.Term /\ E = End(m)
  BY <1>1, EntriesArgs
<1>3. PICK r : r = EntriesReply(m, m.Term, Accepted) /\ r.type = "AppendEntriesReply" /\ r.args = m
  <2>1. /\ EntriesReply(m, m.Term, Accepted).type = "AppendEntriesReply"
        /\ EntriesReply(m, m.Term, Accepted).args = m
    BY DEF EntriesReply
  <2>2. QED
    BY <2>1
<1>4. /\ T >= CurrentTerm[p]
      /\ CurrentTerm' = [CurrentTerm EXCEPT ![p] = T]
      /\ State' = [State EXCEPT ![p] = Follower]
      /\ checkLogConsistency(p, m).Success
      /\ Log' = [Log EXCEPT ![p] = MergedLog(p, m.Entries)]
      /\ persist(p) /\ Respond(m, r)
      /\ UNCHANGED <<MatchIndex, sm, applier>>
  BY <1>2, <1>3 DEF AppendEntriesAccept, FollowTerm, leaderVars, applyVars
<1>5. net' \subseteq net \cup {r}
  BY <1>4, RespondAdds
<1>6. /\ CurrentTerm'[p] = T /\ State'[p] = Follower /\ Log'[p] = MergedLog(p, m.Entries)
      /\ CurrentTerm[p] \in Nat
  BY <1>1, <1>4 DEF TypeOK
<1>7. \A q \in Server \ {p} : /\ CurrentTerm'[q] = CurrentTerm[q] /\ State'[q] = State[q]
                              /\ Log'[q] = Log[q]
  BY <1>1, <1>4 DEF TypeOK
<1>8. \A q \in Server : /\ disk[q].CurrentTerm \in Nat /\ disk'[q].CurrentTerm \in Nat
                        /\ disk'[q].CurrentTerm >= disk[q].CurrentTerm
  BY <1>1, DiskGrows
<1>9. disk[p].CurrentTerm <= T /\ disk'[p].CurrentTerm = T
  <2>1. disk[p].CurrentTerm <= CurrentTerm[p]
    BY <1>1 DEF TenureInv, Tenure, TermSaved
  <2>2. disk[p].CurrentTerm <= T
    BY <1>4, <1>6, <1>8, <2>1
  <2>3. PICK d : disk' = [disk EXCEPT ![p] = EncodeRaftState(p, d)]
    BY <1>4 DEF persist, Save
  <2>4. disk'[p] = EncodeRaftState(p, d)
    BY <1>1, <2>3 DEF TypeOK
  <2>5. disk'[p].CurrentTerm = CurrentTerm'[p]
    BY <2>4 DEF EncodeRaftState
  <2>6. QED
    BY <1>6, <2>2, <2>5
<1>10. PICK R : R = L[T]
  OBVIOUS
<1>11. Bears(L, A, m) /\ LeaderLogs(L) /\ Lasting(L, A)
  BY DEF History, CallsCarry
<1>12. R # {} /\ IsLog(R) /\ Rooted(L, R, T)
  BY <1>2, <1>10, <1>11 DEF Bears, Carries, LeaderLogs
<1>13. Merged(Held(p), Held(p)', R, E)
  BY <1>1, <1>2, <1>4, <1>6, <1>10, AcceptMerges
<1>14. IsLog(Held(p)) /\ Rooted(L, Held(p), disk[p].CurrentTerm)
  BY DEF History, PeerLogs
<1>15. \A q \in Server \ {p} : Held(q)' = Held(q)
  BY <1>7 DEF Held
<1>16. PICK B : B = A \cup {<<p, i, T>> : i \in 1 .. E}
  OBVIOUS
<1>17. /\ A \subseteq B
       /\ \A i \in 1 .. E : Acked(B, p, i, T)
       /\ \A q, i, t : Acked(B, q, i, t) => Acked(A, q, i, t) \/ (q = p /\ t = T /\ i \in 1 .. E)
  BY <1>16 DEF Acked
<1>18. Adds(A, B) /\ Grows(L, L)
  <2>1. Grows(L, L)
    BY <1>11, GrowsNot
  <2>2. Adds(A, B)
    BY <1>4, <1>17 DEF Adds
  <2>3. QED
    BY <2>1, <2>2
<1>19. ASSUME NEW e \in LogEntry, Alive(L, B, e)' PROVE Alive(L, A, e)
  <2>1. Entry(L, e)
    BY <1>19 DEF Alive
  <2>2. QED
    BY <1>1, <1>18, <1>19, <2>1, AliveBefore
<1>20. Quiet
  BY <1>1, AppendEntriesQuiet
<1>21. PeerLogs(L)'
  <2> SUFFICES ASSUME NEW q \in Server
               PROVE  IsLog(Held(q)') /\ Rooted(L, Held(q)', disk'[q].CurrentTerm)
    BY DEF PeerLogs
  <2>1. CASE q = p
    <3>1. IsLog(Held(p)') /\ Rooted(L, Held(p)', T)
      BY <1>8, <1>9, <1>11, <1>12, <1>13, <1>14, MergedIsLog
    <3>2. QED
      BY <1>9, <2>1, <3>1
  <2>2. CASE q # p
    <3>1. IsLog(Held(q)) /\ Rooted(L, Held(q), disk[q].CurrentTerm)
      BY DEF History, PeerLogs
    <3>2. \A e \in Held(q) : e.Term \in Nat /\ e.Term <= disk[q].CurrentTerm
      BY <3>1, EntryFields DEF IsLog, Rooted
    <3>3. \A e \in Held(q) : e.Term <= disk'[q].CurrentTerm
      BY <1>8, <3>2
    <3>4. Rooted(L, Held(q), disk'[q].CurrentTerm)
      BY <3>1, <3>3 DEF Rooted
    <3>5. QED
      BY <1>15, <2>2, <3>1, <3>4
  <2>3. QED
    BY <2>1, <2>2
<1>22. Leads(L)'
  <2> SUFFICES ASSUME NEW q \in Server, State'[q] = Leader PROVE L[CurrentTerm'[q]] = Held(q)'
    BY DEF Leads
  <2>1. q # p
    BY <1>6 DEF Leader, Follower
  <2>2. QED
    BY <1>7, <1>15, <2>1 DEF History, Leads
<1>23. Elected(L)'
  BY <1>1, ElectedStill DEF History
<1>24. CallsCarry(L, B)'
  BY <1>1, <1>3, <1>5, <1>17, <1>18, CallsStill
<1>25. Lasting(L, B)'
  BY <1>11, <1>19 DEF Lasting
<1>26. VotesCheck(L, B)'
  <2> SUFFICES ASSUME NEW c \in Server, NEW q \in Server, NEW e \in LogEntry,
                      State'[c] = Candidate, e.Term < CurrentTerm'[c],
                      HasVote(q, c, CurrentTerm[c])',
                      Alive(L, B, e)', e \notin Held(c)', Acked(B, q, e.Index, e.Term)
               PROVE  FALSE
    BY DEF VotesCheck
  <2>1. c # p
    BY <1>6 DEF Candidate, Follower
  <2>2. PICK t \in Nat : t = CurrentTerm[c] /\ t = CurrentTerm'[c] /\ State[c] = Candidate
    BY <1>1, <1>7, <2>1 DEF TypeOK
  <2>3. HasVote(q, c, t)'
    BY <2>2 DEF HasVote
  <2>4. HasVote(q, c, t)
    BY <1>20, <2>3 DEF HasVote, Quiet, Granted, Stays
  <2>5. Alive(L, A, e) /\ e \notin Held(c)
    BY <1>15, <1>19, <2>1
  <2>6. ~Acked(A, q, e.Index, e.Term)
    BY <2>2, <2>4, <2>5 DEF History, VotesCheck
  <2>7. q = p /\ e.Term = T
    BY <1>17, <2>6
  <2>8. CurrentTerm[p] > t \/ CurrentTerm[p] = t
    BY <1>1, <2>4, <2>7 DEF ElectionInv, VotesBind, Bound
  <2>9. QED
    BY <1>4, <1>6, <2>2, <2>7, <2>8
<1>27. Kept(L, B)'
  <2> SUFFICES ASSUME NEW q \in Server, NEW e \in LogEntry, Alive(L, B, e)',
                      Acked(B, q, e.Index, e.Term)
               PROVE  e \in Held(q)'
    BY DEF Kept
  <2>1. Alive(L, A, e) /\ Entry(L, e)
    BY <1>19 DEF Alive
  <2>2. PICK i \in Nat, t \in Nat : i = e.Index /\ t = e.Term
    BY EntryFields
  <2>3. CASE Acked(A, q, i, t) /\ q # p
    BY <1>15, <2>1, <2>2, <2>3 DEF History, Kept
  <2>4. CASE Acked(A, p, i, t) /\ q = p
    <3>1. e \in Held(p)
      BY <2>1, <2>2, <2>4 DEF History, Kept
    <3>2. disk[p].CurrentTerm >= t
      BY <2>4 DEF History, AckedSince
    <3>3. t <= T
      BY <1>8, <1>9, <3>2
    <3>4. e \in R
      <4>1. CASE t = T
        BY <1>10, <2>1, <2>2, <4>1 DEF Entry
      <4>2. CASE t < T
        BY <1>10, <1>11, <1>12, <2>1, <2>2, <4>2 DEF Lasting
      <4>3. QED
        BY <3>3, <4>1, <4>2
    <3>5. Same(Held(p), R, i)
      BY <1>8, <1>11, <1>12, <1>14, <2>2, <3>1, <3>4, LogsMeet
    <3>6. Same(Held(p)', R, i)
      BY <1>13, <3>5 DEF Merged
    <3>7. QED
      BY <2>2, <2>4, <3>4, <3>6 DEF Same
  <2>5. CASE q = p /\ t = T /\ i \in 1 .. E
    <3>1. e \in R
      BY <1>10, <2>1, <2>2, <2>5 DEF Entry
    <3>2. Same(Held(p)', R, E)
      BY <1>13 DEF Merged
    <3>3. QED
      BY <2>2, <2>5, <3>1, <3>2 DEF Same
  <2>6. QED
    BY <1>17, <2>2, <2>3, <2>4, <2>5
<1>28. \A i \in 1 .. E : \E f \in R : f.Index = i
  <2>1. PICK f \in Held(p)' : f.Index = E
    BY <1>13 DEF Merged
  <2>2. f \in LogEntry
    BY <1>8, <1>9, <1>11, <1>12, <1>13, <1>14, MergedIsLog DEF IsLog
  <2>3. f \in R
    BY <1>13, <2>1, <2>2 DEF Merged, Same
  <2>4. \A i \in 0 .. f.Index : \E g \in R : g.Index = i
    BY <1>12, <2>3 DEF IsLog
  <2>5. QED
    BY <2>1, <2>4
<1>29. AckedSince(L, B)'
  <2> SUFFICES ASSUME NEW q \in Server, NEW i \in Nat, NEW t \in Nat, Acked(B, q, i, t)
               PROVE  disk'[q].CurrentTerm >= t /\ \E f \in L[t] : f.Index = i
    BY DEF AckedSince
  <2>1. CASE Acked(A, q, i, t)
    <3>1. disk[q].CurrentTerm >= t /\ \E f \in L[t] : f.Index = i
      BY <2>1 DEF History, AckedSince
    <3>2. QED
      BY <1>8, <3>1
  <2>2. CASE q = p /\ t = T /\ i \in 1 .. E
    BY <1>9, <1>10, <1>28, <2>2
  <2>3. QED
    BY <1>17, <2>1, <2>2
<1>30. Agrees(L, B)'
  <2> SUFFICES ASSUME NEW q \in Server, NEW i \in Nat, NEW t \in Nat, Acked(B, q, i, t),
                      disk'[q].CurrentTerm = t
               PROVE  Same(Held(q)', L[t], i)
    BY DEF Agrees
  <2>1. CASE q = p /\ t = T /\ i \in 1 .. E
    <3>1. Same(Held(p)', R, E)
      BY <1>13 DEF Merged
    <3>2. Same(Held(p)', R, i)
      BY <2>1, <3>1, SameLess
    <3>3. QED
      BY <1>10, <2>1, <3>2
  <2>2. CASE Acked(A, q, i, t)
    <3>1. disk[q].CurrentTerm >= t
      BY <2>2 DEF History, AckedSince
    <3>2. disk[q].CurrentTerm = t
      BY <1>8, <3>1
    <3>3. Same(Held(q), L[t], i)
      BY <2>2, <3>2 DEF History, Agrees
    <3>4. CASE q # p
      BY <1>15, <3>3, <3>4
    <3>5. CASE q = p
      <4>1. t = T
        BY <1>9, <3>5
      <4>2. Same(Held(p), R, i)
        BY <1>10, <3>3, <3>5, <4>1
      <4>3. Same(Held(p)', R, i)
        BY <1>13, <4>2 DEF Merged
      <4>4. QED
        BY <1>10, <3>5, <4>1, <4>3
    <3>6. QED
      BY <3>4, <3>5
  <2>3. QED
    BY <1>17, <2>1, <2>2
<1>31. Confirmed(B)'
  <2>1. Confirmed(A)
    BY DEF History
  <2>2. \A i \in 1 .. End(r.args) : Acked(B, r.args.to, i, r.args.Term)
    BY <1>2, <1>3, <1>17
  <2>3. QED
    BY <1>5, <1>17, <2>1, <2>2, ConfirmedStill
<1>32. Counted(B)'
  <2> SUFFICES ASSUME NEW s \in Server, State'[s] = Leader
               PROVE  /\ \A q \in Server : \A i \in 1 .. MatchIndex'[s][q] :
                           Acked(B, q, i, CurrentTerm'[s])
                      /\ \A e \in Held(s)' : e.Index >= 1 /\ e.Term = CurrentTerm'[s] =>
                           Acked(B, s, e.Index, e.Term)
    BY DEF Counted
  <2>1. s # p
    BY <1>6 DEF Leader, Follower
  <2>2. /\ State[s] = Leader /\ CurrentTerm'[s] = CurrentTerm[s] /\ Held(s)' = Held(s)
        /\ MatchIndex'[s] = MatchIndex[s]
    BY <1>4, <1>7, <1>15, <2>1
  <2>3. /\ \A q \in Server : \A i \in 1 .. MatchIndex[s][q] : Acked(A, q, i, CurrentTerm[s])
        /\ \A e \in Held(s) : e.Index >= 1 /\ e.Term = CurrentTerm[s] => Acked(A, s, e.Index, e.Term)
    BY <2>2 DEF History, Counted
  <2>4. QED
    BY <1>17, <2>2, <2>3 DEF Acked
<1>33. PeersCommit(L, B)'
  <2>1. ASSUME NEW q \in Server \ {p}
        PROVE  (CommitIndex[q] >= 1 => Commits(L, B, Held(q), CommitIndex[q], CurrentTerm[q]))'
    <3>1. CommitIndex[q] >= 1 => Commits(L, A, Held(q), CommitIndex[q], CurrentTerm[q])
      BY DEF History, PeersCommit
    <3>2. CommitIndex'[q] = CommitIndex[q]
      BY <1>2, AcceptCommit
    <3>3. CurrentTerm'[q] >= CurrentTerm[q]
      BY <1>1, <1>7, TermKept
    <3>4. QED
      BY <1>1, <1>7, <1>17, <1>18, <3>1, <3>2, <3>3, CommitStill
  <2>2. PICK c \in Nat, l \in Nat : c = CommitIndex[p] /\ l = m.LeaderCommit
    BY <1>1, EntriesArgs DEF TypeOK
  <2>3. CommitIndex'[p] = IF l > c THEN l ELSE c
    BY <1>2, <2>2, AcceptCommit
  <2>4. ASSUME l > c
        PROVE  CommitIndex'[p] >= 1 => Commits(L, B, Held(p)', CommitIndex'[p], CurrentTerm'[p])
    <3>1. l >= 1 /\ l <= E /\ Commits(L, A, R, l, T)
      BY <1>2, <1>10, <1>11, <2>2, <2>4 DEF Bears
    <3>2. Same(Held(p)', R, E)
      BY <1>13 DEF Merged
    <3>3. Same(Held(p)', R, l)
      BY <3>1, <3>2, SameLess
    <3>4. Commits(L, A, Held(p)', l, T)
      BY <3>1, <3>3, CommitsMoved
    <3>5. Commits(L, B, Held(p)', l, T)
      BY <1>17, <1>18, <3>4, GrowCommits
    <3>6. QED
      BY <1>6, <2>3, <2>4, <3>5
  <2>5. ASSUME ~(l > c), c >= 1
        PROVE  CommitIndex'[p] >= 1 => Commits(L, B, Held(p)', CommitIndex'[p], CurrentTerm'[p])
    <3>1. Commits(L, A, Held(p), c, CurrentTerm[p])
      BY <2>2, <2>5 DEF History, PeersCommit
    <3>2. Commits(L, A, Held(p)', c, CurrentTerm[p])
      BY <1>4, <1>6, <1>10, <1>11, <1>12, <1>13, <3>1, AcceptKeepsCommit
    <3>3. Commits(L, B, Held(p)', c, T)
      BY <1>4, <1>6, <1>17, <1>18, <3>2, GrowCommits
    <3>4. QED
      BY <1>6, <2>3, <2>5, <3>3
  <2>6. ASSUME ~(l > c), ~(c >= 1)
        PROVE  CommitIndex'[p] >= 1 => Commits(L, B, Held(p)', CommitIndex'[p], CurrentTerm'[p])
    BY <2>3, <2>6
  <2>7. CommitIndex'[p] >= 1 => Commits(L, B, Held(p)', CommitIndex'[p], CurrentTerm'[p])
    BY <2>4, <2>5, <2>6
  <2>8. QED
    BY <2>1, <2>7 DEF PeersCommit
<1>34. Delivered(L, B)'
  <2>1. Delivered(L, A)
    BY DEF History
  <2>2. QED
    BY <1>4, <1>17, <1>18, <2>1, DeliveredStill
<1>35. History(L, B)'
  BY <1>11, <1>21, <1>22, <1>23, <1>24, <1>25, <1>26, <1>27, <1>29, <1>30, <1>31, <1>32,
     <1>33, <1>34 DEF History
<1>36. QED
  BY <1>35

LEMMA RequestHistory ==
  ASSUME Counting,
         PlainInv, PlainInv', Regular, NEW m \in net, HandleRequest(m),
         NEW L, NEW A, History(L, A)
  PROVE  \E M, B : History(M, B)'
<1>1. CASE \/ m.type = "RequestVote" /\ (RequestVoteStale(m) \/ RequestVoteRefuse(m))
           \/ m.type = "AppendEntries" /\ (AppendEntriesStale(m) \/ AppendEntriesReject(m))
           \/ m.type = "InstallSnapShot" /\ (InstallSnapShotStale(m) \/ InstallSnapShotOld(m))
  <2>1. History(L, A)'
    BY <1>1, RefusalIdle
  <2>2. QED
    BY <2>1
<1>2. CASE m.type = "RequestVote" /\ RequestVoteGrant(m)
  <2>1. History(L, A)'
    BY <1>2, GrantCalm
  <2>2. QED
    BY <2>1
<1>3. CASE m.type = "AppendEntries" /\ AppendEntriesAccept(m)
  <2>1. PICK B : History(L, B)'
    BY <1>3, AcceptHistory
  <2>2. QED
    BY <2>1
<1>4. QED
  BY <1>1, <1>2, <1>3, NoInstall DEF HandleRequest

LEMMA ReplyHistory ==
  ASSUME Counting,
         PlainInv, PlainInv', Regular, NEW m \in net, HandleReply(m),
         NEW L, NEW A, History(L, A)
  PROVE  \E M, B : History(M, B)'
<1>1. CASE \/ m.type = "RequestVoteReply" /\ (VoteReplyIgnored(m) \/ VoteReplyHigherTerm(m))
           \/ /\ m.type = "AppendEntriesReply"
              /\ ReplyOutdated(m) \/ EntriesReplyHigherTerm(m) \/ EntriesReplyFailure(m)
           \/ m.type = "InstallSnapShotReply" /\ (ReplyOutdated(m) \/ SnapShotReplyHigherTerm(m))
  <2>1. History(L, A)'
    BY <1>1, ReplyIdle
  <2>2. QED
    BY <2>1
<1>2. CASE \/ m.type = "AppendEntriesReply" /\ EntriesReplySuccess(m)
           \/ m.type = "InstallSnapShotReply" /\ SnapShotReplySuccess(m)
  <2>1. History(L, A)'
    BY <1>2, SuccessCalm
  <2>2. QED
    BY <2>1
<1>3. CASE m.type = "RequestVoteReply" /\ VoteReplyGranted(m)
  <2>1. CASE Cardinality(votes'[m.args.from]) >= Majority
    <3>1. PICK M : History(M, A)'
      BY <1>3, <2>1, ElectedHistory
    <3>2. QED
      BY <3>1
  <2>2. CASE ~(Cardinality(votes'[m.args.from]) >= Majority)
    <3>1. History(L, A)'
      BY <1>3, <2>2, CountCalm
    <3>2. QED
      BY <3>1
  <2>3. QED
    BY <2>1, <2>2
<1>4. QED
  BY <1>1, <1>2, <1>3 DEF HandleReply

LEMMA InitHistory ==
  ASSUME PlainInv, Init
  PROVE  \E L, A : History(L, A)
<1>1. PICK L : L = [t \in Nat |-> {}]
  OBVIOUS
<1>2. PICK P : P = Placeholder(0, 0) /\ P \in LogEntry /\ P.Index = 0 /\ P.Term = 0
  <2>1. Placeholder(0, 0) \in LogEntry
    BY DEF Placeholder, LogEntry
  <2>2. Placeholder(0, 0).Index = 0 /\ Placeholder(0, 0).Term = 0
    BY DEF Placeholder
  <2>3. QED
    BY <2>1, <2>2
<1>3. \A s \in Server : Held(s) = {P}
  <2>1. \A s \in Server : Log[s] = <<P>>
    BY <1>2 DEF Init, InitialLog
  <2>2. QED
    BY <2>1 DEF Held
<1>4. IsLog({P})
  BY <1>2 DEF IsLog
<1>5. LeaderLogs(L)
  BY <1>1 DEF LeaderLogs
<1>6. PeerLogs(L)
  <2>1. \A t \in Nat : Rooted(L, {P}, t)
    BY <1>2 DEF Rooted
  <2>2. \A s \in Server : disk[s].CurrentTerm \in Nat
    BY DEF Init
  <2>3. QED
    BY <1>3, <1>4, <2>1, <2>2 DEF PeerLogs
<1>7. Leads(L) /\ Counted({})
  BY DEF Init, Leads, Counted, Leader, Follower
<1>8. Elected(L)
  BY <1>1 DEF Elected
<1>9. CallsCarry(L, {}) /\ Confirmed({})
  BY DEF Init, CallsCarry, Confirmed
<1>10. \A e \in LogEntry : ~Entry(L, e)
  BY <1>1, EntryFields DEF Entry
<1>11. Lasting(L, {}) /\ Kept(L, {}) /\ VotesCheck(L, {})
  BY <1>10 DEF Lasting, Kept, VotesCheck, Alive
<1>12. AckedSince(L, {}) /\ Agrees(L, {})
  BY DEF AckedSince, Agrees, Acked
<1>13. PeersCommit(L, {})
  BY DEF Init, PeersCommit
<1>14. Delivered(L, {})
  <2>1. \A s \in Server : Len(sm[s]) = 0
    BY DEF Init
  <2>2. \A s \in Server : Len(applier[s].msgs) = 0
    BY DEF Init, Idle
  <2>3. QED
    BY <2>1, <2>2 DEF Delivered
<1>15. History(L, {})
  BY <1>5, <1>6, <1>7, <1>8, <1>9, <1>11, <1>12, <1>13, <1>14 DEF History
<1>16. QED
  BY <1>15

LEMMA StepHistory ==
  ASSUME Counting,
         SafetyInv, PlainInv', ApplyInv', Regular, [Next]_vars
  PROVE  SafetyInv'
<1>1. PlainInv /\ ApplyInv
  BY DEF SafetyInv
<1>2. PlainInv' /\ ApplyInv' /\ Regular
  OBVIOUS
<1>4. PICK L, A : History(L, A)
  BY DEF SafetyInv
<1>5. ASSUME History(L, A)' PROVE \E M, B : History(M, B)'
  BY <1>5
<1>6. ASSUME UNCHANGED vars PROVE \E M, B : History(M, B)'
  BY <1>1, <1>2, <1>4, <1>5, <1>6, RestIdle
<1>7. ASSUME Next PROVE \E M, B : History(M, B)'
  <2>1. ASSUME NEW s \in Server,
               \/ TickerTimeout(s)
               \/ \E p \in Server : PrepareSnapShot(s, p)
               \/ \E m \in sending[s] : sendSnapShot(s, m) \/ sendSnapShotNotLeader(s, m)
        PROVE  \E M, B : History(M, B)'
    BY <1>1, <1>2, <1>4, <1>5, <2>1, RestIdle
  <2>2. ASSUME NEW s \in Server, AttemptElection(s) PROVE \E M, B : History(M, B)'
    BY <1>1, <1>2, <1>4, <1>5, <2>2, AttemptCalm
  <2>3. ASSUME NEW s \in Server, Make(s) PROVE \E M, B : History(M, B)'
    <3>1. SnapshotCoversLog
      BY <1>1 DEF ApplyInv
    <3>2. QED
      BY <1>1, <1>2, <1>4, <1>5, <2>3, <3>1, MakeCalm
  <2>4. ASSUME NEW s \in Server, NEW c \in Command, Start(s, c) PROVE \E M, B : History(M, B)'
    BY <1>1, <1>2, <1>4, <2>4, StartHistory
  <2>5. ASSUME NEW s \in Server, NEW p \in Server, BroadcastEntries(s, p)
        PROVE  \E M, B : History(M, B)'
    BY <1>1, <1>2, <1>4, <1>5, <2>5, BroadcastCalm
  <2>6. ASSUME NEW s \in Server,
               \/ ApplierTakeSnapshot(s) \/ ApplierTakeEntries(s)
               \/ ApplierSend(s) \/ ApplierDone(s)
        PROVE  \E M, B : History(M, B)'
    BY <1>1, <1>2, <1>4, <1>5, <2>6, ApplierHistory
  <2>7. ASSUME NEW m \in net, HandleRequest(m) PROVE \E M, B : History(M, B)'
    BY <1>1, <1>2, <1>4, <2>7, RequestHistory
  <2>8. ASSUME NEW m \in net, HandleReply(m) PROVE \E M, B : History(M, B)'
    BY <1>1, <1>2, <1>4, <2>8, ReplyHistory
  <2>9. ~\E s \in Snapshotters : Snapshot(s)
    BY <1>1 DEF PlainInv, Plain
  <2>10. QED
    BY <1>7, <2>1, <2>2, <2>3, <2>4, <2>5, <2>6, <2>7, <2>8, <2>9, ServerAssumption DEF Next
<1>8. \E M, B : History(M, B)'
  BY <1>6, <1>7
<1>9. QED
  BY <1>2, <1>8 DEF SafetyInv
=============================================================================
