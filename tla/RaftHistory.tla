---------------------------- MODULE RaftHistory -----------------------------
(***************************************************************************)
(* A history that explains the state of Raft as long as no service takes a *)
(* snapshot, and the steps that leave the logs of the leaders alone.       *)
(*                                                                         *)
(* No variable of the program remembers what the leaders of past terms had *)
(* in their logs, or who has acknowledged what.  SafetyInv says that there *)
(* is such a history; each action is shown to extend it.                   *)
(***************************************************************************)
EXTENDS RaftLemmas

\* A leaf that names no prover is tried with Zenon and with the SMT solver, then
\* with both once more.
USE ZenonT(5), SMTT(60), Z3T(60), ZenonT(30)

-----------------------------------------------------------------------------
(***************************************************************************)
(* Logs as sets of entries, and what the leaders of all terms had.  L[t]   *)
(* is what the leader of term t had in its log when it last led.           *)
(***************************************************************************)
Held(s) == {Log[s][k] : k \in 1 .. Len(Log[s])}

\* Up to index i the logs S and R are the same.
Same(S, R, i) == \A e \in LogEntry : e.Index <= i => (e \in S <=> e \in R)

IsLog(S) ==
  /\ S \subseteq LogEntry
  /\ Placeholder(0, 0) \in S
  /\ \A e, f \in S : e.Index = f.Index => e = f
  /\ \A e \in S : \A i \in 0 .. e.Index : \E f \in S : f.Index = i

\* Up to each of its entries the log S, of a peer in term t, is that of the
\* leader who appended the entry.
Rooted(L, S, t) ==
  \A e \in S : e.Term <= t /\ (e.Index >= 1 => Same(S, L[e.Term], e.Index))

LeaderLogs(L) ==
  /\ L \in [Nat -> SUBSET LogEntry]
  /\ \A t \in Nat : L[t] # {} => IsLog(L[t]) /\ Rooted(L, L[t], t)

LEMMA EntryFields ==
  ASSUME NEW e \in LogEntry
  PROVE  e.Term \in Nat /\ e.Index \in Nat
BY DEF LogEntry

LEMMA SameLess ==
  ASSUME NEW S, NEW R, NEW i \in Nat, NEW j \in Nat, Same(S, R, i), j <= i
  PROVE  Same(S, R, j)
<1> SUFFICES ASSUME NEW e \in LogEntry, e.Index <= j PROVE e.Index <= i
  BY DEF Same
<1>1. e.Index \in Nat
  BY EntryFields
<1>2. QED
  BY <1>1

LEMMA SameTurned ==
  ASSUME NEW S, NEW R, NEW i, Same(S, R, i)
  PROVE  Same(R, S, i)
BY DEF Same

LEMMA SameJoined ==
  ASSUME NEW S, NEW R, NEW T, NEW i, Same(S, R, i), Same(R, T, i)
  PROVE  Same(S, T, i)
BY DEF Same

\* An entry of a log is an entry of the leader who appended it.
LEMMA RootedEntry ==
  ASSUME NEW L, LeaderLogs(L), NEW S, IsLog(S), NEW t \in Nat, Rooted(L, S, t),
         NEW e \in S, e.Index >= 1
  PROVE  /\ e \in LogEntry /\ e.Term \in Nat /\ e.Index \in Nat /\ e.Term <= t
         /\ e \in L[e.Term] /\ Same(S, L[e.Term], e.Index)
         /\ IsLog(L[e.Term]) /\ Rooted(L, L[e.Term], e.Term)
<1>1. e \in LogEntry
  BY DEF IsLog
<1>2. e.Term \in Nat /\ e.Index \in Nat
  BY <1>1, EntryFields
<1>3. Same(S, L[e.Term], e.Index) /\ e.Term <= t
  BY DEF Rooted
<1>4. e.Index <= e.Index
  BY <1>2
<1>5. e \in L[e.Term]
  BY <1>1, <1>3, <1>4 DEF Same
<1>6. QED
  BY <1>1, <1>2, <1>3, <1>5 DEF LeaderLogs

\* Terms do not fall along a log.
LEMMA TermsRise ==
  ASSUME NEW L, LeaderLogs(L), NEW S, IsLog(S), NEW t \in Nat, Rooted(L, S, t),
         NEW e \in S, NEW f \in S, f.Index <= e.Index
  PROVE  f.Term <= e.Term
<1>1. e \in LogEntry /\ f \in LogEntry
  BY DEF IsLog
<1>2. e.Term \in Nat /\ e.Index \in Nat /\ f.Term \in Nat /\ f.Index \in Nat
  BY <1>1, EntryFields
<1>3. CASE e.Index >= 1
  <2>1. Same(S, L[e.Term], e.Index) /\ Rooted(L, L[e.Term], e.Term)
    BY <1>3, RootedEntry
  <2>2. f \in L[e.Term]
    BY <1>1, <2>1 DEF Same
  <2>3. QED
    BY <2>1, <2>2 DEF Rooted
<1>4. CASE e.Index = 0
  <2>1. e = f
    <3>1. e.Index = f.Index
      BY <1>2, <1>4
    <3>2. QED
      BY <3>1 DEF IsLog
  <2>2. QED
    BY <1>2, <2>1
<1>5. QED
  BY <1>2, <1>3, <1>4

\* Log Matching: logs that agree on the term at an index agree up to there.
LEMMA LogsMeet ==
  ASSUME NEW L, LeaderLogs(L), NEW S, IsLog(S), NEW t \in Nat, Rooted(L, S, t),
         NEW R, IsLog(R), NEW u \in Nat, Rooted(L, R, u),
         NEW e \in S, NEW f \in R, e.Index = f.Index, e.Term = f.Term
  PROVE  Same(S, R, e.Index) /\ e = f
<1>1. e \in LogEntry /\ f \in LogEntry
  BY DEF IsLog
<1>2. e.Term \in Nat /\ e.Index \in Nat
  BY <1>1, EntryFields
<1>3. CASE e.Index >= 1
  <2>1. Same(S, L[e.Term], e.Index)
    BY <1>3, RootedEntry
  <2>2. Same(R, L[e.Term], e.Index)
    BY <1>3, RootedEntry
  <2>3. Same(S, R, e.Index)
    BY <2>1, <2>2, SameTurned, SameJoined
  <2>4. e \in R
    <3>1. e.Index <= e.Index
      BY <1>2
    <3>2. QED
      BY <1>1, <2>3, <3>1 DEF Same
  <2>5. QED
    BY <2>3, <2>4 DEF IsLog
<1>4. CASE e.Index = 0
  <2> DEFINE root == Placeholder(0, 0)
  <2>1. root \in S /\ root \in R /\ root.Index = 0
    BY DEF IsLog, Placeholder
  <2>2. e = root /\ f = root
    <3>1. \A g, h \in S : g.Index = h.Index => g = h
      BY ZenonT(60) DEF IsLog
    <3>2. \A g, h \in R : g.Index = h.Index => g = h
      BY ZenonT(60) DEF IsLog
    <3>3. e.Index = root.Index /\ f.Index = root.Index
      BY <1>4, <2>1
    <3>4. QED
      BY <2>1, <3>1, <3>2, <3>3, ZenonT(60)
  <2>3. ASSUME NEW g \in LogEntry, g.Index <= e.Index PROVE g \in S <=> g \in R
    <3>1. g.Index = 0
      BY <1>4, <2>3, EntryFields
    <3>2. (g \in S => g = root) /\ (g \in R => g = root)
      BY <2>1, <3>1 DEF IsLog
    <3>3. QED
      BY <2>1, <3>2
  <2>4. QED
    BY <2>2, <2>3 DEF Same
<1>5. QED
  BY <1>2, <1>3, <1>4

-----------------------------------------------------------------------------
(***************************************************************************)
(* The history: the logs L of the leaders, and the acknowledgements A.     *)
(* <<p, i, t>> in A says that p, in term t, has told the leader of that    *)
(* term that it holds the leader's entry at index i, or is that leader.    *)
(***************************************************************************)
Acked(A, p, i, t) == <<p, i, t>> \in A

\* A majority can no longer acknowledge the entry at index i of leader t.
Blocked(A, i, t) ==
  \E Q \in SUBSET Server : /\ Cardinality(Q) >= Majority
                           /\ \A p \in Q : ~Acked(A, p, i, t) /\ disk[p].CurrentTerm > t

Chosen(A, i, t) ==
  \E Q \in SUBSET Server : /\ Cardinality(Q) >= Majority
                           /\ \A p \in Q : Acked(A, p, i, t)

\* The entry e, as its leader appended it.
Entry(L, e) == e.Index >= 1 /\ e \in L[e.Term]

\* The entry may be, or come to be, committed.
Alive(L, A, e) == Entry(L, e) /\ ~Blocked(A, e.Index, e.Term)

\* The index up to which a call brings the log of its leader.
End(m) == m.PrevLogIndex + Len(m.Entries)

\* The call m brings a piece of the log of the leader of its term.
Carries(L, m) ==
  /\ \A k \in 1 .. Len(m.Entries) : m.Entries[k] \in L[m.Term]
  /\ \E f \in L[m.Term] : f.Index = m.PrevLogIndex /\ f.Term = m.PrevLogTerm
  /\ \A e \in L[m.Term] : e.Index > End(m) => e.Term = m.Term

\* Up to index i the log S agrees with one that was chosen by term t.
Commits(L, A, S, i, t) ==
  \E e \in LogEntry : /\ Entry(L, e) /\ Chosen(A, e.Index, e.Term)
                      /\ e.Term <= t /\ i <= e.Index
                      /\ Same(S, L[e.Term], i)

PeerLogs(L) ==
  \A s \in Server : IsLog(Held(s)) /\ Rooted(L, Held(s), disk[s].CurrentTerm)

Leads(L) ==
  \A s \in Server : State[s] = Leader => L[CurrentTerm[s]] = Held(s)

Elected(L) ==
  \A t \in Nat : L[t] # {} => t >= 1 /\ \E w \in Server : Won(w, t)

\* What it says of commitment is true of the piece it brings.
Bears(L, A, m) ==
  /\ Carries(L, m)
  /\ m.LeaderCommit <= End(m)
  /\ m.LeaderCommit >= 1 => Commits(L, A, L[m.Term], m.LeaderCommit, m.Term)

CallsCarry(L, A) == \A m \in net : m.type = "AppendEntries" => Bears(L, A, m)

\* What may be committed is in the log of every later leader, ...
Lasting(L, A) ==
  \A e \in LogEntry, u \in Nat :
    Alive(L, A, e) /\ u > e.Term /\ L[u] # {} => e \in L[u]

\* ... because a candidate who lacks it has no vote from anyone who holds it, ...
VotesCheck(L, A) ==
  \A c, p \in Server, e \in LogEntry :
    /\ State[c] = Candidate /\ e.Term < CurrentTerm[c] /\ HasVote(p, c, CurrentTerm[c])
    /\ Alive(L, A, e) /\ e \notin Held(c)
    => ~Acked(A, p, e.Index, e.Term)

\* ... and who has acknowledged it holds it.
Kept(L, A) ==
  \A p \in Server, e \in LogEntry :
    Alive(L, A, e) /\ Acked(A, p, e.Index, e.Term) => e \in Held(p)

AckedSince(L, A) ==
  \A p \in Server, i \in Nat, t \in Nat : Acked(A, p, i, t) =>
    disk[p].CurrentTerm >= t /\ \E f \in L[t] : f.Index = i

\* While p is in the term of its acknowledgement it agrees with the leader.
Agrees(L, A) ==
  \A p \in Server, i \in Nat, t \in Nat :
    Acked(A, p, i, t) /\ disk[p].CurrentTerm = t => Same(Held(p), L[t], i)

Confirmed(A) ==
  \A r \in net : r.type = "AppendEntriesReply" /\ r.result.Success =>
    \A i \in 1 .. End(r.args) : Acked(A, r.args.to, i, r.args.Term)

Counted(A) ==
  \A s \in Server : State[s] = Leader =>
    /\ \A p \in Server : \A i \in 1 .. MatchIndex[s][p] : Acked(A, p, i, CurrentTerm[s])
    /\ \A e \in Held(s) : e.Index >= 1 /\ e.Term = CurrentTerm[s] =>
                             Acked(A, s, e.Index, e.Term)

PeersCommit(L, A) ==
  \A s \in Server : CommitIndex[s] >= 1 =>
    Commits(L, A, Held(s), CommitIndex[s], CurrentTerm[s])

\* The value v, of the state machine, is what was chosen at index i.
Fixed(L, A, i, v) ==
  \E e \in LogEntry, f \in LogEntry :
    /\ Entry(L, e) /\ Chosen(A, e.Index, e.Term)
    /\ f \in L[e.Term] /\ f.Index = i /\ i <= e.Index
    /\ v = [Term |-> f.Term, Command |-> f.Command]

Delivered(L, A) ==
  \A s \in Server :
    /\ \A i \in 1 .. Len(sm[s]) : Fixed(L, A, i, sm[s][i])
    /\ \A k \in 1 .. Len(applier[s].msgs) :
         /\ applier[s].msgs[k].kind = "command"
         /\ \E v : /\ applier[s].msgs[k].data = <<v>>
                   /\ Fixed(L, A, applier[s].msgs[k].Index, v)

History(L, A) ==
  /\ LeaderLogs(L) /\ PeerLogs(L) /\ Leads(L) /\ Elected(L) /\ CallsCarry(L, A)
  /\ Lasting(L, A) /\ VotesCheck(L, A) /\ Kept(L, A) /\ AckedSince(L, A)
  /\ Agrees(L, A) /\ Confirmed(A) /\ Counted(A)
  /\ PeersCommit(L, A) /\ Delivered(L, A)

SafetyInv == PlainInv /\ ApplyInv /\ \E L, A : History(L, A)

-----------------------------------------------------------------------------
(***************************************************************************)
(* What follows from the history.                                          *)
(***************************************************************************)
LEMMA ChosenIsAlive ==
  ASSUME Counting,
         NEW A, NEW i, NEW t, Chosen(A, i, t)
  PROVE  ~Blocked(A, i, t)
<1> SUFFICES ASSUME Blocked(A, i, t) PROVE FALSE
  OBVIOUS
<1>1. PICK Q \in SUBSET Server : /\ Cardinality(Q) >= Majority
                                 /\ \A p \in Q : ~Acked(A, p, i, t)
  BY DEF Blocked
<1>2. PICK R \in SUBSET Server : /\ Cardinality(R) >= Majority
                                 /\ \A p \in R : Acked(A, p, i, t)
  BY DEF Chosen
<1>3. PICK p \in Server : p \in Q /\ p \in R
  BY <1>1, <1>2, MajoritiesMeet
<1>4. QED
  BY <1>1, <1>2, <1>3

\* What was chosen by term t is in the log of every leader from then on.
LEMMA ChosenLasts ==
  ASSUME Counting,
         NEW L, NEW A, LeaderLogs(L), Lasting(L, A),
         NEW e \in LogEntry, Entry(L, e), Chosen(A, e.Index, e.Term),
         NEW u \in Nat, e.Term <= u, L[u] # {}
  PROVE  e \in L[u] /\ Same(L[u], L[e.Term], e.Index)
<1>1. e.Term \in Nat /\ e.Index \in Nat /\ e.Index >= 1
  BY EntryFields DEF Entry
<1>2. Alive(L, A, e)
  BY ChosenIsAlive DEF Alive
<1>3. e \in L[u]
  <2>1. CASE u = e.Term
    BY <2>1 DEF Entry
  <2>2. CASE u > e.Term
    BY <1>2, <2>2 DEF Lasting
  <2>3. QED
    BY <1>1, <2>1, <2>2
<1>4. QED
  BY <1>1, <1>3 DEF LeaderLogs, Rooted

LEMMA CommitsLast ==
  ASSUME Counting,
         NEW L, NEW A, LeaderLogs(L), Lasting(L, A), NEW S, NEW i \in Nat, NEW t \in Nat,
         Commits(L, A, S, i, t), NEW u \in Nat, t <= u, L[u] # {}
  PROVE  /\ Same(S, L[u], i)
         /\ \E f \in L[u] : f.Index = i /\ f \in S
         /\ Commits(L, A, L[u], i, t)
<1>1. PICK e \in LogEntry : /\ Entry(L, e) /\ Chosen(A, e.Index, e.Term)
                            /\ e.Term <= t /\ i <= e.Index
                            /\ Same(S, L[e.Term], i)
  BY DEF Commits
<1>2. e.Term \in Nat /\ e.Index \in Nat /\ e.Term <= u
  <2>1. e.Term \in Nat /\ e.Index \in Nat
    BY EntryFields
  <2>2. QED
    BY <1>1, <2>1
<1>3. e \in L[u] /\ Same(L[u], L[e.Term], e.Index)
  BY <1>1, <1>2, ChosenLasts
<1>4. Same(L[u], L[e.Term], i)
  BY <1>1, <1>2, <1>3, SameLess
<1>5. Same(S, L[u], i)
  BY <1>1, <1>4, SameTurned, SameJoined
<1>6. PICK f \in L[u] : f.Index = i
  <2>1. IsLog(L[u]) /\ i \in 0 .. e.Index
    BY <1>1, <1>2 DEF LeaderLogs
  <2>2. QED
    BY <1>3, <2>1 DEF IsLog
<1>7. f \in S
  <2>1. f \in LogEntry /\ f.Index <= i
    BY <1>6 DEF LeaderLogs
  <2>2. QED
    BY <1>5, <2>1 DEF Same
<1>8. QED
  BY <1>1, <1>4, <1>5, <1>6, <1>7 DEF Commits

\* The log of the term in which an index is known to be chosen reaches it.
LEMMA CommitsReach ==
  ASSUME Counting,
         NEW L, NEW A, LeaderLogs(L), Lasting(L, A), NEW S, NEW i \in Nat, NEW t \in Nat,
         Commits(L, A, S, i, t), L[t] # {}
  PROVE  \E f \in L[t] : f.Index = i
<1>1. t <= t
  OBVIOUS
<1>2. /\ Same(S, L[t], i)
      /\ \E f \in L[t] : f.Index = i /\ f \in S
      /\ Commits(L, A, L[t], i, t)
  BY <1>1, CommitsLast
<1>3. QED
  BY <1>2

-----------------------------------------------------------------------------
(***************************************************************************)
(* A log and the set of its entries.                                       *)
(***************************************************************************)
\* The invariants of a state, by name.
LEMMA PlainParts ==
  ASSUME PlainInv
  PROVE  TenureInv /\ ElectionInv /\ IndInv /\ TypeOK /\ LogIndexing
BY DEF PlainInv, TenureInv, MatchingInv, ElectionInv, IndInv

LEMMA HeldEntries ==
  ASSUME PlainInv, NEW s \in Server
  PROVE  /\ Log[s] \in Seq(LogEntry) /\ Len(Log[s]) \in Nat /\ Len(Log[s]) >= 1
         /\ \A k \in 1 .. Len(Log[s]) : /\ Log[s][k] \in LogEntry /\ Log[s][k].Index = k - 1
                                        /\ Log[s][k] \in Held(s)
         /\ \A e \in Held(s) : /\ e \in LogEntry
                               /\ e.Index + 1 \in 1 .. Len(Log[s])
                               /\ e = Log[s][e.Index + 1]
<1>1. TypeOK /\ LogIndexing /\ LastIncludedIndex[s] = 0
  BY PlainParts DEF PlainInv, Plain
<1>2. Log[s] \in Seq(LogEntry) /\ Len(Log[s]) \in Nat /\ Len(Log[s]) >= 1
  BY <1>1, LastLog
<1>3. ASSUME NEW k \in 1 .. Len(Log[s])
      PROVE  Log[s][k] \in LogEntry /\ Log[s][k].Index = k - 1 /\ Log[s][k] \in Held(s)
  <2>1. Log[s][k] \in LogEntry
    BY <1>2, SeqElements
  <2>2. Log[s][k].Index = LastIncludedIndex[s] + k - 1
    BY <1>1 DEF LogIndexing
  <2>3. k \in Nat
    BY <1>2
  <2>4. Log[s][k].Index = k - 1
    BY <1>1, <2>2, <2>3
  <2>5. QED
    BY <2>1, <2>4 DEF Held
<1>4. ASSUME NEW e \in Held(s)
      PROVE  /\ e \in LogEntry
             /\ e.Index + 1 \in 1 .. Len(Log[s])
             /\ e = Log[s][e.Index + 1]
  <2>1. PICK k \in 1 .. Len(Log[s]) : e = Log[s][k]
    BY DEF Held
  <2>2. e.Index = k - 1 /\ e \in LogEntry
    BY <1>3, <2>1
  <2>3. e.Index + 1 = k
    BY <1>2, <2>2
  <2>4. QED
    BY <2>1, <2>2, <2>3
<1>5. QED
  BY <1>2, <1>3, <1>4

\* GetLastLog() and GetLogEntry() in terms of the set.
LEMMA HeldLast ==
  ASSUME PlainInv, NEW s \in Server
  PROVE  /\ GetLastLog(s) \in Held(s) /\ GetLastLog(s).Index \in Nat
         /\ GetLastLog(s).Index = Len(Log[s]) - 1 /\ Len(Log[s]) \in Nat
         /\ \A e \in Held(s) : e.Index <= GetLastLog(s).Index
<1> DEFINE n == Len(Log[s])
<1>1. n \in Nat /\ n >= 1
  BY HeldEntries
<1>2. n \in 1 .. n
  BY <1>1
<1>3. GetLastLog(s) \in Held(s) /\ GetLastLog(s).Index = n - 1
  BY <1>2, HeldEntries DEF GetLastLog
<1>4. ASSUME NEW e \in Held(s) PROVE e.Index <= GetLastLog(s).Index
  <2>1. e.Index \in Nat /\ e.Index + 1 \in 1 .. n
    BY HeldEntries, EntryFields
  <2>2. QED
    BY <1>1, <1>3, <2>1
<1>5. n - 1 \in Nat
  BY <1>1
<1>6. QED
  BY <1>1, <1>3, <1>4, <1>5

LEMMA HeldAt ==
  ASSUME PlainInv, NEW s \in Server, NEW i \in Nat
  PROVE  /\ HasLogEntry(s, i) <=> i <= GetLastLog(s).Index
         /\ HasLogEntry(s, i) => /\ GetLogEntry(s, i) = Log[s][i + 1]
                                 /\ GetLogEntry(s, i) \in Held(s)
                                 /\ GetLogEntry(s, i).Index = i
         /\ \A e \in Held(s) : e.Index = i => HasLogEntry(s, i) /\ GetLogEntry(s, i) = e
<1>1. LastIncludedIndex[s] = 0
  BY DEF PlainInv, Plain
<1>2. Len(Log[s]) \in Nat /\ GetLastLog(s).Index = Len(Log[s]) - 1
  BY HeldLast
<1>3. HasLogEntry(s, i) <=> i <= GetLastLog(s).Index
  BY <1>1, <1>2 DEF HasLogEntry
<1>4. ASSUME HasLogEntry(s, i)
      PROVE  /\ GetLogEntry(s, i) = Log[s][i + 1]
             /\ GetLogEntry(s, i) \in Held(s)
             /\ GetLogEntry(s, i).Index = i
  <2>1. i - LastIncludedIndex[s] + 1 = i + 1 /\ i + 1 \in 1 .. Len(Log[s]) /\ i + 1 - 1 = i
    BY <1>1, <1>2, <1>3, <1>4
  <2>2. GetLogEntry(s, i) = Log[s][i + 1]
    BY <1>4, <2>1 DEF GetLogEntry
  <2>3. QED
    BY <2>1, <2>2, HeldEntries
<1>5. ASSUME NEW e \in Held(s), e.Index = i PROVE HasLogEntry(s, i) /\ GetLogEntry(s, i) = e
  <2>1. HasLogEntry(s, i)
    BY <1>3, <1>5, HeldLast
  <2>2. QED
    BY <1>4, <1>5, <2>1, HeldEntries
<1>6. QED
  BY <1>3, <1>4, <1>5

-----------------------------------------------------------------------------
(***************************************************************************)
(* The history grows.                                                      *)
(***************************************************************************)
\* Leaders append at the end, entries of their term.
Grows(L, M) ==
  /\ L \in [Nat -> SUBSET LogEntry] /\ M \in [Nat -> SUBSET LogEntry]
  /\ \A t \in Nat : L[t] \subseteq M[t]
  /\ \A t \in Nat : \A e \in M[t], f \in L[t] :
       e \in L[t] \/ (f.Index < e.Index /\ e.Term = t)

\* A peer acknowledges in the term it is in.
Adds(A, B) ==
  /\ A \subseteq B
  /\ \A p \in Server, i \in Nat, t \in Nat :
       Acked(B, p, i, t) => Acked(A, p, i, t) \/ t >= CurrentTerm[p]

LEMMA GrowsNot ==
  ASSUME NEW L, LeaderLogs(L)
  PROVE  Grows(L, L)
BY DEF LeaderLogs, Grows

LEMMA AddsNot ==
  ASSUME NEW A
  PROVE  Adds(A, A)
BY DEF Adds

LEMMA GrowSame ==
  ASSUME NEW L, NEW M, Grows(L, M), NEW t \in Nat, NEW i \in Nat,
         NEW S, Same(S, L[t], i), NEW f \in L[t], i <= f.Index
  PROVE  Same(S, M[t], i)
<1> SUFFICES ASSUME NEW e \in LogEntry, e.Index <= i PROVE e \in L[t] <=> e \in M[t]
  BY DEF Same
<1>1. e.Index \in Nat /\ f.Index \in Nat
  <2>1. f \in LogEntry
    BY DEF Grows
  <2>2. QED
    BY <2>1, EntryFields
<1>2. ~(f.Index < e.Index)
  BY <1>1
<1>3. QED
  BY <1>2 DEF Grows

LEMMA GrowRooted ==
  ASSUME NEW L, LeaderLogs(L), NEW M, Grows(L, M), NEW S, IsLog(S), NEW t \in Nat,
         Rooted(L, S, t)
  PROVE  Rooted(M, S, t)
<1> SUFFICES ASSUME NEW e \in S, e.Index >= 1 PROVE Same(S, M[e.Term], e.Index)
  BY DEF Rooted
<1>1. /\ e.Term \in Nat /\ e.Index \in Nat /\ e \in L[e.Term]
      /\ Same(S, L[e.Term], e.Index)
  BY RootedEntry
<1>2. e.Index <= e.Index
  BY <1>1
<1>3. QED
  BY <1>1, <1>2, GrowSame

LEMMA GrowEntry ==
  ASSUME NEW L, NEW M, Grows(L, M), NEW e \in LogEntry, Entry(L, e)
  PROVE  Entry(M, e)
BY EntryFields DEF Grows, Entry

LEMMA ChosenStill ==
  ASSUME NEW A, NEW B, A \subseteq B, NEW i, NEW t, Chosen(A, i, t)
  PROVE  Chosen(B, i, t)
BY DEF Chosen, Acked

LEMMA GrowCommits ==
  ASSUME NEW L, NEW M, Grows(L, M), NEW A, NEW B, A \subseteq B,
         NEW S, NEW i \in Nat, NEW t \in Nat, NEW u \in Nat, t <= u, Commits(L, A, S, i, t)
  PROVE  Commits(M, B, S, i, u)
<1>1. PICK e \in LogEntry : /\ Entry(L, e) /\ Chosen(A, e.Index, e.Term)
                            /\ e.Term <= t /\ i <= e.Index
                            /\ Same(S, L[e.Term], i)
  BY DEF Commits
<1>2. e.Term \in Nat
  BY EntryFields
<1>3. Entry(M, e) /\ Chosen(B, e.Index, e.Term)
  BY <1>1, GrowEntry, ChosenStill
<1>4. Same(S, M[e.Term], i)
  BY <1>1, <1>2, GrowSame DEF Entry
<1>5. e.Term <= u
  BY <1>1, <1>2
<1>6. QED
  BY <1>1, <1>3, <1>4, <1>5 DEF Commits

LEMMA GrowFixed ==
  ASSUME NEW L, NEW M, Grows(L, M), NEW A, NEW B, A \subseteq B,
         NEW i, NEW v, Fixed(L, A, i, v)
  PROVE  Fixed(M, B, i, v)
<1>1. PICK e \in LogEntry, f \in LogEntry :
        /\ Entry(L, e) /\ Chosen(A, e.Index, e.Term)
        /\ f \in L[e.Term] /\ f.Index = i /\ i <= e.Index
        /\ v = [Term |-> f.Term, Command |-> f.Command]
  BY DEF Fixed
<1>2. Entry(M, e) /\ Chosen(B, e.Index, e.Term)
  BY <1>1, GrowEntry, ChosenStill
<1>3. f \in M[e.Term]
  BY <1>1, EntryFields DEF Grows
<1>4. QED
  BY <1>1, <1>2, <1>3 DEF Fixed

\* Moving from one log to another that agrees with it.
LEMMA CommitsMoved ==
  ASSUME NEW L, NEW A, NEW S, NEW R, NEW i \in Nat, NEW t, Commits(L, A, S, i, t),
         Same(R, S, i)
  PROVE  Commits(L, A, R, i, t)
BY SameJoined DEF Commits

\* What cannot be committed any more stays so.
LEMMA BlockedStill ==
  ASSUME TenureInv, TypeOK', Regular, NEW A, NEW B, Adds(A, B),
         NEW i \in Nat, NEW t \in Nat, Blocked(A, i, t)
  PROVE  Blocked(B, i, t)'
<1>1. PICK Q \in SUBSET Server : /\ Cardinality(Q) >= Majority
                                 /\ \A p \in Q : ~Acked(A, p, i, t) /\ disk[p].CurrentTerm > t
  BY DEF Blocked
<1>2. ASSUME NEW p \in Q PROVE ~Acked(B, p, i, t) /\ disk'[p].CurrentTerm > t
  <2>1. /\ disk[p].CurrentTerm \in Nat /\ disk'[p].CurrentTerm \in Nat
        /\ disk'[p].CurrentTerm >= disk[p].CurrentTerm
    BY DiskGrows
  <2>2. disk[p].CurrentTerm <= CurrentTerm[p] /\ CurrentTerm[p] \in Nat
    BY DEF TenureInv, Tenure, TermSaved, MatchingInv, ElectionInv, IndInv, TypeOK
  <2>3. disk[p].CurrentTerm > t /\ ~Acked(A, p, i, t)
    BY <1>1
  <2>4. ~(t >= CurrentTerm[p]) /\ disk'[p].CurrentTerm > t
    BY <2>1, <2>2, <2>3
  <2>5. QED
    BY <2>3, <2>4 DEF Adds
<1>3. Cardinality(Q) >= Majority'
  BY <1>1 DEF Majority
<1>4. QED
  BY <1>2, <1>3 DEF Blocked, Acked

LEMMA AliveBefore ==
  ASSUME TenureInv, TypeOK', Regular, NEW A, NEW B, Adds(A, B),
         NEW L, NEW M, NEW e \in LogEntry, Entry(L, e), Alive(M, B, e)'
  PROVE  Alive(L, A, e)
<1>1. e.Index \in Nat /\ e.Term \in Nat
  BY EntryFields
<1>2. ~Blocked(B, e.Index, e.Term)'
  BY DEF Alive
<1>3. QED
  BY <1>1, <1>2, BlockedStill DEF Alive

-----------------------------------------------------------------------------
(***************************************************************************)
(* The parts of the history that a step leaves true as it grows.           *)
(***************************************************************************)
LEMMA EntriesArgs ==
  ASSUME NEW m \in AppendEntriesArgs
  PROVE  /\ m.from \in Server /\ m.to \in Server /\ m.Term \in Nat /\ m.boot \in Nat
         /\ m.PrevLogIndex \in Nat /\ m.PrevLogTerm \in Nat
         /\ m.Entries \in Seq(LogEntry) /\ m.LeaderCommit \in Nat
         /\ Len(m.Entries) \in Nat /\ End(m) \in Nat
<1>1. /\ m.from \in Server /\ m.to \in Server /\ m.Term \in Nat /\ m.boot \in Nat
      /\ m.PrevLogIndex \in Nat /\ m.PrevLogTerm \in Nat
      /\ m.Entries \in Seq(LogEntry) /\ m.LeaderCommit \in Nat
  BY DEF AppendEntriesArgs
<1>2. Len(m.Entries) \in Nat
  BY <1>1, SeqElements
<1>3. QED
  BY <1>1, <1>2 DEF End

LEMMA BearsStill ==
  ASSUME Counting,
         NEW L, LeaderLogs(L), NEW A, Lasting(L, A), NEW M, Grows(L, M), NEW B, A \subseteq B,
         NEW m \in AppendEntriesArgs, Bears(L, A, m)
  PROVE  Bears(M, B, m)
<1>1. m.Term \in Nat /\ m.LeaderCommit \in Nat
  BY EntriesArgs
<1>2. PICK t \in Nat : t = m.Term
  BY <1>1
<1>3. PICK f \in L[t] : f.Index = m.PrevLogIndex /\ f.Term = m.PrevLogTerm
  BY <1>2 DEF Bears, Carries
<1>4. L[t] \subseteq M[t] /\ \A e \in M[t] : e \in L[t] \/ e.Term = t
  BY <1>3 DEF Grows
<1>5. Carries(M, m)
  BY <1>2, <1>3, <1>4 DEF Bears, Carries
<1>6. ASSUME m.LeaderCommit >= 1 PROVE Commits(M, B, M[t], m.LeaderCommit, t)
  <2>1. PICK i \in Nat : i = m.LeaderCommit
    BY <1>1
  <2>2. Commits(L, A, L[t], i, t)
    BY <1>2, <1>6, <2>1 DEF Bears
  <2>3. t <= t
    OBVIOUS
  <2>4. PICK g \in L[t] : g.Index = i
    BY <1>3, <2>2, CommitsReach
  <2>5. Commits(M, B, L[t], i, t)
    BY <2>2, <2>3, GrowCommits
  <2>6. Same(L[t], M[t], i)
    <3>1. Same(L[t], L[t], i) /\ i <= g.Index
      BY <2>4 DEF Same
    <3>2. QED
      BY <3>1, GrowSame
  <2>7. QED
    BY <2>1, <2>5, <2>6, SameTurned, CommitsMoved
<1>7. QED
  BY <1>2, <1>5, <1>6 DEF Bears

LEMMA CallsStill ==
  ASSUME Counting,
         TypeOK, NEW L, NEW A, History(L, A), NEW M, Grows(L, M), NEW B, A \subseteq B,
         \A m \in net' : m.type = "AppendEntries" => m \in net \/ Bears(M, B, m)
  PROVE  CallsCarry(M, B)'
<1> SUFFICES ASSUME NEW m \in net', m.type = "AppendEntries", m \in net PROVE Bears(M, B, m)
  BY DEF CallsCarry, Bears, Carries, Commits, Entry, Chosen, Majority, End, Acked, Same, LogEntry
<1>1. m \in AppendEntriesArgs
  BY MessageTypes
<1>2. QED
  BY <1>1, BearsStill DEF History, CallsCarry

LEMMA DeliveredStill ==
  ASSUME NEW L, NEW A, Delivered(L, A), NEW M, Grows(L, M), NEW B, A \subseteq B,
         UNCHANGED <<sm, applier>>
  PROVE  Delivered(M, B)'
<1> SUFFICES Delivered(M, B)
  BY DEF Delivered
<1>1. \A i, v : Fixed(L, A, i, v) => Fixed(M, B, i, v)
  BY GrowFixed
<1>2. QED
  BY <1>1 DEF Delivered

LEMMA ElectedStill ==
  ASSUME TypeOK, TypeOK', Regular, NEW L, Elected(L), NEW M,
         \A t \in Nat : M[t] # {} => L[t] # {} \/ (t >= 1 /\ \E w \in Server : Won(w, t)')
  PROVE  Elected(M)'
BY WonKept DEF Elected

LEMMA ConfirmedStill ==
  ASSUME NEW A, Confirmed(A), NEW B, A \subseteq B,
         \A r \in net' : r.type = "AppendEntriesReply" /\ r.result.Success =>
           r \in net \/ \A i \in 1 .. End(r.args) : Acked(B, r.args.to, i, r.args.Term)
  PROVE  Confirmed(B)'
BY DEF Confirmed, Acked, End

LEMMA CommitStill ==
  ASSUME TypeOK, TypeOK', NEW s \in Server, NEW L, NEW A, NEW M, Grows(L, M), NEW B, A \subseteq B,
         CommitIndex[s] >= 1 => Commits(L, A, Held(s), CommitIndex[s], CurrentTerm[s]),
         Log'[s] = Log[s],
         \/ CommitIndex'[s] = CommitIndex[s] /\ CurrentTerm'[s] >= CurrentTerm[s]
         \/ CommitIndex'[s] = 0
  PROVE  (CommitIndex[s] >= 1 => Commits(M, B, Held(s), CommitIndex[s], CurrentTerm[s]))'
<1> SUFFICES ASSUME CommitIndex'[s] >= 1
             PROVE  Commits(M, B, Held(s), CommitIndex[s], CurrentTerm[s])'
  OBVIOUS
<1>1. PICK i \in Nat, t \in Nat, u \in Nat :
        i = CommitIndex'[s] /\ t = CurrentTerm[s] /\ u = CurrentTerm'[s]
  BY DEF TypeOK
<1>2. CommitIndex[s] = i /\ t <= u
  BY <1>1
<1>3. Commits(L, A, Held(s), i, t)
  BY <1>1, <1>2
<1>4. Commits(M, B, Held(s), i, u)
  BY <1>2, <1>3, GrowCommits
<1>5. Held(s)' = Held(s)
  BY DEF Held
<1>6. Commits(M, B, Held(s)', i, u)
  BY <1>4, <1>5
<1>7. QED
  BY <1>1, <1>6 DEF Commits, Entry, Chosen, Majority, Acked, Same, LogEntry

-----------------------------------------------------------------------------
(***************************************************************************)
(* Steps that change no log.                                               *)
(***************************************************************************)
LeadersSame ==
  \A s \in Server : State'[s] = Leader => State[s] = Leader /\ CurrentTerm'[s] = CurrentTerm[s]

NoSuccess ==
  \A r \in net' : r.type = "AppendEntriesReply" /\ r.result.Success => r \in net

LEMMA CalmStep ==
  ASSUME Counting,
         PlainInv, PlainInv', Regular, UNCHANGED Log, LeadersSame, NoSuccess,
         NEW L, NEW A, History(L, A),
         \A m \in net' : m.type = "AppendEntries" => m \in net \/ Bears(L, A, m),
         VotesCheck(L, A)', Counted(A)', PeersCommit(L, A)', Delivered(L, A)'
  PROVE  History(L, A)'
<1>1. TenureInv /\ TypeOK /\ TypeOK'
  BY DEF PlainInv, TenureInv, MatchingInv, ElectionInv, IndInv
<1>2. Grows(L, L) /\ Adds(A, A)
  BY GrowsNot, AddsNot DEF History
<1>3. \A s \in Server : Held(s)' = Held(s)
  BY DEF Held
<1>4. \A p \in Server : /\ disk[p].CurrentTerm \in Nat /\ disk'[p].CurrentTerm \in Nat
                        /\ disk'[p].CurrentTerm >= disk[p].CurrentTerm
  BY <1>1, DiskGrows
<1>5. PeerLogs(L)'
  <2> SUFFICES ASSUME NEW s \in Server
               PROVE  IsLog(Held(s)') /\ Rooted(L, Held(s)', disk'[s].CurrentTerm)
    BY DEF PeerLogs
  <2>1. IsLog(Held(s)) /\ Rooted(L, Held(s), disk[s].CurrentTerm)
    BY DEF History, PeerLogs
  <2>2. ASSUME NEW e \in Held(s) PROVE e.Term <= disk'[s].CurrentTerm
    <3>1. e.Term \in Nat
      BY <2>1, EntryFields DEF IsLog
    <3>2. e.Term <= disk[s].CurrentTerm
      BY <2>1 DEF Rooted
    <3>3. QED
      BY <1>4, <3>1, <3>2
  <2>3. Rooted(L, Held(s), disk'[s].CurrentTerm)
    BY <2>1, <2>2 DEF Rooted
  <2>4. QED
    BY <1>3, <2>1, <2>3
<1>6. Leads(L)'
  BY <1>3 DEF History, Leads, LeadersSame
<1>7. Elected(L)'
  BY <1>1, ElectedStill DEF History
<1>8. CallsCarry(L, A)'
  BY <1>1, <1>2, CallsStill DEF Adds
<1>9. ASSUME NEW e \in LogEntry, Alive(L, A, e)' PROVE Alive(L, A, e)
  BY <1>1, <1>2, <1>9, AliveBefore DEF Alive
<1>10. Lasting(L, A)'
  BY <1>9 DEF History, Lasting
<1>11. Kept(L, A)'
  BY <1>3, <1>9 DEF History, Kept
<1>12. AckedSince(L, A)'
  <2> SUFFICES ASSUME NEW p \in Server, NEW i \in Nat, NEW t \in Nat, Acked(A, p, i, t)
               PROVE  disk'[p].CurrentTerm >= t /\ \E f \in L[t] : f.Index = i
    BY DEF AckedSince
  <2>1. disk[p].CurrentTerm >= t /\ \E f \in L[t] : f.Index = i
    BY DEF History, AckedSince
  <2>2. QED
    BY <1>4, <2>1
<1>13. Agrees(L, A)'
  <2> SUFFICES ASSUME NEW p \in Server, NEW i \in Nat, NEW t \in Nat, Acked(A, p, i, t),
                      disk'[p].CurrentTerm = t
               PROVE  Same(Held(p)', L[t], i)
    BY DEF Agrees
  <2>1. disk[p].CurrentTerm >= t
    BY DEF History, AckedSince
  <2>2. disk[p].CurrentTerm = t
    BY <1>4, <2>1
  <2>3. QED
    BY <1>3, <2>2 DEF History, Agrees
<1>14. Confirmed(A)'
  BY ConfirmedStill DEF History, NoSuccess
<1>15. QED
  BY <1>5, <1>6, <1>7, <1>8, <1>10, <1>11, <1>12, <1>13, <1>14 DEF History

LEMMA CountedStill ==
  ASSUME PlainInv, UNCHANGED Log, LeadersSame, NEW A, Counted(A),
         \A s \in Server : State'[s] = Leader => MatchIndex'[s] = MatchIndex[s]
  PROVE  Counted(A)'
<1> SUFFICES ASSUME NEW s \in Server, State'[s] = Leader
             PROVE  /\ \A p \in Server : \A i \in 1 .. MatchIndex'[s][p] :
                         Acked(A, p, i, CurrentTerm'[s])
                    /\ \A e \in Held(s)' : e.Index >= 1 /\ e.Term = CurrentTerm'[s] =>
                         Acked(A, s, e.Index, e.Term)
  BY DEF Counted
<1>1. State[s] = Leader /\ CurrentTerm'[s] = CurrentTerm[s] /\ MatchIndex'[s] = MatchIndex[s]
  BY DEF LeadersSame
<1>2. Held(s)' = Held(s)
  BY DEF Held
<1>3. QED
  BY <1>1, <1>2 DEF Counted

LEMMA VotesCheckStill ==
  ASSUME PlainInv, TypeOK', Regular, UNCHANGED Log, NEW L, NEW A, VotesCheck(L, A),
         \A c \in Server : State'[c] = Candidate =>
           State[c] = Candidate /\ CurrentTerm'[c] = CurrentTerm[c],
         \A p, c \in Server, t \in Nat : HasVote(p, c, t)' => HasVote(p, c, t)
  PROVE  VotesCheck(L, A)'
<1> SUFFICES ASSUME NEW c \in Server, NEW p \in Server, NEW e \in LogEntry,
                    State'[c] = Candidate, e.Term < CurrentTerm'[c],
                    HasVote(p, c, CurrentTerm[c])',
                    Alive(L, A, e)', e \notin Held(c)'
             PROVE  ~Acked(A, p, e.Index, e.Term)
  BY DEF VotesCheck
<1>1. State[c] = Candidate /\ CurrentTerm'[c] = CurrentTerm[c]
  OBVIOUS
<1>2. PICK t \in Nat : t = CurrentTerm'[c]
  BY DEF TypeOK
<1>3. HasVote(p, c, t)'
  BY <1>2 DEF HasVote
<1>4. HasVote(p, c, CurrentTerm[c])
  BY <1>1, <1>2, <1>3
<1>5. Alive(L, A, e)
  BY AddsNot, AliveBefore DEF Alive, PlainInv
<1>6. e \notin Held(c)
  BY DEF Held
<1>7. QED
  BY <1>1, <1>4, <1>5, <1>6 DEF VotesCheck

\* What the quiet steps of the election have in common.
LEMMA QuietCalm ==
  ASSUME Counting,
         PlainInv, PlainInv', Regular, Quiet, UNCHANGED Log, NoSuccess,
         NEW L, NEW A, History(L, A),
         \A m \in net' : m.type = "AppendEntries" => m \in net \/ Bears(L, A, m),
         Counted(A)', PeersCommit(L, A)', Delivered(L, A)'
  PROVE  History(L, A)'
<1>1. LeadersSame
  BY DEF Quiet, Stays, LeadersSame, Leader, Candidate
<1>2. \A c \in Server : State'[c] = Candidate =>
        State[c] = Candidate /\ CurrentTerm'[c] = CurrentTerm[c]
  BY DEF Quiet, Stays
<1>3. \A v, c \in Server, term \in Nat : HasVote(v, c, term)' => HasVote(v, c, term)
  BY DEF HasVote, Quiet, Granted, Stays
<1>4. TypeOK'
  BY DEF PlainInv, TenureInv, MatchingInv, ElectionInv, IndInv
<1>5. VotesCheck(L, A)'
  BY <1>2, <1>3, <1>4, VotesCheckStill DEF History
<1>6. QED
  BY <1>1, <1>5, CalmStep

\* Steps that neither count nor commit nor apply.
LEMMA IdleParts ==
  ASSUME PlainInv, PlainInv', UNCHANGED Log, LeadersSame, NEW L, NEW A, History(L, A),
         \A s \in Server : State'[s] = Leader => MatchIndex'[s] = MatchIndex[s],
         \A s \in Server : \/ CommitIndex'[s] = CommitIndex[s] /\ CurrentTerm'[s] >= CurrentTerm[s]
                           \/ CommitIndex'[s] = 0
  PROVE  Counted(A)' /\ PeersCommit(L, A)'
<1>1. TypeOK /\ TypeOK'
  BY DEF PlainInv, TenureInv, MatchingInv, ElectionInv, IndInv
<1>2. Counted(A)'
  BY CountedStill DEF History
<1>3. Grows(L, L)
  BY GrowsNot DEF History
<1>4. ASSUME NEW s \in Server
      PROVE  (CommitIndex[s] >= 1 => Commits(L, A, Held(s), CommitIndex[s], CurrentTerm[s]))'
  BY <1>1, <1>3, CommitStill DEF History, PeersCommit
<1>5. PeersCommit(L, A)'
  BY <1>4 DEF PeersCommit
<1>6. QED
  BY <1>2, <1>5

\* Nothing but terms, roles and requests for votes moves.
LEMMA IdleStep ==
  ASSUME Counting,
         PlainInv, PlainInv', Regular, Quiet, UNCHANGED <<Log, MatchIndex, CommitIndex, sm, applier>>,
         \A s \in Server : CurrentTerm'[s] >= CurrentTerm[s], NoSuccess,
         \A m \in net' : m.type = "AppendEntries" => m \in net,
         NEW L, NEW A, History(L, A)
  PROVE  History(L, A)'
<1>1. LeadersSame
  BY DEF Quiet, Stays, LeadersSame, Leader, Candidate
<1>2. Counted(A)' /\ PeersCommit(L, A)'
  BY <1>1, IdleParts
<1>3. Delivered(L, A)'
  BY GrowsNot, DeliveredStill DEF History
<1>4. QED
  BY <1>2, <1>3, QuietCalm

\* The term of one peer rises, or none changes.
LEMMA TermRises ==
  ASSUME TypeOK, NEW s \in Server, NEW t \in Nat,
         \/ UNCHANGED CurrentTerm
         \/ CurrentTerm' = [CurrentTerm EXCEPT ![s] = t] /\ t >= CurrentTerm[s]
  PROVE  \A p \in Server : CurrentTerm'[p] >= CurrentTerm[p]
<1>1. \A p \in Server : CurrentTerm[p] \in Nat
  BY DEF TypeOK
<1>2. CASE UNCHANGED CurrentTerm
  BY <1>1, <1>2
<1>3. CASE CurrentTerm' = [CurrentTerm EXCEPT ![s] = t] /\ t >= CurrentTerm[s]
  <2>1. \A p \in Server : CurrentTerm'[p] = IF p = s THEN t ELSE CurrentTerm[p]
    BY <1>3 DEF TypeOK
  <2>2. QED
    BY <1>1, <1>3, <2>1
<1>4. QED
  BY <1>2, <1>3

LEMMA RestIdle ==
  ASSUME Counting,
         PlainInv, PlainInv', Regular,
         \/ UNCHANGED vars
         \/ \E s \in Server :
              \/ TickerTimeout(s)
              \/ \E p \in Server : PrepareSnapShot(s, p)
              \/ \E m \in sending[s] : sendSnapShot(s, m) \/ sendSnapShotNotLeader(s, m),
         NEW L, NEW A, History(L, A)
  PROVE  History(L, A)'
<1>1. TypeOK /\ IndInv
  BY PlainParts
<1>2. UNCHANGED <<CurrentTerm, Log, MatchIndex, CommitIndex, sm, applier>>
  BY DEF vars, electionVars, logVars, leaderVars, applyVars, TickerTimeout, PrepareSnapShot,
         sendSnapShot, sendSnapShotNotLeader
<1>3. \A s \in Server : CurrentTerm'[s] >= CurrentTerm[s]
  BY <1>1, <1>2, TermKept
<1>4. ASSUME NEW m \in net', m \notin net PROVE m.type = "InstallSnapShot"
  <2>1. PICK s \in Server : \E x \in sending[s] : sendSnapShot(s, x)
    BY <1>4 DEF vars, TickerTimeout, PrepareSnapShot, sendSnapShotNotLeader
  <2>2. PICK x \in sending[s] : sendSnapShot(s, x)
    BY <2>1
  <2>3. net' \subseteq net \cup {x}
    BY <2>2, SendAdds DEF sendSnapShot
  <2>4. QED
    BY <1>1, <1>4, <2>3 DEF TypeOK, InstallSnapshotArgs
<1>5. NoSuccess /\ \A m \in net' : m.type = "AppendEntries" => m \in net
  BY <1>4 DEF NoSuccess
<1>6. Quiet
  <2>1. CASE UNCHANGED vars
    <3>1. UNCHANGED <<CurrentTerm, VotedFor, State, votes, disk, net>>
      BY <2>1 DEF vars, electionVars
    <3>2. QED
      BY <3>1 DEF Quiet, Advances, Stays
  <2>2. CASE ~UNCHANGED vars
    BY <1>1, <2>2, LocalQuiet
  <2>3. QED
    BY <2>1, <2>2
<1>7. QED
  BY <1>2, <1>3, <1>5, <1>6, IdleStep

LEMMA RefusalIdle ==
  ASSUME Counting,
         PlainInv, PlainInv', Regular, NEW m \in net,
         \/ m.type = "RequestVote" /\ (RequestVoteStale(m) \/ RequestVoteRefuse(m))
         \/ m.type = "AppendEntries" /\ (AppendEntriesStale(m) \/ AppendEntriesReject(m))
         \/ m.type = "InstallSnapShot" /\ (InstallSnapShotStale(m) \/ InstallSnapShotOld(m)),
         NEW L, NEW A, History(L, A)
  PROVE  History(L, A)'
<1>1. TypeOK /\ IndInv
  BY PlainParts
<1>2. UNCHANGED <<Log, MatchIndex, CommitIndex, sm, applier>>
  BY DEF RequestVoteStale, RequestVoteRefuse, AppendEntriesStale, AppendEntriesReject,
         InstallSnapShotStale, InstallSnapShotOld, logVars, leaderVars, applyVars
<1>3. m.to \in Server /\ m.Term \in Nat
  <2>1. m \in RequestVoteArgs \/ m \in AppendEntriesArgs \/ m \in InstallSnapshotArgs
    BY <1>1, MessageTypes
  <2>2. QED
    BY <2>1 DEF RequestVoteArgs, AppendEntriesArgs, InstallSnapshotArgs
<1>4. \A s \in Server : CurrentTerm'[s] >= CurrentTerm[s]
  <2>1. \/ UNCHANGED CurrentTerm
        \/ CurrentTerm' = [CurrentTerm EXCEPT ![m.to] = m.Term] /\ m.Term >= CurrentTerm[m.to]
    BY DEF RequestVoteStale, RequestVoteRefuse, AppendEntriesStale, AppendEntriesReject,
           InstallSnapShotStale, InstallSnapShotOld, FollowTerm, electionVars
  <2>2. QED
    BY <1>1, <1>3, <2>1, TermRises
<1>5. PICK r : /\ Respond(m, r) /\ r.type # "AppendEntries"
               /\ ~(r.type = "AppendEntriesReply" /\ r.result.Success)
  <2>1. ASSUME NEW t, NEW g
        PROVE  VoteReply(m, t, g).type = "RequestVoteReply"
    BY DEF VoteReply
  <2>2. ASSUME NEW t
        PROVE  SnapShotReply(m, t).type = "InstallSnapShotReply"
    BY DEF SnapShotReply
  <2>3. ASSUME NEW t, NEW x, ~x.Success
        PROVE  EntriesReply(m, t, x).type = "AppendEntriesReply" /\ ~EntriesReply(m, t, x).result.Success
    BY <2>3 DEF EntriesReply
  <2>4. ~Rejected(0, 0, 0).Success
    BY DEF Rejected
  <2>5. CASE m.type = "RequestVote"
    BY <2>1, <2>5 DEF RequestVoteStale, RequestVoteRefuse
  <2>6. CASE m.type = "InstallSnapShot"
    BY <2>2, <2>6 DEF InstallSnapShotStale, InstallSnapShotOld
  <2>7. CASE m.type = "AppendEntries"
    BY <2>3, <2>4, <2>7 DEF AppendEntriesStale, AppendEntriesReject
  <2>8. QED
    BY <2>5, <2>6, <2>7
<1>6. net' \subseteq net \cup {r}
  BY <1>5, RespondAdds
<1>7. NoSuccess /\ \A x \in net' : x.type = "AppendEntries" => x \in net
  BY <1>5, <1>6 DEF NoSuccess
<1>8. Quiet
  BY <1>1, RefuseQuiet, AppendEntriesQuiet, InstallSnapShotQuiet
<1>9. QED
  BY <1>2, <1>4, <1>7, <1>8, IdleStep

LEMMA ReplyIdle ==
  ASSUME Counting,
         PlainInv, PlainInv', Regular, NEW m \in net,
         \/ m.type = "RequestVoteReply" /\ (VoteReplyIgnored(m) \/ VoteReplyHigherTerm(m))
         \/ /\ m.type = "AppendEntriesReply"
            /\ ReplyOutdated(m) \/ EntriesReplyHigherTerm(m) \/ EntriesReplyFailure(m)
         \/ m.type = "InstallSnapShotReply" /\ (ReplyOutdated(m) \/ SnapShotReplyHigherTerm(m)),
         NEW L, NEW A, History(L, A)
  PROVE  History(L, A)'
<1>1. TypeOK /\ IndInv
  BY PlainParts
<1>2. UNCHANGED <<Log, MatchIndex, CommitIndex, sm, applier>> /\ Consume(m)
  BY DEF VoteReplyIgnored, VoteReplyHigherTerm, ReplyOutdated, EntriesReplyHigherTerm,
         EntriesReplyFailure, SnapShotReplyHigherTerm, logVars, leaderVars, applyVars
<1>3. m.args.from \in Server /\ m.Term \in Nat
  <2>1. m \in RequestVoteReply \/ m \in AppendEntriesReply \/ m \in InstallSnapshotReply
    BY <1>1, MessageTypes
  <2>2. QED
    BY <2>1 DEF RequestVoteReply, AppendEntriesReply, InstallSnapshotReply,
                RequestVoteArgs, AppendEntriesArgs, InstallSnapshotArgs
<1>4. \A s \in Server : CurrentTerm'[s] >= CurrentTerm[s]
  <2>1. \/ UNCHANGED CurrentTerm
        \/ /\ CurrentTerm' = [CurrentTerm EXCEPT ![m.args.from] = m.Term]
           /\ m.Term > CurrentTerm[m.args.from]
    BY DEF VoteReplyIgnored, VoteReplyHigherTerm, ReplyOutdated, EntriesReplyHigherTerm,
           EntriesReplyFailure, SnapShotReplyHigherTerm, electionVars
  <2>2. \A p \in Server : CurrentTerm[p] \in Nat
    BY <1>1 DEF TypeOK
  <2>3. m.Term > CurrentTerm[m.args.from] => m.Term >= CurrentTerm[m.args.from]
    BY <1>3, <2>2
  <2>4. QED
    BY <1>1, <1>3, <2>1, <2>3, TermRises
<1>5. net' \subseteq net
  BY <1>2, ConsumeAdds
<1>6. NoSuccess /\ \A x \in net' : x.type = "AppendEntries" => x \in net
  BY <1>5 DEF NoSuccess
<1>7. Quiet
  BY <1>1, ReplyQuiet
<1>8. QED
  BY <1>2, <1>4, <1>6, <1>7, IdleStep

-----------------------------------------------------------------------------
(***************************************************************************)
(* Restarts and the Applier.                                               *)
(***************************************************************************)
\* What the service of s has, and is about to get, was chosen.
DeliveredTo(L, A, s) ==
  /\ \A i \in 1 .. Len(sm[s]) : Fixed(L, A, i, sm[s][i])
  /\ \A k \in 1 .. Len(applier[s].msgs) :
       /\ applier[s].msgs[k].kind = "command"
       /\ \E v : /\ applier[s].msgs[k].data = <<v>>
                 /\ Fixed(L, A, applier[s].msgs[k].Index, v)

LEMMA OneDelivers ==
  ASSUME NEW s \in Server, NEW L, NEW A, Delivered(L, A),
         \A p \in Server \ {s} : UNCHANGED <<sm[p], applier[p]>>,
         DeliveredTo(L, A, s)'
  PROVE  Delivered(L, A)'
<1> SUFFICES ASSUME NEW p \in Server PROVE DeliveredTo(L, A, p)'
  BY DEF Delivered, DeliveredTo
<1>1. CASE p = s
  BY <1>1
<1>2. CASE p # s
  <2>1. sm'[p] = sm[p] /\ applier'[p] = applier[p]
    BY <1>2
  <2>2. DeliveredTo(L, A, p)
    BY DEF Delivered, DeliveredTo
  <2>3. QED
    BY <2>1, <2>2 DEF DeliveredTo
<1>3. QED
  BY <1>1, <1>2

LEMMA MakeCalm ==
  ASSUME Counting,
         PlainInv, PlainInv', Regular, SnapshotCoversLog, NEW s \in Server, Make(s),
         NEW L, NEW A, History(L, A)
  PROVE  History(L, A)'
<1>1. TypeOK /\ IndInv /\ LogIndexing
  BY PlainParts
<1>2. UNCHANGED Log
  <2>1. disk[s].Log = Log[s]
    BY <1>1 DEF LogIndexing
  <2>2. QED
    BY <1>1, <2>1 DEF Make, readPersist, TypeOK
<1>3. Quiet
  BY <1>1, MakeQuiet
<1>4. LeadersSame
  BY <1>3 DEF Quiet, Stays, LeadersSame, Leader, Candidate
<1>5. \A p \in Server : State'[p] = Leader => MatchIndex'[p] = MatchIndex[p]
  <2>1. State'[s] = Follower
    BY <1>1 DEF Make, TypeOK
  <2>2. \A p \in Server \ {s} : MatchIndex'[p] = MatchIndex[p]
    BY <1>1 DEF Make, TypeOK
  <2>3. QED
    BY <2>1, <2>2 DEF Leader, Follower
<1>6. ASSUME NEW p \in Server
      PROVE  \/ CommitIndex'[p] = CommitIndex[p] /\ CurrentTerm'[p] >= CurrentTerm[p]
             \/ CommitIndex'[p] = 0
  <2>1. CASE p = s
    BY <1>1, <2>1 DEF Make, TypeOK
  <2>2. CASE p # s
    <3>1. CommitIndex'[p] = CommitIndex[p] /\ CurrentTerm'[p] = CurrentTerm[p]
      BY <1>1, <2>2 DEF Make, readPersist, TypeOK
    <3>2. CurrentTerm[p] \in Nat
      BY <1>1 DEF TypeOK
    <3>3. QED
      BY <3>1, <3>2
  <2>3. QED
    BY <2>1, <2>2
<1>7. Counted(A)' /\ PeersCommit(L, A)'
  BY <1>2, <1>4, <1>5, <1>6, IdleParts
<1>8. Delivered(L, A)'
  <2>1. Len(disk[s].snapshot) = 0
    BY <1>1 DEF LogIndexing, SnapshotCoversLog, PlainInv, Plain
  <2>2. sm'[s] = disk[s].snapshot /\ applier'[s] = Idle
    BY <1>1 DEF Make, TypeOK
  <2>3. Len(sm'[s]) = 0 /\ Len(applier'[s].msgs) = 0
    BY <2>1, <2>2 DEF Idle
  <2>4. DeliveredTo(L, A, s)'
    BY <2>3, SMTT(60), Z3T(60) DEF DeliveredTo
  <2>5. \A p \in Server \ {s} : UNCHANGED <<sm[p], applier[p]>>
    BY <1>1 DEF Make, TypeOK
  <2>6. QED
    BY <2>4, <2>5, OneDelivers DEF History
<1>9. net' \subseteq net
  BY DEF Make
<1>10. NoSuccess /\ \A x \in net' : x.type = "AppendEntries" => x \in net
  BY <1>9 DEF NoSuccess
<1>11. QED
  BY <1>2, <1>3, <1>7, <1>8, <1>10, QuietCalm

\* The Applier touches nothing but what it delivers.
LEMMA ApplierCalm ==
  ASSUME Counting,
         PlainInv, PlainInv', Regular, NEW s \in Server,
         \/ ApplierTakeSnapshot(s) \/ ApplierTakeEntries(s)
         \/ ApplierSend(s) \/ ApplierDone(s),
         NEW L, NEW A, History(L, A), DeliveredTo(L, A, s)'
  PROVE  History(L, A)'
<1>1. TypeOK /\ IndInv
  BY PlainParts
<1>2. UNCHANGED <<CurrentTerm, Log, MatchIndex, CommitIndex, net>>
  BY DEF ApplierTakeSnapshot, ApplierTakeEntries, ApplierSend, ApplierDone,
         electionVars, logVars, leaderVars
<1>3. Quiet
  BY <1>1, LocalQuiet
<1>4. LeadersSame
  BY <1>3 DEF Quiet, Stays, LeadersSame, Leader, Candidate
<1>5. \A p \in Server : CommitIndex'[p] = CommitIndex[p] /\ CurrentTerm'[p] >= CurrentTerm[p]
  BY <1>1, <1>2, TermKept
<1>6. Counted(A)' /\ PeersCommit(L, A)'
  BY <1>2, <1>4, <1>5, IdleParts
<1>7. \A p \in Server \ {s} : UNCHANGED <<sm[p], applier[p]>>
  BY <1>1 DEF ApplierTakeSnapshot, ApplierTakeEntries, ApplierSend, ApplierDone, TypeOK
<1>8. Delivered(L, A)'
  BY <1>7, OneDelivers DEF History
<1>9. NoSuccess /\ \A x \in net' : x.type = "AppendEntries" => x \in net
  BY <1>2 DEF NoSuccess
<1>10. QED
  BY <1>2, <1>3, <1>6, <1>8, <1>9, QuietCalm

LEMMA TakeEntriesDelivers ==
  ASSUME PlainInv, NEW s \in Server, ApplierTakeEntries(s),
         NEW L, NEW A, History(L, A)
  PROVE  DeliveredTo(L, A, s)'
<1>1. TypeOK
  BY PlainParts
<1>2. PICK a \in Nat, c \in Nat : a = LastApplied[s] /\ c = CommitIndex[s]
  BY <1>1 DEF TypeOK
<1>3. /\ c > a /\ HasLogSlices(s, a + 1, c + 1) /\ sm' = sm
      /\ applier' = [applier EXCEPT ![s] =
           [busy |-> TRUE, upto |-> c,
            msgs |-> [k \in 1 .. Len(GetLogSlices(s, a + 1, c + 1)) |->
                        CommandMsg(GetLogSlices(s, a + 1, c + 1)[k])]]]
  BY <1>2 DEF ApplierTakeEntries
<1> DEFINE entries == GetLogSlices(s, a + 1, c + 1)
<1>4. LogIndexing /\ LastIncludedIndex[s] = 0
  BY PlainParts DEF PlainInv, Plain
<1>5. /\ Len(entries) = c - a
      /\ \A k \in 1 .. c - a : entries[k] = GetLogEntry(s, a + k)
  <2>1. /\ a + 1 \in Nat /\ c + 1 \in Nat /\ a + 1 <= c + 1 /\ a + 1 > 0
        /\ c + 1 - (a + 1) = c - a /\ \A k \in 1 .. c - a : a + 1 + k - 1 = a + k
    BY <1>3
  <2>2. QED
    <3>1. PICK from \in Nat, to \in Nat : from = a + 1 /\ to = c + 1
      BY <2>1
    <3>2. from > LastIncludedIndex[s] /\ from <= to /\ HasLogSlices(s, from, to)
      BY <1>3, <1>4, <2>1, <3>1
    <3>3. /\ GetLogSlices(s, from, to) \in Seq(LogEntry)
          /\ Len(GetLogSlices(s, from, to)) = to - from
          /\ \A k \in 1 .. to - from :
               /\ GetLogSlices(s, from, to)[k].Index = from + k - 1
               /\ GetLogSlices(s, from, to)[k] = GetLogEntry(s, from + k - 1)
      <4>1. TypeOK /\ LogIndexing
        BY <1>1, <1>4
      <4>2. QED
        BY <3>2, <4>1, LogSlices
    <3>4. to - from = c - a /\ \A k \in 1 .. c - a : from + k - 1 = a + k
      BY <2>1, <3>1
    <3>5. QED
      BY <3>1, <3>3, <3>4
<1>6. ASSUME NEW k \in 1 .. c - a
      PROVE  /\ entries[k] \in Held(s) /\ entries[k].Index = a + k
             /\ entries[k].Index <= c
  <2>1. PICK i \in Nat : i = a + k /\ i <= c
    BY <1>3
  <2>2. (c + 1) - LastIncludedIndex[s] <= Len(Log[s])
    BY <1>3 DEF HasLogSlices
  <2>3. i <= GetLastLog(s).Index
    <3>1. PICK n \in Nat : n = Len(Log[s]) /\ GetLastLog(s).Index = n - 1
      BY HeldLast
    <3>2. QED
      BY <1>4, <2>1, <2>2, <3>1
  <2>4. GetLogEntry(s, i) \in Held(s) /\ GetLogEntry(s, i).Index = i
    BY <2>3, HeldAt
  <2>5. entries[k] = GetLogEntry(s, i)
    BY <1>5, <2>1
  <2> HIDE DEF entries
  <2>6. QED
    BY <2>1, <2>4, <2>5
<1>7. Commits(L, A, Held(s), c, CurrentTerm[s])
  <2>1. c >= 1
    BY <1>3
  <2>2. QED
    BY <1>2, <2>1 DEF History, PeersCommit
<1>8. PICK x \in LogEntry : /\ Entry(L, x) /\ Chosen(A, x.Index, x.Term)
                            /\ c <= x.Index /\ Same(Held(s), L[x.Term], c)
  BY <1>7 DEF Commits
<1>9. ASSUME NEW k \in 1 .. c - a
      PROVE  Fixed(L, A, entries[k].Index,
                   [Term |-> entries[k].Term, Command |-> entries[k].Command])
  <2>1. PICK f \in Held(s) : f = entries[k]
    BY <1>6
  <2>2. f.Index <= c /\ f \in LogEntry
    BY <1>6, <2>1, HeldEntries
  <2>3. f \in L[x.Term]
    BY <1>8, <2>2 DEF Same
  <2>4. f.Index <= x.Index
    <3>1. f.Index \in Nat /\ x.Index \in Nat
      BY <2>2, EntryFields
    <3>2. QED
      BY <1>8, <2>2, <3>1
  <2>5. QED
    BY <1>8, <2>1, <2>2, <2>3, <2>4 DEF Fixed
<1>10. applier'[s].msgs = [k \in 1 .. c - a |-> CommandMsg(entries[k])]
  BY <1>1, <1>3, <1>5 DEF TypeOK
<1>11. Len(applier'[s].msgs) = c - a
  <2>1. c - a \in Nat
    BY <1>3
  <2> HIDE DEF entries
  <2>2. QED
    BY <1>10, <2>1, SMTT(60), Z3T(60)
<1>12. ASSUME NEW k \in 1 .. c - a
       PROVE  /\ applier'[s].msgs[k].kind = "command"
              /\ \E v : /\ applier'[s].msgs[k].data = <<v>>
                        /\ Fixed(L, A, applier'[s].msgs[k].Index, v)
  <2> DEFINE v == [Term |-> entries[k].Term, Command |-> entries[k].Command]
  <2>1. /\ applier'[s].msgs[k].kind = "command"
        /\ applier'[s].msgs[k].Index = entries[k].Index
        /\ applier'[s].msgs[k].data = <<v>>
    BY <1>10 DEF CommandMsg
  <2>2. Fixed(L, A, entries[k].Index, v)
    BY <1>9
  <2> HIDE DEF v
  <2>3. QED
    BY <2>1, <2>2
<1>13. \A i \in 1 .. Len(sm[s]) : Fixed(L, A, i, sm[s][i])
  BY DEF History, Delivered
<1>14. QED
  BY <1>3, <1>11, <1>12, <1>13 DEF DeliveredTo

LEMMA SendDelivers ==
  ASSUME PlainInv, ApplyInv, NEW s \in Server, ApplierSend(s), NEW L, NEW A, History(L, A)
  PROVE  DeliveredTo(L, A, s)'
<1>1. TypeOK
  BY PlainParts
<1>2. DeliveredTo(L, A, s)
  BY DEF History, Delivered, DeliveredTo
<1>3. /\ sm[s] \in Seq(Applied) /\ applier[s].msgs \in Seq(ApplyMsg)
      /\ applier[s].msgs # <<>>
  BY <1>1 DEF TypeOK, ApplierSend
<1>4. PICK msgs \in Seq(ApplyMsg), n \in Nat :
        msgs = applier[s].msgs /\ n = Len(msgs) /\ n >= 1 /\ msgs # <<>>
  BY <1>3, EmptySeq, SeqElements
<1>5. Head(msgs) = msgs[1] /\ Tail(msgs) \in Seq(ApplyMsg) /\ Len(Tail(msgs)) = n - 1
      /\ \A k \in 1 .. n - 1 : Tail(msgs)[k] = msgs[k + 1]
  BY <1>4, SeqTail
<1>6. 1 \in 1 .. n
  BY <1>4
<1>7. PICK v : /\ msgs[1].kind = "command" /\ msgs[1].data = <<v>>
               /\ Fixed(L, A, msgs[1].Index, v)
  BY <1>2, <1>4, <1>6 DEF DeliveredTo
<1>8. PICK i \in Nat : i = Len(sm[s]) /\ msgs[1].Index = i + 1
  <2>1. Len(sm[s]) \in Nat
    BY <1>3, SeqElements
  <2>2. Ordered(s)
    BY DEF ApplyInv
  <2>3. DeliversCommands(s)
    <3>1. ~DeliversSnapshot(s)
      BY <1>4, <1>7 DEF DeliversSnapshot
    <3>2. ~Settled(s)
      BY <1>4 DEF Settled
    <3>3. QED
      BY <2>2, <3>1, <3>2 DEF Ordered, Delivers
  <2>4. msgs[1].Index = Len(sm[s]) + 1
    BY <1>4, <1>6, <2>3 DEF DeliversCommands
  <2>5. QED
    BY <2>1, <2>4
<1>9. sm'[s] = sm[s] \o <<v>> /\ applier'[s].msgs = Tail(msgs)
  <2>1. "command" # "snapshot"
    OBVIOUS
  <2>2. sm'[s] = sm[s] \o <<v>>
    <3>1. sm' = [sm EXCEPT ![s] = IF Head(msgs).kind = "snapshot" THEN Head(msgs).data
                                  ELSE sm[s] \o Head(msgs).data]
      BY <1>4 DEF ApplierSend
    <3>2. sm'[s] = IF Head(msgs).kind = "snapshot" THEN Head(msgs).data
                   ELSE sm[s] \o Head(msgs).data
      BY <1>1, <3>1 DEF TypeOK
    <3>3. QED
      BY <1>5, <1>7, <2>1, <3>2
  <2>3. applier'[s].msgs = Tail(msgs)
    BY <1>1, <1>4 DEF ApplierSend, TypeOK
  <2>4. QED
    BY <2>2, <2>3
<1>10. /\ Len(sm'[s]) = i + 1 /\ sm'[s][i + 1] = v
       /\ \A k \in 1 .. i : sm'[s][k] = sm[s][k]
  <2>1. /\ Len(sm[s] \o <<v>>) = i + 1 /\ (sm[s] \o <<v>>)[i + 1] = v
        /\ \A k \in 1 .. i : (sm[s] \o <<v>>)[k] = sm[s][k]
    BY <1>3, <1>8, SMTT(60), Z3T(60)
  <2>2. QED
    BY <1>9, <2>1
<1>11. ASSUME NEW k \in 1 .. i + 1 PROVE Fixed(L, A, k, sm'[s][k])
  <2>1. CASE k = i + 1
    BY <1>7, <1>8, <1>10, <2>1
  <2>2. CASE k \in 1 .. i
    BY <1>2, <1>8, <1>10, <2>2 DEF DeliveredTo
  <2>3. QED
    BY <1>8, <2>1, <2>2
<1>12. ASSUME NEW k \in 1 .. n - 1
       PROVE  /\ Tail(msgs)[k].kind = "command"
              /\ \E w : Tail(msgs)[k].data = <<w>> /\ Fixed(L, A, Tail(msgs)[k].Index, w)
  <2>1. k + 1 \in 1 .. n
    BY <1>4
  <2>2. /\ msgs[k + 1].kind = "command"
        /\ \E w : msgs[k + 1].data = <<w>> /\ Fixed(L, A, msgs[k + 1].Index, w)
    BY <1>2, <1>4, <2>1 DEF DeliveredTo
  <2>3. Tail(msgs)[k] = msgs[k + 1]
    BY <1>5
  <2>4. QED
    BY <2>2, <2>3
<1>13. QED
  BY <1>5, <1>9, <1>10, <1>11, <1>12 DEF DeliveredTo

LEMMA ApplierHistory ==
  ASSUME Counting,
         PlainInv, PlainInv', Regular, ApplyInv, NEW s \in Server,
         \/ ApplierTakeSnapshot(s) \/ ApplierTakeEntries(s)
         \/ ApplierSend(s) \/ ApplierDone(s),
         NEW L, NEW A, History(L, A)
  PROVE  History(L, A)'
<1>1. TypeOK
  BY PlainParts
<1>2. CASE ApplierTakeSnapshot(s)
  <2>1. LastApplied[s] \in Nat /\ LastIncludedIndex[s] = 0 /\ LastApplied[s] < LastIncludedIndex[s]
    BY <1>1, <1>2 DEF ApplierTakeSnapshot, TypeOK, PlainInv, Plain
  <2>2. QED
    BY <2>1
<1>3. CASE ApplierTakeEntries(s)
  BY <1>3, TakeEntriesDelivers, ApplierCalm
<1>4. CASE ApplierSend(s)
  BY <1>4, SendDelivers, ApplierCalm
<1>5. CASE ApplierDone(s)
  <2>1. sm' = sm /\ applier'[s] = Idle
    BY <1>1, <1>5 DEF ApplierDone, TypeOK
  <2>2. Len(applier'[s].msgs) = 0
    BY <2>1 DEF Idle
  <2>3. \A i \in 1 .. Len(sm[s]) : Fixed(L, A, i, sm[s][i])
    BY DEF History, Delivered
  <2>4. \A k : ~(k \in 1 .. 0)
    OBVIOUS
  <2>5. DeliveredTo(L, A, s)'
    BY <2>1, <2>2, <2>3, <2>4 DEF DeliveredTo
  <2>6. QED
    BY <1>5, <2>5, ApplierCalm
<1>6. QED
  BY <1>2, <1>3, <1>4, <1>5

-----------------------------------------------------------------------------
(***************************************************************************)
(* Replication calls and their success.                                    *)
(***************************************************************************)
\* A leader's log reaches its commit index.
LEMMA LeaderCommitHeld ==
  ASSUME Counting,
         PlainInv, NEW s \in Server, State[s] = Leader, NEW L, NEW A, History(L, A)
  PROVE  /\ CommitIndex[s] <= GetLastLog(s).Index
         /\ L[CurrentTerm[s]] = Held(s) /\ Held(s) # {} /\ CurrentTerm[s] \in Nat
<1>1. TypeOK
  BY PlainParts
<1>2. PICK t \in Nat, i \in Nat : t = CurrentTerm[s] /\ i = CommitIndex[s]
  BY <1>1 DEF TypeOK
<1>3. L[t] = Held(s)
  BY <1>2 DEF History, Leads
<1>4. GetLastLog(s) \in Held(s) /\ GetLastLog(s).Index \in Nat
  BY HeldLast
<1>5. CASE i = 0
  BY <1>2, <1>3, <1>4, <1>5
<1>6. CASE i >= 1
  <2>1. Commits(L, A, Held(s), i, t)
    BY <1>2, <1>6 DEF History, PeersCommit
  <2>2. t <= t /\ L[t] # {}
    BY <1>3, <1>4
  <2>3. PICK f \in L[t] : f.Index = i
    <3>1. LeaderLogs(L) /\ Lasting(L, A)
      BY DEF History
    <3>2. QED
      BY <2>1, <2>2, <3>1, CommitsReach
  <2>4. QED
    BY <1>2, <1>3, <1>4, <2>3, HeldLast
<1>7. QED
  BY <1>5, <1>6

LEMMA BroadcastBears ==
  ASSUME Counting,
         PlainInv, NEW s \in Server, NEW p \in Server, BroadcastEntries(s, p),
         NEW L, NEW A, History(L, A)
  PROVE  \E m : Bears(L, A, m) /\ net' \subseteq net \cup {m} /\ m.type = "AppendEntries"
<1>1. TypeOK /\ LogIndexing /\ LastIncludedIndex[s] = 0
  BY PlainParts DEF PlainInv, Plain
<1>2. PICK next \in Nat, t \in Nat, last \in Nat, c \in Nat :
        next = NextIndex[s][p] /\ t = CurrentTerm[s] /\ last = GetLastLog(s).Index /\ c = CommitIndex[s]
  <2>1. GetLastLog(s).Index \in Nat
    BY HeldLast
  <2>2. NextIndex[s][p] \in Nat /\ CurrentTerm[s] \in Nat /\ CommitIndex[s] \in Nat
    BY <1>1 DEF TypeOK
  <2>3. QED
    BY <2>1, <2>2
<1>3. State[s] = Leader /\ next > 0 /\ HasLogSlices(s, next, last + 1) /\ next <= last + 1
  <2>1. /\ State[s] = Leader /\ NextIndex[s][p] > LastIncludedIndex[s]
        /\ HasLogSlices(s, NextIndex[s][p], GetLastLog(s).Index + 1)
        /\ NextIndex[s][p] <= GetLastLog(s).Index + 1
    BY DEF BroadcastEntries
  <2>2. QED
    BY <1>1, <1>2, <2>1
<1>4. c <= last /\ L[t] = Held(s)
  BY <1>2, <1>3, LeaderCommitHeld
<1> DEFINE entries == GetLogSlices(s, next, last + 1)
<1>5. /\ Len(entries) = last + 1 - next
      /\ \A k \in 1 .. last + 1 - next : entries[k] = GetLogEntry(s, next + k - 1)
  <2>1. PICK end \in Nat : end = last + 1
    OBVIOUS
  <2>2. next > LastIncludedIndex[s] /\ HasLogSlices(s, next, end) /\ next <= end
    BY <1>1, <1>3, <2>1
  <2>3. TypeOK /\ LogIndexing
    BY <1>1
  <2>4. /\ GetLogSlices(s, next, end) \in Seq(LogEntry)
        /\ Len(GetLogSlices(s, next, end)) = end - next
        /\ \A k \in 1 .. end - next :
             /\ GetLogSlices(s, next, end)[k].Index = next + k - 1
             /\ GetLogSlices(s, next, end)[k] = GetLogEntry(s, next + k - 1)
    BY <2>2, <2>3, LogSlices
  <2>5. end - next = last + 1 - next
    BY <2>1
  <2>6. QED
    BY <2>1, <2>4, <2>5
<1>6. PICK m : /\ net' \subseteq net \cup {m} /\ m.type = "AppendEntries"
               /\ m.Term = t /\ m.PrevLogIndex = next - 1
               /\ m.PrevLogTerm = GetLogEntry(s, next - 1).Term
               /\ m.Entries = entries /\ m.LeaderCommit = c
  <2> DEFINE m == [type |-> "AppendEntries", from |-> s, to |-> p, boot |-> boot[s],
                   Term |-> t, PrevLogIndex |-> next - 1,
                   PrevLogTerm |-> GetLogEntry(s, next - 1).Term,
                   Entries |-> entries, LeaderCommit |-> c]
  <2>1. net' \subseteq net \cup {m}
    BY <1>2, SendAdds DEF BroadcastEntries
  <2>2. /\ m.type = "AppendEntries"
        /\ m.Term = t /\ m.PrevLogIndex = next - 1
        /\ m.PrevLogTerm = GetLogEntry(s, next - 1).Term
        /\ m.Entries = entries /\ m.LeaderCommit = c
    OBVIOUS
  <2> HIDE DEF m
  <2>3. QED
    BY <2>1, <2>2
<1>7. ASSUME NEW k \in 1 .. Len(m.Entries) PROVE m.Entries[k] \in L[t]
  <2>1. k \in 1 .. last + 1 - next
    BY <1>5, <1>6
  <2>2. PICK i \in Nat : i = next + k - 1 /\ i <= last
    BY <1>3, <2>1
  <2>3. GetLogEntry(s, i) \in Held(s)
    BY <1>2, <2>2, HeldAt
  <2>4. m.Entries[k] = GetLogEntry(s, i)
    BY <1>5, <1>6, <2>1, <2>2
  <2>5. QED
    BY <1>4, <2>3, <2>4
<1>8. \E f \in L[t] : f.Index = m.PrevLogIndex /\ f.Term = m.PrevLogTerm
  <2>1. PICK i \in Nat : i = next - 1 /\ i <= last
    BY <1>3
  <2>2. GetLogEntry(s, i) \in Held(s) /\ GetLogEntry(s, i).Index = i
    BY <1>2, <2>1, HeldAt
  <2>3. QED
    BY <1>4, <1>6, <2>1, <2>2
<1>9. End(m) = last
  <2>1. next - 1 + (last + 1 - next) = last
    OBVIOUS
  <2>2. QED
    BY <1>5, <1>6, <2>1 DEF End
<1>10. ASSUME NEW e \in L[t] PROVE ~(e.Index > last)
  <2>1. e \in LogEntry /\ e.Index <= last
    BY <1>2, <1>4, HeldLast, HeldEntries
  <2>2. QED
    BY <2>1, EntryFields
<1>11. Carries(L, m)
  BY <1>6, <1>7, <1>8, <1>9, <1>10 DEF Carries
<1>12. ASSUME c >= 1 PROVE Commits(L, A, L[t], c, t)
  BY <1>2, <1>4, <1>12 DEF History, PeersCommit
<1>13. QED
  BY <1>4, <1>6, <1>9, <1>11, <1>12 DEF Bears

LEMMA BroadcastCalm ==
  ASSUME Counting,
         PlainInv, PlainInv', Regular, NEW s \in Server, NEW p \in Server,
         BroadcastEntries(s, p), NEW L, NEW A, History(L, A)
  PROVE  History(L, A)'
<1>1. TypeOK /\ IndInv
  BY PlainParts
<1>2. UNCHANGED <<CurrentTerm, Log, MatchIndex, CommitIndex, sm, applier>>
  BY DEF BroadcastEntries, electionVars, logVars, leaderVars, applyVars
<1>3. Quiet
  BY <1>1, LocalQuiet
<1>4. LeadersSame
  BY <1>3 DEF Quiet, Stays, LeadersSame, Leader, Candidate
<1>5. \A q \in Server : CommitIndex'[q] = CommitIndex[q] /\ CurrentTerm'[q] >= CurrentTerm[q]
  BY <1>1, <1>2, TermKept
<1>6. Counted(A)' /\ PeersCommit(L, A)'
  BY <1>2, <1>4, <1>5, IdleParts
<1>7. Delivered(L, A)'
  BY <1>2, GrowsNot, DeliveredStill DEF History
<1>8. PICK m : Bears(L, A, m) /\ net' \subseteq net \cup {m} /\ m.type = "AppendEntries"
  BY BroadcastBears
<1>9. NoSuccess /\ \A x \in net' : x.type = "AppendEntries" => x \in net \/ Bears(L, A, x)
  BY <1>8 DEF NoSuccess
<1>10. QED
  BY <1>2, <1>3, <1>6, <1>7, <1>9, QuietCalm

\* What updateCommitIndex() adds has been acknowledged by a majority.
LEMMA ReplicatedIsChosen ==
  ASSUME Counting,
         NEW s \in Server, NEW A, NEW match, NEW n \in Nat, NEW t, n >= 1,
         \A p \in Server : match[p] \in Nat /\ \A i \in 1 .. match[p] : Acked(A, p, i, t),
         Acked(A, s, n, t), Replicated(s, match, n)
  PROVE  Chosen(A, n, t)
<1> DEFINE P == {p \in Server \ {s} : match[p] >= n}
           Q == P \cup {s}
<1>1. P \in SUBSET Server /\ Q \in SUBSET Server /\ s \notin P
  OBVIOUS
<1>2. Cardinality(P) + 1 >= Majority
  BY DEF Replicated
<1>3. \A p \in Q : Acked(A, p, n, t)
  <2>1. ASSUME NEW p \in P PROVE Acked(A, p, n, t)
    <3>1. match[p] \in Nat /\ match[p] >= n
      OBVIOUS
    <3>2. n \in 1 .. match[p]
      BY <3>1
    <3>3. QED
      BY <1>1, <3>2
  <2>2. QED
    BY <2>1
<1> HIDE DEF P
<1>4. Cardinality(Q) = Cardinality(P) + 1
  BY <1>1 DEF Counting
<1>5. QED
  BY <1>1, <1>2, <1>3, <1>4 DEF Chosen

LEMMA UpdateCommits ==
  ASSUME Counting,
         PlainInv, NEW s \in Server, State[s] = Leader, NEW L, NEW A, History(L, A),
         NEW match, \A p \in Server : match[p] \in Nat /\
                      \A i \in 1 .. match[p] : Acked(A, p, i, CurrentTerm[s]),
         updateCommitIndex(s, match) >= 1
  PROVE  Commits(L, A, Held(s), updateCommitIndex(s, match), CurrentTerm[s])
<1> DEFINE S == {n \in CommitIndex[s] + 1 .. GetLastLog(s).Index :
                   GetLogEntry(s, n).Term = CurrentTerm[s] /\ Replicated(s, match, n)}
           T == {CommitIndex[s]} \cup S
<1>1. TypeOK
  BY PlainParts
<1>2. PICK c \in Nat, last \in Nat, t \in Nat :
        c = CommitIndex[s] /\ last = GetLastLog(s).Index /\ t = CurrentTerm[s]
  <2>1. GetLastLog(s).Index \in Nat
    BY HeldLast
  <2>2. CurrentTerm[s] \in Nat /\ CommitIndex[s] \in Nat
    BY <1>1 DEF TypeOK
  <2>3. QED
    BY <2>1, <2>2
<1>3. T \in SUBSET Nat /\ T # {} /\ c + last \in Nat /\ \A y \in T : y <= c + last
  BY <1>2
<1>4. updateCommitIndex(s, match) = MaxOf(T)
  BY DEF updateCommitIndex
<1>5. MaxOf(T) \in T
  <2> HIDE DEF T
  <2>1. QED
    BY <1>3, MaxOfNat
<1>6. CASE MaxOf(T) = CommitIndex[s]
  BY <1>4, <1>6 DEF History, PeersCommit
<1>7. CASE MaxOf(T) \in S
  <2>1. PICK n \in Nat : /\ n = MaxOf(T) /\ n >= 1 /\ n <= last
                         /\ GetLogEntry(s, n).Term = t /\ Replicated(s, match, n)
    <3> HIDE DEF T
    <3>1. PICK n : n = MaxOf(T)
      OBVIOUS
    <3>2. /\ n \in c + 1 .. last
          /\ GetLogEntry(s, n).Term = t /\ Replicated(s, match, n)
      BY <1>2, <1>7, <3>1
    <3>3. n \in Nat /\ n >= 1 /\ n <= last
      BY <3>2
    <3>4. QED
      BY <3>1, <3>2, <3>3
  <2> HIDE DEF T, S
  <2>2. PICK e \in Held(s) : e.Index = n /\ e.Term = t
    <3>1. HasLogEntry(s, n)
      BY <1>2, <2>1, HeldAt
    <3>2. GetLogEntry(s, n) \in Held(s) /\ GetLogEntry(s, n).Index = n
      BY <3>1, HeldAt
    <3>3. QED
      BY <2>1, <3>2
  <2>3. e \in LogEntry /\ L[t] = Held(s)
    BY <1>2, HeldEntries DEF History, Leads
  <2>4. Acked(A, s, n, t)
    BY <1>2, <2>1, <2>2 DEF History, Counted
  <2>5. Chosen(A, n, t)
    BY <1>2, <2>1, <2>4, ReplicatedIsChosen
  <2>6. Entry(L, e) /\ Same(Held(s), L[t], n) /\ t <= t /\ n <= n
    BY <2>1, <2>2, <2>3 DEF Entry, Same
  <2>7. Commits(L, A, Held(s), n, t)
    BY <2>2, <2>3, <2>5, <2>6 DEF Commits
  <2>8. QED
    BY <1>2, <1>4, <2>1, <2>7
<1>8. QED
  BY <1>5, <1>6, <1>7

LEMMA MatchedCalm ==
  ASSUME Counting,
         PlainInv, PlainInv', Regular, Quiet, NEW s \in Server, NEW p \in Server, NEW match \in Nat,
         State[s] = Leader, Matched(s, p, match), net' \subseteq net,
         UNCHANGED <<CurrentTerm, State, Log, sm, applier>>,
         NEW L, NEW A, History(L, A), \A i \in 1 .. match : Acked(A, p, i, CurrentTerm[s])
  PROVE  History(L, A)'
<1>1. TypeOK /\ TypeOK'
  BY DEF PlainInv, TenureInv, MatchingInv, ElectionInv, IndInv
<1>2. \A q \in Server : Held(q)' = Held(q)
  BY DEF Held
<1>3. /\ \A q, r \in Server : MatchIndex[q][r] \in Nat /\ MatchIndex'[q][r] \in Nat
      /\ \A q \in Server : q # s => MatchIndex'[q] = MatchIndex[q]
      /\ \A q \in Server : q # p => MatchIndex'[s][q] = MatchIndex[s][q]
      /\ MatchIndex'[s][p] \in {MatchIndex[s][p], match}
  <2>1. MatchIndex \in [Server -> [Server -> Nat]] /\ MatchIndex' \in [Server -> [Server -> Nat]]
    BY <1>1 DEF TypeOK
  <2>2. MatchIndex' = [MatchIndex EXCEPT ![s][p] = MaxOf({MatchIndex[s][p], match})]
    BY DEF Matched
  <2>3. MaxOf({MatchIndex[s][p], match}) \in {MatchIndex[s][p], match}
    BY <2>1, MaxOfTwo
  <2>4. MatchIndex'[s][p] = MaxOf({MatchIndex[s][p], match})
    BY <2>1, <2>2
  <2>5. QED
    BY <2>1, <2>2, <2>3, <2>4
<1>4. ASSUME NEW q \in Server
      PROVE  \A i \in 1 .. MatchIndex'[s][q] : Acked(A, q, i, CurrentTerm[s])
  <2>1. \A i \in 1 .. MatchIndex[s][q] : Acked(A, q, i, CurrentTerm[s])
    BY DEF History, Counted
  <2>2. QED
    BY <1>3, <2>1
<1>5. Counted(A)'
  <2> SUFFICES ASSUME NEW q \in Server, State'[q] = Leader
               PROVE  /\ \A r \in Server : \A i \in 1 .. MatchIndex'[q][r] :
                           Acked(A, r, i, CurrentTerm'[q])
                      /\ \A e \in Held(q)' : e.Index >= 1 /\ e.Term = CurrentTerm'[q] =>
                           Acked(A, q, e.Index, e.Term)
    BY DEF Counted
  <2>1. \A r \in Server : \A i \in 1 .. MatchIndex'[q][r] : Acked(A, r, i, CurrentTerm[q])
    BY <1>3, <1>4 DEF History, Counted
  <2>2. \A e \in Held(q) : e.Index >= 1 /\ e.Term = CurrentTerm[q] => Acked(A, q, e.Index, e.Term)
    BY DEF History, Counted
  <2>3. QED
    BY <1>2, <2>1, <2>2
<1>6. PeersCommit(L, A)'
  <2> SUFFICES ASSUME NEW q \in Server, CommitIndex'[q] >= 1
               PROVE  Commits(L, A, Held(q)', CommitIndex'[q], CurrentTerm'[q])
    BY DEF PeersCommit
  <2>1. CASE q = s
    <3>1. CommitIndex'[s] = updateCommitIndex(s, MatchIndex'[s])
      BY <1>1 DEF Matched, TypeOK
    <3>2. PICK m : m = MatchIndex'[s]
      OBVIOUS
    <3>3. Commits(L, A, Held(s), updateCommitIndex(s, m), CurrentTerm[s])
      BY <1>3, <1>4, <2>1, <3>1, <3>2, UpdateCommits
    <3>4. QED
      BY <1>2, <2>1, <3>1, <3>2, <3>3
  <2>2. CASE q # s
    <3>1. CommitIndex'[q] = CommitIndex[q]
      BY <1>1, <2>2 DEF Matched, TypeOK
    <3>2. QED
      BY <1>2, <3>1 DEF History, PeersCommit
  <2>3. QED
    BY <2>1, <2>2
<1>7. Delivered(L, A)'
  BY GrowsNot, DeliveredStill DEF History
<1>8. NoSuccess /\ \A m \in net' : m.type = "AppendEntries" => m \in net
  BY DEF NoSuccess
<1>9. QED
  BY <1>5, <1>6, <1>7, <1>8, QuietCalm

LEMMA SuccessCalm ==
  ASSUME Counting,
         PlainInv, PlainInv', Regular, NEW m \in net,
         \/ m.type = "AppendEntriesReply" /\ EntriesReplySuccess(m)
         \/ m.type = "InstallSnapShotReply" /\ SnapShotReplySuccess(m),
         NEW L, NEW A, History(L, A)
  PROVE  History(L, A)'
<1>1. TypeOK /\ IndInv
  BY PlainParts
<1>2. Quiet
  BY <1>1, ReplyQuiet
<1>3. /\ UNCHANGED <<CurrentTerm, State, Log, sm, applier>> /\ Consume(m)
      /\ m.args.Term = CurrentTerm[m.args.from]
  BY DEF EntriesReplySuccess, SnapShotReplySuccess, electionVars, logVars, applyVars
<1>4. net' \subseteq net
  BY <1>3, ConsumeAdds
<1>5. PICK s \in Server : s = m.args.from /\ State[s] = Leader
  <2>1. CallReply(m) /\ m.args.from \in Server
    BY <1>1, CallTypes DEF CallReply, CallsTyped
  <2>2. InOffice(m.args.from, m.args.Term)
    BY <2>1 DEF PlainInv, TenureInv, Tenure
  <2>3. QED
    BY <1>3, <2>1, <2>2 DEF InOffice
<1>6. CASE m.type = "AppendEntriesReply" /\ EntriesReplySuccess(m)
  <2>1. m.args \in AppendEntriesArgs
    BY <1>1, <1>6, MessageTypes DEF AppendEntriesReply
  <2>2. PICK p \in Server, match \in Nat : p = m.args.to /\ match = End(m.args)
    BY <2>1, EntriesArgs
  <2>3. Matched(s, p, match) /\ m.result.Success
    BY <1>5, <1>6, <2>2 DEF EntriesReplySuccess, End
  <2>4. \A i \in 1 .. match : Acked(A, p, i, CurrentTerm[s])
    BY <1>3, <1>5, <1>6, <2>2, <2>3 DEF History, Confirmed
  <2>5. QED
    BY <1>2, <1>3, <1>4, <1>5, <2>3, <2>4, MatchedCalm
<1>7. CASE m.type = "InstallSnapShotReply" /\ SnapShotReplySuccess(m)
  <2>1. m.args \in InstallSnapshotArgs
    BY <1>1, <1>7, MessageTypes DEF InstallSnapshotReply
  <2>2. PICK p \in Server : p = m.args.to /\ m.args.LastIncludedIndex = 0
    BY <1>7, <2>1 DEF InstallSnapshotArgs, PlainInv, Plain, PlainMsg
  <2>3. Matched(s, p, 0)
    BY <1>5, <1>7, <2>2 DEF SnapShotReplySuccess
  <2>4. 0 \in Nat /\ \A i \in 1 .. 0 : Acked(A, p, i, CurrentTerm[s])
    OBVIOUS
  <2>5. QED
    BY <1>2, <1>3, <1>4, <1>5, <2>3, <2>4, MatchedCalm
<1>8. QED
  BY <1>6, <1>7

-----------------------------------------------------------------------------
(***************************************************************************)
(* Votes.                                                                  *)
(***************************************************************************)
\* A step that moves no index and makes no replication call.
LEMMA VotingParts ==
  ASSUME PlainInv, PlainInv', LeadersSame, UNCHANGED <<Log, MatchIndex, CommitIndex, sm, applier>>,
         \A s \in Server : CurrentTerm'[s] >= CurrentTerm[s],
         NEW L, NEW A, History(L, A)
  PROVE  Counted(A)' /\ PeersCommit(L, A)' /\ Delivered(L, A)'
<1>1. Counted(A)' /\ PeersCommit(L, A)'
  BY IdleParts
<1>2. Delivered(L, A)'
  BY GrowsNot, DeliveredStill DEF History
<1>3. QED
  BY <1>1, <1>2

LEMMA AttemptCalm ==
  ASSUME Counting,
         PlainInv, PlainInv', Regular, NEW s \in Server, AttemptElection(s),
         NEW L, NEW A, History(L, A)
  PROVE  History(L, A)'
<1>1. TypeOK /\ TenureInv /\ TypeOK'
  BY DEF PlainInv, TenureInv, MatchingInv, ElectionInv, IndInv
<1>2. UNCHANGED <<Log, MatchIndex, CommitIndex, sm, applier>>
  BY DEF AttemptElection, logVars, leaderVars, applyVars
<1>3. /\ CurrentTerm' = [CurrentTerm EXCEPT ![s] = CurrentTerm[s] + 1]
      /\ State' = [State EXCEPT ![s] = Candidate]
  BY DEF AttemptElection
<1>4. CurrentTerm[s] + 1 \in Nat /\ CurrentTerm[s] + 1 >= CurrentTerm[s]
  BY <1>1, NextTerm
<1>5. \A p \in Server : CurrentTerm'[p] >= CurrentTerm[p]
  BY <1>1, <1>3, <1>4, TermRises
<1>6. LeadersSame
  BY <1>1, <1>3 DEF LeadersSame, TypeOK, Leader, Candidate
<1>7. ASSUME NEW m \in net', m \notin net PROVE m.type = "RequestVote"
  BY <1>7, CandidateAsks
<1>8. NoSuccess /\ \A m \in net' : m.type = "AppendEntries" => m \in net
  BY <1>7 DEF NoSuccess
<1>9. VotesCheck(L, A)'
  <2> SUFFICES ASSUME NEW c \in Server, NEW p \in Server, NEW e \in LogEntry,
                      State'[c] = Candidate, e.Term < CurrentTerm'[c],
                      HasVote(p, c, CurrentTerm[c])',
                      Alive(L, A, e)', e \notin Held(c)'
               PROVE  ~Acked(A, p, e.Index, e.Term)
    BY DEF VotesCheck
  <2>1. PICK t \in Nat : t = CurrentTerm'[c]
    BY <1>1 DEF TypeOK
  <2>2. HasVote(p, c, t)'
    BY <2>1 DEF HasVote
  <2>3. Alive(L, A, e)
    BY <1>1, AddsNot, AliveBefore DEF Alive
  <2>4. e \notin Held(c)
    BY <1>2 DEF Held
  <2>5. HasVote(p, c, t) \/ (p = s /\ c = s)
    BY <1>1, <2>2, AttemptElectionCasts
  <2>6. CASE c # s
    <3>1. State[c] = Candidate /\ CurrentTerm[c] = t
      BY <1>1, <1>3, <2>1, <2>6 DEF TypeOK
    <3>2. QED
      BY <2>1, <2>3, <2>4, <2>5, <2>6, <3>1 DEF History, VotesCheck
  <2>7. CASE c = s
    <3>1. t = CurrentTerm[s] + 1
      BY <1>1, <1>3, <2>1, <2>7 DEF TypeOK
    <3>2. ~HasVote(p, c, t)
      <4>1. PICK u \in Nat, d \in Nat : u = CurrentTerm[s] /\ d = disk[s].CurrentTerm /\ d <= u
        <5>1. CurrentTerm[s] \in Nat /\ disk[s].CurrentTerm \in Nat
          BY <1>1 DEF TypeOK, Persisted
        <5>2. disk[s].CurrentTerm <= CurrentTerm[s]
          BY <1>1 DEF TenureInv, Tenure, TermSaved
        <5>3. QED
          BY <5>1, <5>2
      <4>2. ~(t <= d) /\ u # t
        BY <3>1, <4>1
      <4>3. \A m \in net : m.type = "RequestVoteReply" => m.args.Term <= disk[m.args.from].CurrentTerm
        BY DEF PlainInv, Plain, PlainMsg
      <4>4. QED
        BY <2>7, <4>1, <4>2, <4>3 DEF HasVote
    <3>3. p = s
      BY <2>5, <3>2
    <3>4. QED
      BY <2>3, <2>4, <2>7, <3>3 DEF History, Kept
  <2>8. QED
    BY <2>6, <2>7
<1>10. Counted(A)' /\ PeersCommit(L, A)' /\ Delivered(L, A)'
  BY <1>2, <1>5, <1>6, VotingParts
<1>11. QED
  BY <1>2, <1>6, <1>8, <1>9, <1>10, CalmStep

\* The comparison of RequestVote(): who passes it holds what the voter holds
\* of what may be committed.
LEMMA UpToDateHolds ==
  ASSUME PlainInv, NEW c \in Server, NEW p \in Server, NEW L, NEW A, History(L, A),
         NEW e \in LogEntry, Alive(L, A, e), e \in Held(p),
         \/ GetLastLog(c).Term > GetLastLog(p).Term
         \/ /\ GetLastLog(c).Term = GetLastLog(p).Term
            /\ GetLastLog(c).Index >= GetLastLog(p).Index
  PROVE  e \in Held(c)
<1>1. PICK x \in Held(c), y \in Held(p) : x = GetLastLog(c) /\ y = GetLastLog(p)
  BY HeldLast
<1>2. /\ x \in LogEntry /\ y \in LogEntry
      /\ x.Term \in Nat /\ x.Index \in Nat /\ y.Term \in Nat /\ y.Index \in Nat
      /\ e.Term \in Nat /\ e.Index \in Nat
  BY HeldEntries, EntryFields
<1>3. /\ IsLog(Held(c)) /\ Rooted(L, Held(c), disk[c].CurrentTerm)
      /\ IsLog(Held(p)) /\ Rooted(L, Held(p), disk[p].CurrentTerm)
      /\ LeaderLogs(L) /\ disk[c].CurrentTerm \in Nat /\ disk[p].CurrentTerm \in Nat
  BY PlainParts DEF History, PeerLogs, TypeOK, Persisted
<1>4. e.Index <= y.Index /\ e.Index >= 1
  BY <1>1, HeldLast DEF Alive, Entry
<1>5. e.Term <= y.Term
  BY <1>3, <1>4, TermsRise
<1>6. CASE x.Term > y.Term
  <2>1. x.Index >= 1
    <3>1. CASE x.Index = 0
      <4>1. Placeholder(0, 0) \in Held(c) /\ Placeholder(0, 0).Index = 0 /\ Placeholder(0, 0).Term = 0
        BY <1>3 DEF IsLog, Placeholder
      <4>2. x = Placeholder(0, 0)
        BY <1>3, <3>1, <4>1 DEF IsLog
      <4>3. QED
        BY <1>2, <1>6, <4>1, <4>2
    <3>2. QED
      BY <1>2, <3>1
  <2>2. /\ x \in L[x.Term] /\ Same(Held(c), L[x.Term], x.Index)
        /\ IsLog(L[x.Term]) /\ Rooted(L, L[x.Term], x.Term)
    BY <1>3, <2>1, RootedEntry
  <2>3. x.Term > e.Term
    BY <1>2, <1>5, <1>6
  <2>4. e \in L[x.Term]
    BY <1>2, <2>2, <2>3 DEF History, Lasting
  <2>5. e.Index <= x.Index
    <3>1. CASE x.Index <= e.Index
      <4>1. x.Term <= e.Term
        BY <1>2, <1>3, <2>2, <2>4, <3>1, TermsRise
      <4>2. QED
        BY <1>2, <2>3, <4>1
    <3>2. QED
      BY <1>2, <3>1
  <2>6. QED
    BY <2>2, <2>4, <2>5 DEF Same
<1>7. CASE x.Term = y.Term /\ x.Index >= y.Index
  <2>1. x.Index >= 1 /\ y.Index >= 1 /\ e.Index <= x.Index
    BY <1>2, <1>4, <1>7
  <2>2. Same(Held(c), L[x.Term], x.Index) /\ Same(Held(p), L[x.Term], y.Index)
    BY <1>3, <1>7, <2>1, RootedEntry
  <2>3. e \in L[x.Term]
    BY <1>4, <2>2 DEF Same
  <2>4. QED
    BY <2>1, <2>2, <2>3 DEF Same
<1>8. QED
  BY <1>1, <1>6, <1>7

LEMMA GrantCalm ==
  ASSUME Counting,
         PlainInv, PlainInv', Regular, NEW m \in net, m.type = "RequestVote", RequestVoteGrant(m),
         NEW L, NEW A, History(L, A)
  PROVE  History(L, A)'
<1>1. TypeOK /\ TypeOK'
  BY DEF PlainInv, TenureInv, MatchingInv, ElectionInv, IndInv
<1>2. UNCHANGED <<Log, MatchIndex, CommitIndex, sm, applier>>
  BY DEF RequestVoteGrant, logVars, leaderVars, applyVars
<1>3. m.to \in Server /\ m.from \in Server /\ m.Term \in Nat
  BY <1>1, MessageTypes DEF RequestVoteArgs
<1>4. \A s \in Server : CurrentTerm'[s] >= CurrentTerm[s]
  <2>1. CurrentTerm' = [CurrentTerm EXCEPT ![m.to] = m.Term] /\ m.Term >= CurrentTerm[m.to]
    BY DEF RequestVoteGrant
  <2>2. QED
    BY <1>1, <1>3, <2>1, TermRises
<1>5. (\A p \in Server : Stays(p)) /\ LeadersSame
  BY <1>1, GrantCasts DEF Stays, LeadersSame, Leader, Candidate
<1>6. net' \subseteq net \cup {VoteReply(m, m.Term, TRUE)}
  BY RespondAdds DEF RequestVoteGrant
<1>7. VoteReply(m, m.Term, TRUE).type = "RequestVoteReply"
  BY DEF VoteReply
<1>8. NoSuccess /\ \A x \in net' : x.type = "AppendEntries" => x \in net
  BY <1>6, <1>7 DEF NoSuccess
<1>9. VotesCheck(L, A)'
  <2> SUFFICES ASSUME NEW c \in Server, NEW p \in Server, NEW e \in LogEntry,
                      State'[c] = Candidate, e.Term < CurrentTerm'[c],
                      HasVote(p, c, CurrentTerm[c])',
                      Alive(L, A, e)', e \notin Held(c)'
               PROVE  ~Acked(A, p, e.Index, e.Term)
    BY DEF VotesCheck
  <2>1. PICK t \in Nat : t = CurrentTerm'[c]
    BY <1>1 DEF TypeOK
  <2>2. HasVote(p, c, t)'
    BY <2>1 DEF HasVote
  <2>3. Alive(L, A, e)
    BY <1>1, AddsNot, AliveBefore DEF Alive, PlainInv
  <2>4. e \notin Held(c)
    BY <1>2 DEF Held
  <2>5. State[c] = Candidate /\ CurrentTerm[c] = t
    BY <1>5, <2>1 DEF Stays
  <2>6. HasVote(p, c, t) \/ (p = m.to /\ c = m.from /\ t = m.Term)
    BY <1>1, <2>2, GrantCasts
  <2>7. CASE HasVote(p, c, t)
    BY <2>1, <2>3, <2>4, <2>5, <2>7 DEF History, VotesCheck
  <2>8. CASE p = m.to /\ c = m.from /\ t = m.Term
    <3>1. m.LastLogIndex = GetLastLog(c).Index /\ m.LastLogTerm = GetLastLog(c).Term
      BY <2>5, <2>8 DEF PlainInv, Plain, PlainMsg, Asks
    <3>2. UpToDate(m, p)
      BY <2>8 DEF RequestVoteGrant, MayVote
    <3>3. e \notin Held(p)
      BY <2>3, <2>4, <3>1, <3>2, UpToDateHolds DEF UpToDate
    <3>4. QED
      BY <2>3, <3>3 DEF History, Kept
  <2>9. QED
    BY <2>6, <2>7, <2>8
<1>10. Counted(A)' /\ PeersCommit(L, A)' /\ Delivered(L, A)'
  BY <1>2, <1>4, <1>5, VotingParts
<1>11. QED
  BY <1>2, <1>5, <1>8, <1>9, <1>10, CalmStep

LEMMA CountCalm ==
  ASSUME Counting,
         PlainInv, PlainInv', Regular, NEW m \in net, m.type = "RequestVoteReply",
         VoteReplyGranted(m), ~(Cardinality(votes'[m.args.from]) >= Majority),
         NEW L, NEW A, History(L, A)
  PROVE  History(L, A)'
<1>1. TypeOK /\ TypeOK'
  BY DEF PlainInv, TenureInv, MatchingInv, ElectionInv, IndInv
<1>2. UNCHANGED <<Log, MatchIndex, CommitIndex, sm, applier, State, CurrentTerm>> /\ Consume(m)
  BY DEF VoteReplyGranted, logVars, leaderVars, applyVars
<1>3. \A s \in Server : CurrentTerm'[s] >= CurrentTerm[s]
  BY <1>1, <1>2, TermKept
<1>4. LeadersSame
  BY <1>2 DEF LeadersSame
<1>5. net' \subseteq net
  BY <1>2, ConsumeAdds
<1>6. NoSuccess /\ \A x \in net' : x.type = "AppendEntries" => x \in net
  BY <1>5 DEF NoSuccess
<1>7. VotesCheck(L, A)'
  <2>1. \A p, c \in Server, t \in Nat : HasVote(p, c, t)' => HasVote(p, c, t)
    BY <1>1, CountCasts
  <2>2. QED
    BY <1>1, <1>2, <2>1, VotesCheckStill DEF History
<1>8. Counted(A)' /\ PeersCommit(L, A)' /\ Delivered(L, A)'
  BY <1>2, <1>3, <1>4, VotingParts
<1>9. QED
  BY <1>2, <1>4, <1>6, <1>7, <1>8, CalmStep

-----------------------------------------------------------------------------
(***************************************************************************)
(* A follower takes entries.                                               *)
(***************************************************************************)
\* The log N is S after the leader's log R has been brought in up to index E:
\* nothing on which S and R agree is lost.
Merged(S, N, R, E) ==
  /\ Same(N, R, E)
  /\ \A i \in Nat : Same(S, R, i) => Same(N, R, i)
  /\ N = S \/ N = {e \in R : e.Index <= E}
  /\ \E f \in N : f.Index = E

\* The entries that are not new are those of the leader.
LEMMA OldEntries ==
  ASSUME PlainInv, NEW m \in net, m \in AppendEntriesArgs, NEW p \in Server,
         NEW L, NEW A, History(L, A), checkLogConsistency(p, m).Success
  PROVE  /\ Same(Held(p), L[m.Term], m.PrevLogIndex)
         /\ \A k \in 1 .. Len(m.Entries) :
              \/ k \in NewOrConflicting(p, m.Entries) /\ m.Entries[k] \notin Held(p)
              \/ k \notin NewOrConflicting(p, m.Entries) /\ Same(Held(p), L[m.Term], m.PrevLogIndex + k)
<1>1. PICK q \in Nat, T \in Nat : q = m.PrevLogIndex /\ T = m.Term
  BY EntriesArgs
<1>2. m.type = "AppendEntries"
  BY DEF AppendEntriesArgs
<1>3. Carries(L, m)
  BY <1>2 DEF History, CallsCarry, Bears
<1>4. PICK f \in L[T] : f.Index = q /\ f.Term = m.PrevLogTerm
  BY <1>1, <1>3 DEF Carries
<1>5. PICK d \in Nat : d = disk[p].CurrentTerm
  BY PlainParts DEF TypeOK, Persisted
<1>6. /\ LeaderLogs(L) /\ IsLog(Held(p)) /\ Rooted(L, Held(p), d)
      /\ IsLog(L[T]) /\ Rooted(L, L[T], T)
  BY <1>4, <1>5 DEF History, PeerLogs, LeaderLogs
<1>7. HasLogEntry(p, q) /\ GetLogEntry(p, q).Term = m.PrevLogTerm
  BY <1>1, Consistent
<1>8. Same(Held(p), L[T], q)
  <2>1. PICK g \in Held(p) : g = GetLogEntry(p, q) /\ g.Index = q
    BY <1>7, HeldAt
  <2>2. QED
    BY <1>4, <1>6, <1>7, <2>1, LogsMeet
<1>9. ASSUME NEW k \in 1 .. Len(m.Entries)
      PROVE  \/ k \in NewOrConflicting(p, m.Entries) /\ m.Entries[k] \notin Held(p)
             \/ k \notin NewOrConflicting(p, m.Entries) /\ Same(Held(p), L[T], q + k)
  <2>1. PICK x \in L[T] : x = m.Entries[k]
    BY <1>1, <1>3 DEF Carries
  <2>2. PICK i \in Nat : i = q + k /\ i = x.Index
    <3>1. m.Entries[k].Index = m.PrevLogIndex + k
      BY <1>2, PlainParts DEF IndInv, EntriesIndexed
    <3>2. Len(m.Entries) \in Nat
      BY EntriesArgs
    <3>3. q + k \in Nat
      BY <1>1, <3>2
    <3>4. QED
      BY <1>1, <2>1, <3>1, <3>3
  <2>3. HasLogEntry(p, i) <=> i <= GetLastLog(p).Index
    BY HeldAt
  <2>4. GetLastLog(p).Index \in Nat
    BY HeldLast
  <2>5. CASE k \in NewOrConflicting(p, m.Entries)
    <3>1. i > GetLastLog(p).Index \/ GetLogEntry(p, i).Term # x.Term
      BY <2>1, <2>2, <2>5 DEF NewOrConflicting
    <3>2. ASSUME x \in Held(p) PROVE FALSE
      <4>1. HasLogEntry(p, i) /\ GetLogEntry(p, i) = x
        BY <2>2, <3>2, HeldAt
      <4>2. QED
        BY <2>3, <2>4, <3>1, <4>1
    <3>3. QED
      BY <2>1, <2>5, <3>2
  <2>6. CASE k \notin NewOrConflicting(p, m.Entries)
    <3>1. ~(i > GetLastLog(p).Index) /\ GetLogEntry(p, i).Term = x.Term
      BY <2>1, <2>2, <2>6 DEF NewOrConflicting
    <3>2. PICK g \in Held(p) : g = GetLogEntry(p, i) /\ g.Index = i
      BY <2>3, <2>4, <3>1, HeldAt
    <3>3. Same(Held(p), L[T], i)
      BY <1>6, <2>2, <3>1, <3>2, LogsMeet
    <3>4. QED
      BY <2>2, <2>6, <3>3
  <2>7. QED
    BY <2>5, <2>6
<1>10. QED
  BY <1>1, <1>8, <1>9

\* What the loop leaves, as a set.
LEMMA MergedLogHeld ==
  ASSUME Counting,
         PlainInv, NEW m \in net, m \in AppendEntriesArgs, NEW p \in Server,
         NEW L, NEW A, History(L, A), checkLogConsistency(p, m).Success,
         NewOrConflicting(p, m.Entries) # {}, Log'[p] = MergedLog(p, m.Entries)
  PROVE  Held(p)' = {e \in L[m.Term] : e.Index <= End(m)}
<1>1. PICK q \in Nat, T \in Nat, n \in Nat, E \in Nat :
        q = m.PrevLogIndex /\ T = m.Term /\ n = Len(m.Entries) /\ E = End(m) /\ E = q + n
  BY EntriesArgs DEF End
<1>2. m.type = "AppendEntries"
  BY DEF AppendEntriesArgs
<1>3. \A j \in 1 .. n : m.Entries[j] \in L[T] /\ m.Entries[j].Index = q + j
  BY <1>1, <1>2, PlainParts DEF History, CallsCarry, Bears, Carries, IndInv, EntriesIndexed
<1>4. PICK z \in Nat : /\ z = Len(Log[p])
                       /\ \A i \in 1 .. z : Log[p][i] \in Held(p) /\ Log[p][i].Index = i - 1
                       /\ \A e \in Held(p) : e.Index + 1 \in 1 .. z /\ e = Log[p][e.Index + 1]
  BY HeldEntries
<1>5. PICK k \in 1 .. n, keep \in 1 .. z :
        /\ q + k = keep
        /\ \A j \in 1 .. k - 1 : j \notin NewOrConflicting(p, m.Entries)
        /\ Len(Log'[p]) = keep + (n - k + 1)
        /\ \A i \in 1 .. keep : Log'[p][i] = Log[p][i]
        /\ \A j \in k .. n : Log'[p][keep + (j - k + 1)] = m.Entries[j]
  <2>1. IndInv /\ HasLogEntry(p, m.PrevLogIndex)
    BY PlainParts, Consistent
  <2>2. PICK k \in 1 .. Len(m.Entries), keep \in 1 .. Len(Log[p]) :
           /\ m.PrevLogIndex + k = LastIncludedIndex[p] + keep
           /\ \A j \in 1 .. k - 1 : j \notin NewOrConflicting(p, m.Entries)
           /\ MergedLog(p, m.Entries) \in Seq(LogEntry)
           /\ Len(MergedLog(p, m.Entries)) = keep + (Len(m.Entries) - k + 1)
           /\ \A i \in 1 .. keep : MergedLog(p, m.Entries)[i] = Log[p][i]
           /\ \A j \in k .. Len(m.Entries) :
                MergedLog(p, m.Entries)[keep + (j - k + 1)] = m.Entries[j]
    BY <2>1, MergedLogShape, ZenonT(60)
  <2>3. LastIncludedIndex[p] = 0
    BY DEF PlainInv, Plain
  <2>4. k \in 1 .. n /\ keep \in 1 .. z
    BY <1>1, <1>4, <2>2
  <2>5. q + k = keep
    BY <1>1, <1>4, <2>2, <2>3, <2>4
  <2>6. Len(Log'[p]) = keep + (n - k + 1)
    BY <1>1, <2>2
  <2>7. \A i \in 1 .. keep : Log'[p][i] = Log[p][i]
    BY <2>2
  <2>8. \A j \in k .. n : Log'[p][keep + (j - k + 1)] = m.Entries[j]
    BY <1>1, <2>2
  <2>9. QED
    BY <2>2, <2>4, <2>5, <2>6, <2>7, <2>8
<1>6. k \in Nat /\ keep \in Nat /\ k <= n /\ k >= 1
  BY <1>5
<1>7. Same(Held(p), L[T], keep - 1)
  <2>1. CASE k = 1
    <3>1. keep - 1 = q
      BY <1>5, <1>6, <2>1
    <3>2. QED
      BY <1>1, <3>1, OldEntries
  <2>2. CASE k # 1
    <3>1. PICK j \in Int : j = k - 1
      BY <1>6
    <3>2. q + j = keep - 1 /\ j \in 1 .. k - 1 /\ j \in 1 .. n
      <4>1. q + k = keep
        BY <1>5
      <4>2. QED
        BY <1>6, <2>2, <3>1, <4>1
    <3>3. j \notin NewOrConflicting(p, m.Entries) /\ j \in 1 .. Len(m.Entries)
      BY <1>1, <1>5, <3>2
    <3>4. Same(Held(p), L[T], q + j)
      BY <1>1, <3>3, OldEntries
    <3>5. QED
      BY <3>2, <3>4
  <2>3. QED
    BY <2>1, <2>2
<1>8. IsLog(L[T]) /\ \A e \in L[T] : e \in LogEntry /\ e.Index \in Nat
  <2>1. 1 \in 1 .. n
    BY <1>6
  <2>2. L[T] # {}
    BY <1>3, <2>1
  <2>3. IsLog(L[T])
    BY <2>2 DEF History, LeaderLogs
  <2>4. QED
    BY <2>3, EntryFields DEF IsLog
<1>9. ASSUME NEW x \in Held(p)' PROVE x \in L[T] /\ x.Index <= E
  <2>1. PICK i \in 1 .. Len(Log'[p]) : x = Log'[p][i]
    BY DEF Held
  <2>2. i \in 1 .. keep + (n - k + 1)
    BY <1>5, <2>1
  <2>3. CASE i <= keep
    <3>1. i \in 1 .. keep /\ i \in 1 .. z /\ i - 1 <= keep - 1 /\ i - 1 <= E
      BY <1>1, <1>5, <1>6, <2>2, <2>3
    <3>2. x \in Held(p) /\ x.Index = i - 1
      BY <1>4, <1>5, <2>1, <3>1
    <3>3. x \in LogEntry
      BY <3>2, HeldEntries
    <3>4. QED
      BY <1>7, <3>1, <3>2, <3>3 DEF Same
  <2>4. CASE i > keep
    <3>1. PICK j \in k .. n : j \in 1 .. n /\ keep + (j - k + 1) = i /\ q + j <= E
      <4>1. PICK j \in Int : j = i - keep + k - 1
        BY <1>6, <2>2
      <4>2. j \in k .. n /\ j \in 1 .. n /\ keep + (j - k + 1) = i /\ q + j <= E
        BY <1>1, <1>5, <1>6, <2>2, <2>4, <4>1
      <4>3. QED
        BY <4>2
    <3>2. x = m.Entries[j]
      BY <1>5, <2>1, <3>1
    <3>3. QED
      BY <1>3, <3>1, <3>2
  <2>5. QED
    BY <1>6, <2>2, <2>3, <2>4
<1>10. ASSUME NEW x \in L[T], x.Index <= E PROVE x \in Held(p)'
  <2>1. x \in LogEntry /\ x.Index \in Nat
    BY <1>8
  <2>2. \A i \in 1 .. keep + (n - k + 1) : Log'[p][i] \in Held(p)'
    BY <1>5 DEF Held
  <2>3. CASE x.Index <= keep - 1
    <3>1. x \in Held(p)
      BY <1>7, <2>1, <2>3 DEF Same
    <3>2. x = Log[p][x.Index + 1]
      BY <1>4, <3>1
    <3>3. PICK i \in 1 .. keep : i = x.Index + 1 /\ i \in 1 .. keep + (n - k + 1)
      BY <1>6, <2>1, <2>3
    <3>4. Log'[p][i] = x
      BY <1>5, <3>2, <3>3
    <3>5. QED
      BY <2>2, <3>3, <3>4
  <2>4. CASE ~(x.Index <= keep - 1)
    <3>1. PICK j \in k .. n : /\ j \in 1 .. n /\ x.Index = q + j
                              /\ keep + (j - k + 1) \in 1 .. keep + (n - k + 1)
      <4>1. PICK j \in Int : j = x.Index - q
        BY <2>1
      <4>2. /\ j \in k .. n /\ j \in 1 .. n /\ x.Index = q + j
            /\ keep + (j - k + 1) \in 1 .. keep + (n - k + 1)
        <5>1. PICK y \in Nat : y = x.Index /\ y <= E /\ ~(y <= keep - 1)
          BY <1>10, <2>1, <2>4
        <5>2. q + k = keep /\ E = q + n
          BY <1>1, <1>5
        <5>3. /\ j \in k .. n /\ j \in 1 .. n /\ y = q + j
              /\ keep + (j - k + 1) \in 1 .. keep + (n - k + 1)
          BY <1>6, <4>1, <5>1, <5>2
        <5>4. QED
          BY <5>1, <5>3
      <4>3. QED
        BY <4>2
    <3>2. x = m.Entries[j]
      BY <1>3, <1>8, <3>1 DEF IsLog
    <3>3. QED
      BY <1>5, <2>2, <3>1, <3>2
  <2>5. QED
    BY <2>3, <2>4
<1>11. QED
  BY <1>1, <1>9, <1>10

LEMMA AcceptMerges ==
  ASSUME Counting,
         PlainInv, NEW m \in net, m \in AppendEntriesArgs, NEW p \in Server,
         NEW L, NEW A, History(L, A), checkLogConsistency(p, m).Success,
         Log'[p] = MergedLog(p, m.Entries)
  PROVE  Merged(Held(p), Held(p)', L[m.Term], End(m))
<1>1. PICK q \in Nat, T \in Nat, n \in Nat, E \in Nat :
        q = m.PrevLogIndex /\ T = m.Term /\ n = Len(m.Entries) /\ E = End(m) /\ E = q + n
  BY EntriesArgs DEF End
<1>2. m.type = "AppendEntries"
  BY DEF AppendEntriesArgs
<1>3. /\ \A j \in 1 .. n : m.Entries[j] \in L[T] /\ m.Entries[j].Index = q + j
      /\ \E f \in L[T] : f.Index = q
  BY <1>1, <1>2, PlainParts DEF History, CallsCarry, Bears, Carries, IndInv, EntriesIndexed
<1>4. L \in [Nat -> SUBSET LogEntry]
  BY DEF History, LeaderLogs
<1>5. PICK g \in L[T] : g.Index = E /\ g \in LogEntry
  <2>1. CASE n = 0
    BY <1>1, <1>3, <1>4, <2>1
  <2>2. CASE n # 0
    <3>1. n \in 1 .. n
      BY <2>2
    <3>2. QED
      BY <1>1, <1>3, <1>4, <3>1
  <2>3. QED
    BY <2>1, <2>2
<1>6. CASE NewOrConflicting(p, m.Entries) = {}
  <2>1. Held(p)' = Held(p)
    BY <1>6 DEF Held, MergedLog
  <2>2. Same(Held(p), L[T], E)
    <3>1. CASE n = 0
      <4>1. E = q
        BY <1>1, <3>1
      <4>2. QED
        BY <1>1, <4>1, OldEntries
    <3>2. CASE n # 0
      <4>1. n \in 1 .. Len(m.Entries)
        BY <1>1, <3>2
      <4>2. QED
        BY <1>1, <1>6, <4>1, OldEntries
    <3>3. QED
      BY <3>1, <3>2
  <2>3. g \in Held(p)
    <3>1. g.Index <= E
      BY <1>5
    <3>2. QED
      BY <1>5, <2>2, <3>1 DEF Same
  <2>4. QED
    BY <1>1, <1>5, <2>1, <2>2, <2>3 DEF Merged
<1>7. CASE NewOrConflicting(p, m.Entries) # {}
  <2>1. Held(p)' = {e \in L[T] : e.Index <= E}
    <3>1. Held(p)' = {e \in L[m.Term] : e.Index <= End(m)}
      BY <1>7, MergedLogHeld
    <3>2. QED
      BY <1>1, <3>1
  <2>2. Same(Held(p)', L[T], E)
    BY <2>1 DEF Same
  <2>3. PICK k \in NewOrConflicting(p, m.Entries) : k \in 1 .. Len(m.Entries)
    BY <1>7 DEF NewOrConflicting
  <2>4. PICK x \in L[T] : x \notin Held(p) /\ x.Index <= E /\ x \in LogEntry
    <3>1. m.Entries[k] \in L[T] /\ m.Entries[k].Index = q + k /\ k \in 1 .. n
      BY <1>1, <1>3, <2>3
    <3>2. m.Entries[k] \notin Held(p)
      BY <2>3, OldEntries
    <3>3. q + k <= E
      BY <1>1, <3>1
    <3>4. QED
      BY <1>4, <3>1, <3>2, <3>3
  <2>5. ASSUME NEW i \in Nat, Same(Held(p), L[T], i) PROVE Same(Held(p)', L[T], i)
    <3>1. CASE i <= E
      BY <2>2, <3>1, SameLess
    <3>2. CASE ~(i <= E)
      <4>1. x.Index <= i
        BY <2>4, <3>2, EntryFields
      <4>2. QED
        BY <2>4, <2>5, <4>1 DEF Same
    <3>3. QED
      BY <3>1, <3>2
  <2>6. g \in Held(p)'
    BY <1>5, <2>1
  <2>7. QED
    BY <1>1, <1>5, <2>1, <2>2, <2>5, <2>6 DEF Merged
<1>8. QED
  BY <1>6, <1>7

\* The follower's commit index is that of the leader, or stays.
LEMMA AcceptCommit ==
  ASSUME Counting,
         PlainInv, NEW m \in net, m.type = "AppendEntries", AppendEntriesAccept(m),
         NEW L, NEW A, History(L, A)
  PROVE  /\ CommitIndex'[m.to] = IF m.LeaderCommit > CommitIndex[m.to] THEN m.LeaderCommit
                                                                       ELSE CommitIndex[m.to]
         /\ \A p \in Server \ {m.to} : CommitIndex'[p] = CommitIndex[p]
<1>1. TypeOK /\ IndInv /\ m \in AppendEntriesArgs
  BY PlainParts, MessageTypes
<1>2. PICK p \in Server : p = m.to
  BY <1>1, EntriesArgs
<1>3. PICK c \in Nat, E \in Nat, d \in Nat :
        c = m.LeaderCommit /\ E = End(m) /\ c <= E /\ d = CommitIndex[p]
  <2>1. Bears(L, A, m)
    BY DEF History, CallsCarry
  <2>2. m.LeaderCommit <= End(m)
    BY <2>1 DEF Bears
  <2>3. CommitIndex[p] \in Nat
    BY <1>1 DEF TypeOK
  <2>4. QED
    BY <1>1, <2>2, <2>3, EntriesArgs
<1>4. PICK log : log = MergedLog(p, m.Entries)
  OBVIOUS
<1>5. /\ checkLogConsistency(p, m).Success
      /\ Log' = [Log EXCEPT ![p] = log]
      /\ CommitIndex' = [CommitIndex EXCEPT ![p] = FollowerCommit(p, m, log[Len(log)].Index)]
  BY <1>2, <1>4 DEF AppendEntriesAccept
<1>6. Log'[p] = log /\ CommitIndex'[p] = FollowerCommit(p, m, log[Len(log)].Index)
  BY <1>1, <1>5 DEF TypeOK
<1>7. Merged(Held(p), Held(p)', L[m.Term], E)
  BY <1>1, <1>3, <1>4, <1>5, <1>6, AcceptMerges
<1>8. PICK z \in Nat : z = Len(log) /\ z >= 1 /\ \A i \in 1 .. z : log[i].Index = i - 1
  <2>1. HasLogEntry(p, m.PrevLogIndex) /\ LastIncludedIndex[p] = 0
    BY <1>5, Consistent DEF PlainInv, Plain
  <2>2. log \in Log0 /\ Indexed(log, 0)
    BY <1>1, <1>4, <2>1, MergedLogIndexed
  <2>3. log \in Seq(LogEntry) /\ log # <<>>
    BY <2>2 DEF Log0
  <2>4. Len(log) \in Nat /\ Len(log) >= 1
    BY <2>3, EmptySeq, SeqElements
  <2>5. \A i \in 1 .. Len(log) : log[i].Index = 0 + i - 1
    BY <2>2 DEF Indexed
  <2>6. QED
    BY <2>4, <2>5
<1>9. PICK l \in Nat : l = log[Len(log)].Index /\ l >= E
  <2>1. PICK f \in Held(p)' : f.Index = E
    BY <1>7 DEF Merged
  <2>2. PICK i \in 1 .. Len(log) : f = log[i]
    BY <1>6, <2>1 DEF Held
  <2>3. i - 1 = E /\ i \in 1 .. z
    BY <1>8, <2>1, <2>2
  <2>4. z \in 1 .. z /\ z - 1 \in Nat /\ z - 1 >= E
    BY <1>8, <2>3
  <2>5. log[Len(log)].Index = z - 1
    BY <1>8, <2>4
  <2>6. QED
    BY <2>4, <2>5
<1>10. CASE c > d
  <2>1. CommitIndex'[p] = MinOf({c, l})
    BY <1>3, <1>6, <1>9, <1>10 DEF FollowerCommit
  <2>2. MinOf({c, l}) = c
    <3>1. {c, l} \in SUBSET Nat /\ {c, l} # {}
      OBVIOUS
    <3>2. MinOf({c, l}) \in {c, l} /\ \A y \in {c, l} : MinOf({c, l}) <= y
      BY <3>1, MinOfNat
    <3>3. QED
      BY <1>3, <1>9, <3>2
  <2>3. QED
    BY <1>2, <1>3, <1>5, <1>10, <2>1, <2>2, <1>1 DEF TypeOK
<1>11. CASE ~(c > d)
  <2>1. CommitIndex'[p] = CommitIndex[p]
    BY <1>3, <1>6, <1>11 DEF FollowerCommit
  <2>2. QED
    BY <1>2, <1>3, <1>5, <1>11, <2>1, <1>1 DEF TypeOK
<1>12. QED
  BY <1>10, <1>11

-----------------------------------------------------------------------------
(***************************************************************************)
(* Every step has a history.                                               *)
(***************************************************************************)
\* Without compaction no snapshot is newer than what a peer has.
LEMMA NoInstall ==
  ASSUME PlainInv, NEW m \in net, m.type = "InstallSnapShot"
  PROVE  ~InstallSnapShot(m)
<1> SUFFICES ASSUME InstallSnapShot(m) PROVE FALSE
  OBVIOUS
<1>1. m.to \in Server
  BY PlainParts, MessageTypes DEF InstallSnapshotArgs
<1>2. m.LastIncludedIndex = 0 /\ LastIncludedIndex[m.to] = 0
  BY <1>1 DEF PlainInv, Plain, PlainMsg
<1>3. ~(0 > 0)
  OBVIOUS
<1>4. QED
  BY <1>2, <1>3, ZenonT(60) DEF InstallSnapShot
=============================================================================
