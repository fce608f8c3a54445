--------------------------- MODULE RaftInvariants ---------------------------
(***************************************************************************)
(* The inductive invariants on which the proofs about Raft rest, each      *)
(* stronger than the one before, and the shapes of step that keep them.    *)
(*                                                                         *)
(* IndInv: types and index arithmetic. ApplyInv: what the service sees.    *)
(* ElectionInv: what a vote binds. MatchingInv: what an entry is named     *)
(* after. TenureInv: who makes a replication call. PlainInv: what is known *)
(* besides as long as no service takes a snapshot.                         *)
(***************************************************************************)
EXTENDS Raft

-----------------------------------------------------------------------------
(***************************************************************************)
(* The log.                                                                *)
(***************************************************************************)
\* The entries an AppendEntries call brings follow PrevLogIndex one by one.
EntriesIndexed ==
  \A m \in net : m.type = "AppendEntries" =>
    \A k \in 1 .. Len(m.Entries) : m.Entries[k].Index = m.PrevLogIndex + k

IndInv == TypeOK /\ LogIndexing /\ EntriesIndexed

-----------------------------------------------------------------------------
(***************************************************************************)
(* Steps that change or read the log.                                      *)
(***************************************************************************)
Indexed(log, base) == \A k \in 1 .. Len(log) : log[k].Index = base + k - 1

-----------------------------------------------------------------------------
(***************************************************************************)
(* Snapshots and the Applier.  A snapshot covers the indices up to the one *)
(* it is labelled with, wherever it is: on disk, in a goroutine that is    *)
(* about to send it, in a call.                                            *)
(***************************************************************************)
CallsCover ==
  /\ \A m \in net : m.type = "InstallSnapShot" => Len(m.Data) = m.LastIncludedIndex
  /\ \A s \in Server : \A m \in sending[s] : Len(m.Data) = m.LastIncludedIndex

\* Between two rounds the service is where LastApplied says, unless a snapshot
\* has come in that it does not have yet.
Settled(s) ==
  /\ applier[s].msgs = <<>>
  /\ \/ LastApplied[s] = Len(sm[s])
     \/ LastApplied[s] < LastIncludedIndex[s] /\ Len(sm[s]) <= LastIncludedIndex[s]

\* In a round, LastApplied is behind: what is left to send takes the service
\* from where it is to upto.
DeliversSnapshot(s) ==
  LET task == applier[s] IN
  /\ Len(task.msgs) = 1
  /\ task.msgs[1].kind = "snapshot"
  /\ task.msgs[1].Index = task.upto
  /\ Len(task.msgs[1].data) = task.upto
  /\ Len(sm[s]) <= task.upto

DeliversCommands(s) ==
  LET task == applier[s] IN
  /\ Len(sm[s]) + Len(task.msgs) = task.upto
  /\ \A k \in 1 .. Len(task.msgs) :
       /\ task.msgs[k].kind = "command"
       /\ task.msgs[k].Index = Len(sm[s]) + k
       /\ Len(task.msgs[k].data) = 1

Delivers(s) ==
  /\ applier[s].upto >= LastApplied[s]
  /\ DeliversSnapshot(s) \/ DeliversCommands(s)

Ordered(s) == IF applier[s].busy THEN Delivers(s) ELSE Settled(s)

ApplyInv ==
  /\ IndInv
  /\ SnapshotCoversLog
  /\ CallsCover
  /\ \A s \in Server : Ordered(s)

\* Voter v has told candidate c that it has its vote for the given term, or c
\* has already counted it.
HasVote(v, c, term) ==
  \/ \E m \in net : /\ m.type = "RequestVoteReply"
                    /\ m.VoteGrabted
                    /\ m.args.to = v /\ m.args.from = c /\ m.args.Term = term
  \/ /\ State[c] \in {Candidate, Leader}
     /\ CurrentTerm[c] = term
     /\ v \in votes[c]

\* The voter v, now or after a restart, cannot vote again in the term.
Bound(v, c, term) ==
  /\ \/ CurrentTerm[v] > term
     \/ CurrentTerm[v] = term /\ VotedFor[v] = c
  /\ \/ disk[v].CurrentTerm > term
     \/ disk[v].CurrentTerm = term /\ disk[v].VotedFor = c

VotesBind ==
  \A v, c \in Server, term \in Nat : HasVote(v, c, term) => Bound(v, c, term)

VotesUnique ==
  \A v, c, d \in Server, term \in Nat :
    HasVote(v, c, term) /\ HasVote(v, d, term) => c = d

LeadersElected ==
  \A s \in Server : State[s] = Leader => Cardinality(votes[s]) >= Majority

ElectionInv == IndInv /\ VotesBind /\ VotesUnique /\ LeadersElected

-----------------------------------------------------------------------------
(***************************************************************************)
(* Steps that create no vote.                                              *)
(***************************************************************************)
Granted(r) == r.type = "RequestVoteReply" /\ r.VoteGrabted

\* The term and vote of p move forward, or back to what was saved; what is
\* saved is what is now in memory.
Advances(p) ==
  /\ \/ CurrentTerm'[p] > CurrentTerm[p]
     \/ /\ CurrentTerm'[p] = CurrentTerm[p]
        /\ VotedFor'[p] = VotedFor[p] \/ VotedFor[p] = NotVoted
     \/ CurrentTerm'[p] = disk[p].CurrentTerm /\ VotedFor'[p] = disk[p].VotedFor
  /\ \/ disk'[p].CurrentTerm = CurrentTerm'[p] /\ disk'[p].VotedFor = VotedFor'[p]
     \/ disk'[p] = disk[p]

\* Whoever is still a candidate or a leader is so in the same term and with
\* the same tally.
Stays(p) ==
  State'[p] \in {Candidate, Leader} =>
    /\ State'[p] = State[p]
    /\ CurrentTerm'[p] = CurrentTerm[p]
    /\ votes'[p] = votes[p]

Quiet ==
  /\ \A r \in net' : Granted(r) => r \in net
  /\ \A p \in Server : Advances(p) /\ Stays(p)

\* A peer is saved, or nobody is.
Saved(s) == (\E snapshot : Save(s, snapshot)) \/ UNCHANGED disk

-----------------------------------------------------------------------------
(***************************************************************************)
(* Whatever names an entry.                                                *)
(***************************************************************************)
\* The log of s has an entry of term t at index i.
At(s, i, t) == HasLogEntry(s, i) /\ GetLogEntry(s, i).Term = t

\* The call m says that there is an entry of term t at index i.
Names(m, i, t) ==
  \/ /\ m.type = "AppendEntries"
     /\ \/ i = m.PrevLogIndex /\ t = m.PrevLogTerm
        \/ \E k \in 1 .. Len(m.Entries) : i = m.PrevLogIndex + k /\ t = m.Entries[k].Term
  \/ /\ m.type = "InstallSnapShot"
     /\ i = m.LastIncludedIndex /\ t = m.LastIncludedTerm

Named(i, t) ==
  \/ \E s \in Server : At(s, i, t)
  \/ \E m \in net : Names(m, i, t)
  \/ \E s \in Server : \E m \in sending[s] : Names(m, i, t)

\* A log or a call has u just before t, which is at index i.
Follows(i, t, u) ==
  \/ \E s \in Server : At(s, i, t) /\ At(s, i - 1, u)
  \/ \E m \in net : Names(m, i, t) /\ Names(m, i - 1, u)

\* The vote of v in term t was for c and nobody else's.
Pledged(v, c, t) ==
  /\ Bound(v, c, t)
  /\ \A d \in Server : HasVote(v, d, t) => d = c

\* The peer w won the election of term t and, whatever has become of it, is
\* not a candidate of that term again.
Won(w, t) ==
  /\ CurrentTerm[w] >= t
  /\ disk[w].CurrentTerm >= t
  /\ ~(State[w] = Candidate /\ CurrentTerm[w] = t)
  /\ \E Q \in SUBSET Server : /\ Cardinality(Q) >= Majority
                              /\ \A v \in Q : Pledged(v, w, t)

\* What comes before an entry is determined by its index and term.
Chained ==
  \A i, t, u, v \in Nat : Follows(i, t, u) /\ Follows(i, t, v) => u = v

\* Every entry but the first placeholder is of a term that had a leader.
Appended ==
  \A i, t \in Nat : Named(i, t) => i = 0 \/ \E w \in Server : Won(w, t)

\* A leader holds the last entry of its term.
LeaderIsAhead ==
  \A s \in Server : State[s] = Leader =>
    \A i \in Nat : Named(i, CurrentTerm[s]) => i <= GetLastLog(s).Index

MatchingInv == ElectionInv /\ Chained /\ Appended /\ LeaderIsAhead

-----------------------------------------------------------------------------
(***************************************************************************)
(* A won election stays won.                                               *)
(***************************************************************************)
\* Whoever becomes a candidate does so in a new term.
Stands(p) ==
  State'[p] = Candidate =>
    \/ State[p] = Candidate /\ CurrentTerm'[p] = CurrentTerm[p]
    \/ CurrentTerm'[p] > CurrentTerm[p]

\* A vote is new only if the voter was free to give it.
Casts ==
  \A v, d \in Server, t \in Nat :
    HasVote(v, d, t)' =>
      \/ HasVote(v, d, t)
      \/ t > CurrentTerm[v]
      \/ t = CurrentTerm[v] /\ VotedFor[v] \in {NotVoted, d}

Regular == Casts /\ \A p \in Server : Advances(p) /\ Stands(p)

-----------------------------------------------------------------------------
(***************************************************************************)
(* Who makes a replication call leads, or has moved on to a later term.    *)
(***************************************************************************)
Call(m) == m.type \in {"AppendEntries", "InstallSnapShot"}
CallReply(m) == m.type \in {"AppendEntriesReply", "InstallSnapShotReply"}

\* In the life of its present process s has led term t.
InOffice(s, t) == CurrentTerm[s] >= t /\ (CurrentTerm[s] = t => State[s] = Leader)

\* The process that made the call m led, and does so still unless it is gone
\* or has moved on.
FromLeader(m) ==
  /\ m.from # m.to
  /\ Won(m.from, m.Term)
  /\ m.boot <= boot[m.from]
  /\ m.boot = boot[m.from] => InOffice(m.from, m.Term)

\* A term is adopted before it is saved, but nobody stands for election in an
\* unsaved one, nor in the term 0 in which every peer starts.
TermSaved(s) ==
  /\ disk[s].CurrentTerm <= CurrentTerm[s]
  /\ State[s] \in {Candidate, Leader} =>
       disk[s].CurrentTerm = CurrentTerm[s] /\ CurrentTerm[s] >= 1

Tenure ==
  /\ \A s \in Server : TermSaved(s)
  /\ \A m \in net : Call(m) => FromLeader(m)
  /\ \A r \in net : CallReply(r) => InOffice(r.args.from, r.args.Term)
  /\ \A s \in Server : \A m \in sending[s] : m.from = s /\ m.boot = boot[s] /\ FromLeader(m)

TenureInv == MatchingInv /\ Tenure

CallsTyped ==
  /\ \A m \in net : Call(m) =>
       m.from \in Server /\ m.to \in Server /\ m.Term \in Nat /\ m.boot \in Nat
  /\ \A r \in net : CallReply(r) => r.args.from \in Server /\ r.args.Term \in Nat
  /\ \A s \in Server : \A m \in sending[s] :
       m.from \in Server /\ m.to \in Server /\ m.Term \in Nat /\ m.boot \in Nat

-----------------------------------------------------------------------------
(***************************************************************************)
(* From here on no service takes a snapshot: nothing is ever cut from a    *)
(* log, and InstallSnapShot() never replaces one.                          *)
(***************************************************************************)
\* A candidate asks with the log it has for as long as it is a candidate.
Asks(m) ==
  /\ m.Term <= disk[m.from].CurrentTerm
  /\ State[m.from] = Candidate /\ CurrentTerm[m.from] = m.Term =>
       /\ m.LastLogIndex = GetLastLog(m.from).Index
       /\ m.LastLogTerm = GetLastLog(m.from).Term

PlainMsg(m) ==
  /\ m.type = "RequestVote" => Asks(m)
  /\ m.type = "RequestVoteReply" => m.args.Term <= disk[m.args.from].CurrentTerm
  /\ m.type = "InstallSnapShot" => m.LastIncludedIndex = 0
  /\ m.type = "InstallSnapShotReply" => m.args.LastIncludedIndex = 0

Plain ==
  /\ Snapshotters = {}
  /\ \A s \in Server : LastIncludedIndex[s] = 0
  /\ \A m \in net : PlainMsg(m)
  /\ \A s \in Server : \A m \in sending[s] : m.LastIncludedIndex = 0

PlainInv == TenureInv /\ Plain

-----------------------------------------------------------------------------
(***************************************************************************)
(* Prefixes of one log.  D gives each member of S a prefix.                *)
(***************************************************************************)
Prefixes(S, D) ==
  \A p, q \in S : Len(D[p]) <= Len(D[q]) => \A k \in 1 .. Len(D[p]) : D[p][k] = D[q][k]

\* a is what the members with the longest prefixes have.
Tops(S, D, a) == \A r \in S : (\A p \in S : Len(D[p]) <= Len(D[r])) => a = D[r]

\* From D to E only s gets a longer prefix: one that is longer than any before,
\* or a longer piece of the longest, a; b is the longest in E.
Lengthened(S, D, E, s, a, b) ==
  /\ \E r \in S : \A p \in S : Len(E[p]) <= Len(E[r])
  /\ \/ E = D /\ b = a
     \/ /\ Len(a) < Len(b) /\ SubSeq(b, 1, Len(a)) = a
        /\ E = [D EXCEPT ![s] = b]
     \/ \E n \in Len(D[s]) + 1 .. Len(a) :
          E = [D EXCEPT ![s] = SubSeq(a, 1, n)] /\ b = a

-----------------------------------------------------------------------------
(***************************************************************************)
(* What the proofs take from the libraries: sets of numbers have least     *)
(* elements, two majorities of the peers have a peer in common, and one    *)
(* more peer makes a set one larger.  RaftTheorems shows that these are    *)
(* facts.                                                                  *)
(***************************************************************************)
Counting ==
  /\ \A S \in SUBSET Nat : S # {} => \E x \in S : \A y \in S : x <= y
  /\ \A Q, R \in SUBSET Server :
       Cardinality(Q) >= Majority /\ Cardinality(R) >= Majority =>
         \E v \in Server : v \in Q /\ v \in R
  /\ \A Q \in SUBSET Server, v \in Server :
       v \notin Q => Cardinality(Q \cup {v}) = Cardinality(Q) + 1
=============================================================================
