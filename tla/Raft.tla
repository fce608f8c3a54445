-------------------------------- MODULE Raft --------------------------------
(***************************************************************************)
(* One Raft peer per element of Server, as raft1/raft.go implements it:    *)
(* elections, log replication with fast back-up, persistence and restart,  *)
(* log compaction with InstallSnapShot, and the Applier goroutine feeding  *)
(* the service over applyCh.  Every critical section under rf.mu is one    *)
(* action.  Calls over labrpc are records in net: a request, replaced by a *)
(* reply that carries the request it answers (what the calling goroutine   *)
(* still has in its closure).                                              *)
(*                                                                         *)
(* A definition whose name ends in _Faulty is a wrong version of the one   *)
(* that follows it; no action uses it.  It names a slip the properties     *)
(* must notice.                                                            *)
(***************************************************************************)
EXTENDS Integers, Sequences, FiniteSets

CONSTANTS
  Server,        \* the peers
  Command,       \* what the service may pass to Start()
  NoCommand,     \* the nil Command of a placeholder entry
  NotVoted,      \* VotedFor before a vote is cast
  MaxTerm,       \* bound: no election is started beyond this term
  MaxLogIndex,   \* bound: no command is appended beyond this index
  MaxInFlight,   \* bound: distinct calls and replies in flight at any time
  MaxBoots,      \* bound: restarts, of all peers together
  MaxPreempted,  \* bound: the ticker loses the processor only up to this term
  Candidates,    \* peers whose election timer may expire
  Appliers,      \* peers whose Applier goroutine is scheduled
  Snapshotters   \* peers whose service takes snapshots (maxraftstate # -1)

ASSUME ServerAssumption ==
  /\ IsFiniteSet(Server)
  /\ NotVoted \notin Server
  /\ NoCommand \notin Command
  /\ Candidates \subseteq Server
  /\ Appliers \subseteq Server
  /\ Snapshotters \subseteq Server

ASSUME BoundAssumption ==
  /\ MaxTerm \in Nat
  /\ MaxLogIndex \in Nat
  /\ MaxInFlight \in Nat
  /\ MaxBoots \in Nat
  /\ MaxPreempted \in Nat

VARIABLES
  CurrentTerm, VotedFor, Log, State,       \* raft.go:56-59
  CommitIndex, LastApplied,                \* raft.go:63-64
  NextIndex, MatchIndex,                   \* raft.go:70-71
  LastIncludedIndex, LastIncludedTerm,     \* raft.go:82-83
  votes,      \* peers counted in voteSum by the current election
  electing,   \* the ticker has seen a timeout and is about to call AttemptElection
  sending,    \* goroutines between BroadcastEntries and sendSnapShot
  stuck,      \* rf.mu was left locked by a goroutine that has returned
  applier,    \* the Applier's local variables while it sends on applyCh
  sm,         \* the service: what it has applied, in order
  disk,       \* the Persister: raft state and snapshot, saved together
  boot,       \* which restart, counted over all peers, began this process
  net         \* labrpc calls in flight

electionVars == <<CurrentTerm, VotedFor, State, votes, electing>>
logVars == <<Log, LastIncludedIndex, LastIncludedTerm>>
leaderVars == <<NextIndex, MatchIndex>>
applyVars == <<LastApplied, applier, sm>>
vars == <<electionVars, logVars, leaderVars, applyVars,
          CommitIndex, sending, stuck, disk, boot, net>>

Leader == "Leader"
Candidate == "Candidate"
Follower == "Follower"

Majority == Cardinality(Server) \div 2 + 1

-----------------------------------------------------------------------------
(***************************************************************************)
(* The log.  Log[s][1] is the placeholder for index LastIncludedIndex[s];  *)
(* all other indices in the program are logical.                           *)
(***************************************************************************)
LogEntry == [Command : Command \cup {NoCommand}, Term : Nat, Index : Nat]

\* The index of the placeholder is left at its zero value.
Placeholder_Faulty(term, index) ==
  [Command |-> NoCommand, Term |-> term, Index |-> 0]

Placeholder(term, index) ==
  [Command |-> NoCommand, Term |-> term, Index |-> index]

GetLastLog(s) == Log[s][Len(Log[s])]

\* The ok result of GetLogEntry and of ConvertToPhysicIdx.
HasLogEntry(s, i) ==
  /\ i >= LastIncludedIndex[s]
  /\ i - LastIncludedIndex[s] < Len(Log[s])

GetLogEntry(s, i) ==
  IF HasLogEntry(s, i) THEN Log[s][i - LastIncludedIndex[s] + 1]
                       ELSE Placeholder(0, 0)

\* The entries of the half-open interval start .. end - 1, and the ok result.
HasLogSlices(s, start, end) ==
  /\ start >= LastIncludedIndex[s]
  /\ end - LastIncludedIndex[s] <= Len(Log[s])

\* At most one entry is returned.
GetLogSlices_Faulty(s, start, end) ==
  SubSeq(Log[s], start - LastIncludedIndex[s] + 1,
         IF start < end THEN start - LastIncludedIndex[s] + 1 ELSE end - LastIncludedIndex[s])

GetLogSlices(s, start, end) ==
  SubSeq(Log[s], start - LastIncludedIndex[s] + 1, end - LastIncludedIndex[s])

MinOf(S) == CHOOSE x \in S : \A y \in S : x <= y
MaxOf(S) == CHOOSE x \in S : \A y \in S : x >= y

-----------------------------------------------------------------------------
(***************************************************************************)
(* The Persister.  One Save() stores the raft state and the snapshot.      *)
(***************************************************************************)
EncodeRaftState(s, snapshot) ==
  [CurrentTerm |-> CurrentTerm'[s], VotedFor |-> VotedFor'[s],
   Log |-> Log'[s], LastIncludedIndex |-> LastIncludedIndex'[s],
   LastIncludedTerm |-> LastIncludedTerm'[s], snapshot |-> snapshot]

\* The snapshot saved is the previous one.
Save_Faulty(s, snapshot) ==
  disk' = [disk EXCEPT ![s] = EncodeRaftState(s, disk[s].snapshot)]

Save(s, snapshot) == disk' = [disk EXCEPT ![s] = EncodeRaftState(s, snapshot)]

\* Nothing is saved.
persist_Faulty(s) == UNCHANGED disk

persist(s) == Save(s, disk[s].snapshot)

-----------------------------------------------------------------------------
(***************************************************************************)
(* labrpc.  A call or its reply may be lost, which is decided when it is   *)
(* sent, or delayed, and calls may overtake one another, but no call is    *)
(* delivered twice.  BroadcastEntries repeats replication calls every      *)
(* heartbeat, so identical ones may be in flight together: an element of   *)
(* net stands for any number of equal calls, and handling one of them may  *)
(* leave another behind.  A vote is requested once per term and peer.      *)
(***************************************************************************)
Repeated(m) == m.type \notin {"RequestVote", "RequestVoteReply"}

\* The messages left when one copy of m has been handled.
Without(m) == {net \ {m}} \cup (IF Repeated(m) THEN {net} ELSE {})

\* Some of the messages in ms get through; before is what is in flight.
Send(before, ms) ==
  \E through \in SUBSET ms :
    /\ Cardinality(before \cup through) <= MaxInFlight
    /\ net' = before \cup through

\* The call m has been handled; its reply r is now on its way, unless the
\* process that made the call is gone.
Respond(m, r) ==
  \E before \in Without(m) :
    Send(before, IF m.boot = boot[m.from] THEN {r} ELSE {})

\* The reply m has reached the goroutine that made the call.
Consume(m) == net' \in Without(m)

\* The replies the calling goroutines of s are waiting for.
RepliesTo(s) == {m \in net : "args" \in DOMAIN m /\ m.args.from = s}

-----------------------------------------------------------------------------
(***************************************************************************)
(* Elections.                                                              *)
(***************************************************************************)
\* ticker(): the state is read in one critical section and the timeout, which
\* may expire at any time, in another; AttemptElection() follows in a third.
\* The gap before it shows only if the peer wins its earlier election in the
\* meantime: otherwise the timer may as well expire just before the election.
TickerTimeout(s) ==
  /\ ~stuck[s]
  /\ ~electing[s]
  /\ State[s] = Candidate
  /\ CurrentTerm[s] <= MaxPreempted
  /\ electing' = [electing EXCEPT ![s] = TRUE]
  /\ UNCHANGED <<CurrentTerm, VotedFor, State, votes, logVars, leaderVars,
                 applyVars, CommitIndex, sending, stuck, disk, boot, net>>

\* AttemptElection() does not look at State again.
AttemptElection(s) ==
  /\ ~stuck[s]
  /\ electing[s] \/ State[s] # Leader
  /\ CurrentTerm[s] < MaxTerm
  /\ electing' = [electing EXCEPT ![s] = FALSE]
  /\ State' = [State EXCEPT ![s] = Candidate]
  /\ CurrentTerm' = [CurrentTerm EXCEPT ![s] = @ + 1]
  /\ VotedFor' = [VotedFor EXCEPT ![s] = s]
  /\ votes' = [votes EXCEPT ![s] = {s}]
  /\ UNCHANGED logVars
  /\ persist(s)
  /\ Send(net,
       {[type |-> "RequestVote", from |-> s, to |-> p, boot |-> boot[s],
         Term |-> CurrentTerm[s] + 1, LastLogIndex |-> GetLastLog(s).Index,
         LastLogTerm |-> GetLastLog(s).Term] : p \in Server \ {s}})
  /\ UNCHANGED <<leaderVars, applyVars, CommitIndex, sending, stuck, boot>>

VoteReply(m, term, granted) ==
  [type |-> "RequestVoteReply", args |-> m, Term |-> term, VoteGrabted |-> granted]

RequestVoteStale(m) ==
  LET s == m.to IN
  /\ ~stuck[s]
  /\ m.Term < CurrentTerm[s]
  /\ Respond(m, VoteReply(m, CurrentTerm[s], FALSE))
  /\ UNCHANGED <<electionVars, logVars, leaderVars, applyVars,
                 CommitIndex, sending, stuck, disk, boot>>

\* A vote is forgotten by every call that is not outdated.
VoteIn_Faulty(s, term) == IF term >= CurrentTerm[s] THEN NotVoted ELSE VotedFor[s]

\* RequestVote(): the vote already cast in the candidate's term.
VoteIn(s, term) == IF term > CurrentTerm[s] THEN NotVoted ELSE VotedFor[s]

\* The lengths of the logs are not compared.
UpToDate_Faulty(m, s) == m.LastLogTerm >= GetLastLog(s).Term

\* RequestVote(): the candidate's log is at least as up to date.
UpToDate(m, s) ==
  \/ m.LastLogTerm > GetLastLog(s).Term
  \/ m.LastLogTerm = GetLastLog(s).Term /\ m.LastLogIndex >= GetLastLog(s).Index

MayVote(m, s) ==
  /\ VoteIn(s, m.Term) \in {NotVoted, m.from}
  /\ UpToDate(m, s)

\* Only a vote is saved, not a term that is adopted without one.
RequestVoteRefuse_Faulty(m) ==
  LET s == m.to IN
  /\ ~stuck[s]
  /\ m.Term >= CurrentTerm[s]
  /\ ~MayVote(m, s)
  /\ CurrentTerm' = [CurrentTerm EXCEPT ![s] = m.Term]
  /\ VotedFor' = [VotedFor EXCEPT ![s] = VoteIn(s, m.Term)]
  /\ State' = IF m.Term > CurrentTerm[s] THEN [State EXCEPT ![s] = Follower]
                                         ELSE State
  /\ UNCHANGED <<votes, electing, logVars, disk>>
  /\ Respond(m, VoteReply(m, m.Term, FALSE))
  /\ UNCHANGED <<leaderVars, applyVars, CommitIndex, sending, stuck, boot>>

RequestVoteRefuse(m) ==
  LET s == m.to IN
  /\ ~stuck[s]
  /\ m.Term >= CurrentTerm[s]
  /\ ~MayVote(m, s)
  /\ CurrentTerm' = [CurrentTerm EXCEPT ![s] = m.Term]
  /\ VotedFor' = [VotedFor EXCEPT ![s] = VoteIn(s, m.Term)]
  /\ State' = IF m.Term > CurrentTerm[s] THEN [State EXCEPT ![s] = Follower]
                                         ELSE State
  /\ UNCHANGED <<votes, electing, logVars>>
  /\ IF m.Term > CurrentTerm[s] THEN persist(s) ELSE UNCHANGED disk
  /\ Respond(m, VoteReply(m, m.Term, FALSE))
  /\ UNCHANGED <<leaderVars, applyVars, CommitIndex, sending, stuck, boot>>

RequestVoteGrant(m) ==
  LET s == m.to IN
  /\ ~stuck[s]
  /\ m.Term >= CurrentTerm[s]
  /\ MayVote(m, s)
  /\ CurrentTerm' = [CurrentTerm EXCEPT ![s] = m.Term]
  /\ VotedFor' = [VotedFor EXCEPT ![s] = m.from]
  /\ State' = IF m.Term > CurrentTerm[s] THEN [State EXCEPT ![s] = Follower]
                                         ELSE State
  /\ UNCHANGED <<votes, electing, logVars>>
  /\ persist(s)
  /\ Respond(m, VoteReply(m, m.Term, TRUE))
  /\ UNCHANGED <<leaderVars, applyVars, CommitIndex, sending, stuck, boot>>

\* The goroutine AttemptElection() started for one peer has its answer.  Not
\* a candidate of that term any more, or the vote was refused: nothing to do.
VoteReplyIgnored(m) ==
  LET s == m.args.from IN
  /\ ~stuck[s]
  /\ \/ State[s] # Candidate
     \/ CurrentTerm[s] # m.args.Term
     \/ m.Term <= CurrentTerm[s] /\ ~m.VoteGrabted
  /\ Consume(m)
  /\ UNCHANGED <<electionVars, logVars, leaderVars, applyVars,
                 CommitIndex, sending, stuck, disk, boot>>

\* VotedFor keeps the vote of the term that is left.
VoteReplyHigherTerm(m) ==
  LET s == m.args.from IN
  /\ ~stuck[s]
  /\ State[s] = Candidate
  /\ CurrentTerm[s] = m.args.Term
  /\ m.Term > CurrentTerm[s]
  /\ State' = [State EXCEPT ![s] = Follower]
  /\ CurrentTerm' = [CurrentTerm EXCEPT ![s] = m.Term]
  /\ UNCHANGED <<VotedFor, votes, electing, logVars>>
  /\ persist(s)
  /\ Consume(m)
  /\ UNCHANGED <<leaderVars, applyVars, CommitIndex, sending, stuck, boot>>

BecomeLeader(s) ==
  /\ State' = [State EXCEPT ![s] = Leader]
  /\ NextIndex' = [NextIndex EXCEPT ![s] = [p \in Server |-> GetLastLog(s).Index + 1]]
  /\ MatchIndex' = [MatchIndex EXCEPT ![s] = [p \in Server |-> 0]]

VoteReplyGranted(m) ==
  LET s == m.args.from IN
  /\ ~stuck[s]
  /\ State[s] = Candidate
  /\ CurrentTerm[s] = m.args.Term
  /\ m.Term <= CurrentTerm[s]
  /\ m.VoteGrabted
  /\ votes' = [votes EXCEPT ![s] = @ \cup {m.args.to}]
  /\ IF Cardinality(votes'[s]) >= Majority
       THEN BecomeLeader(s)
       ELSE UNCHANGED <<State, leaderVars>>
  /\ Consume(m)
  /\ UNCHANGED <<CurrentTerm, VotedFor, electing, logVars, applyVars,
                 CommitIndex, sending, stuck, disk, boot>>

-----------------------------------------------------------------------------
(***************************************************************************)
(* Log replication.                                                        *)
(***************************************************************************)
Start(s, command) ==
  /\ ~stuck[s]
  /\ State[s] = Leader
  /\ GetLastLog(s).Index < MaxLogIndex
  /\ Log' = [Log EXCEPT ![s] = Append(@,
       [Command |-> command, Term |-> CurrentTerm[s],
        Index |-> GetLastLog(s).Index + 1])]
  /\ UNCHANGED <<electionVars, LastIncludedIndex, LastIncludedTerm>>
  /\ persist(s)
  /\ UNCHANGED <<leaderVars, applyVars, CommitIndex, sending, stuck, boot, net>>

\* The goroutine BroadcastEntries() starts for one peer.  It is started by
\* every heartbeat, by Start() and by a won election, so it may run whenever
\* the peer leads.  A slice that starts past its end panics and ends the program;
\* here the step is not taken, and what the others may do goes on without it.
BroadcastEntries(s, p) ==
  LET next == NextIndex[s][p] IN
  /\ ~stuck[s]
  /\ State[s] = Leader
  /\ p # s
  /\ next > LastIncludedIndex[s]
  /\ HasLogSlices(s, next, GetLastLog(s).Index + 1)
  /\ next <= GetLastLog(s).Index + 1
  /\ Send(net,
       {[type |-> "AppendEntries", from |-> s, to |-> p, boot |-> boot[s],
         Term |-> CurrentTerm[s],
         PrevLogIndex |-> next - 1, PrevLogTerm |-> GetLogEntry(s, next - 1).Term,
         Entries |-> GetLogSlices(s, next, GetLastLog(s).Index + 1),
         LeaderCommit |-> CommitIndex[s]]})
  /\ UNCHANGED <<electionVars, logVars, leaderVars, applyVars,
                 CommitIndex, sending, stuck, disk, boot>>

\* AppendEntriesReply; checkLogConsistency() fills in the X fields.
Accepted == [Success |-> TRUE, XTerm |-> 0, XIndex |-> 0, XLen |-> 0]
Rejected(xterm, xindex, xlen) ==
  [Success |-> FALSE, XTerm |-> xterm, XIndex |-> xindex, XLen |-> xlen]

EntriesReply(m, term, result) ==
  [type |-> "AppendEntriesReply", args |-> m, Term |-> term, result |-> result]

\* The first index of the run of entries of one term that ends at index i.
FirstIndexOfTerm(s, i) ==
  MinOf({f \in LastIncludedIndex[s] .. i :
           \A g \in f .. i : GetLogEntry(s, g).Term = GetLogEntry(s, i).Term})

\* The term of the previous entry is not compared.
checkLogConsistency_Faulty(s, m) ==
  IF m.PrevLogIndex < LastIncludedIndex[s]
    THEN Rejected(0, 0, LastIncludedIndex[s] + 1)
  ELSE IF ~HasLogEntry(s, m.PrevLogIndex)
    THEN Rejected(0, 0, GetLastLog(s).Index + 1)
  ELSE Accepted

checkLogConsistency(s, m) ==
  IF m.PrevLogIndex < LastIncludedIndex[s]
    THEN Rejected(0, 0, LastIncludedIndex[s] + 1)
  ELSE IF ~HasLogEntry(s, m.PrevLogIndex)
    THEN Rejected(0, 0, GetLastLog(s).Index + 1)
  ELSE IF GetLogEntry(s, m.PrevLogIndex).Term # m.PrevLogTerm
    THEN Rejected(GetLogEntry(s, m.PrevLogIndex).Term,
                  FirstIndexOfTerm(s, m.PrevLogIndex), 0)
  ELSE Accepted

\* The positions in entries that go past the log or disagree with it.
NewOrConflicting(s, entries) ==
  {k \in 1 .. Len(entries) :
     \/ entries[k].Index > GetLastLog(s).Index
     \/ GetLogEntry(s, entries[k].Index).Term # entries[k].Term}

\* The log is cut behind the entries of the call, new or not.
MergedLog_Faulty(s, entries) ==
  IF entries = <<>> THEN Log[s]
  ELSE SubSeq(Log[s], 1, entries[1].Index - LastIncludedIndex[s]) \o entries

\* The log after the loop over args.Entries.
MergedLog(s, entries) ==
  LET new == NewOrConflicting(s, entries)
      k == MinOf(new)
      keep == IF entries[k].Index > GetLastLog(s).Index
                THEN Len(Log[s])
                ELSE entries[k].Index - LastIncludedIndex[s]
  IN IF new = {} THEN Log[s]
     ELSE SubSeq(Log[s], 1, keep) \o SubSeq(entries, k, Len(entries))

\* The deferred persist() runs on this path too.
AppendEntriesStale(m) ==
  LET s == m.to IN
  /\ ~stuck[s]
  /\ m.Term < CurrentTerm[s]
  /\ UNCHANGED <<electionVars, logVars>>
  /\ persist(s)
  /\ Respond(m, EntriesReply(m, CurrentTerm[s], Rejected(0, 0, 0)))
  /\ UNCHANGED <<leaderVars, applyVars, CommitIndex, sending, stuck, boot>>

\* The part common to every current AppendEntries and InstallSnapShot.
FollowTerm(s, term) ==
  /\ term >= CurrentTerm[s]
  /\ CurrentTerm' = [CurrentTerm EXCEPT ![s] = term]
  /\ VotedFor' = [VotedFor EXCEPT ![s] = VoteIn(s, term)]
  /\ State' = [State EXCEPT ![s] = Follower]
  /\ UNCHANGED <<votes, electing>>

AppendEntriesReject(m) ==
  LET s == m.to IN
  /\ ~stuck[s]
  /\ FollowTerm(s, m.Term)
  /\ ~checkLogConsistency(s, m).Success
  /\ UNCHANGED logVars
  /\ persist(s)
  /\ Respond(m, EntriesReply(m, m.Term, checkLogConsistency(s, m)))
  /\ UNCHANGED <<leaderVars, applyVars, CommitIndex, sending, stuck, boot>>

\* CommitIndex follows whatever the leader's call says.
FollowerCommit_Faulty(s, m, last) == MinOf({m.LeaderCommit, last})

\* CommitIndex after the handler, given the index of the last entry.
FollowerCommit(s, m, last) ==
  IF m.LeaderCommit > CommitIndex[s] THEN MinOf({m.LeaderCommit, last})
                                     ELSE CommitIndex[s]

AppendEntriesAccept(m) ==
  LET s == m.to
      log == MergedLog(s, m.Entries) IN
  /\ ~stuck[s]
  /\ FollowTerm(s, m.Term)
  /\ checkLogConsistency(s, m).Success
  /\ Log' = [Log EXCEPT ![s] = log]
  /\ CommitIndex' = [CommitIndex EXCEPT ![s] = FollowerCommit(s, m, log[Len(log)].Index)]
  /\ UNCHANGED <<LastIncludedIndex, LastIncludedTerm>>
  /\ persist(s)
  /\ Respond(m, EntriesReply(m, m.Term, Accepted))
  /\ UNCHANGED <<leaderVars, applyVars, sending, stuck, boot>>

-----------------------------------------------------------------------------
(***************************************************************************)
(* The leader's side of a replication call.  Only the term is compared     *)
(* with the call's; State is not looked at.                                *)
(***************************************************************************)
\* The leader counts itself.
Replicated(s, match, n) ==
  Cardinality({p \in Server \ {s} : match[p] >= n}) + 1 >= Majority

\* Entries of earlier terms are committed by counting replicas.
updateCommitIndex_Faulty(s, match) ==
  MaxOf({CommitIndex[s]} \cup
        {n \in CommitIndex[s] + 1 .. GetLastLog(s).Index : Replicated(s, match, n)})

\* CommitIndex after updateCommitIndex(), given the MatchIndex of each peer.
updateCommitIndex(s, match) ==
  MaxOf({CommitIndex[s]} \cup
        {n \in CommitIndex[s] + 1 .. GetLastLog(s).Index :
           GetLogEntry(s, n).Term = CurrentTerm[s] /\ Replicated(s, match, n)})

ReplyOutdated(m) ==
  LET s == m.args.from IN
  /\ ~stuck[s]
  /\ m.args.Term # CurrentTerm[s]
  /\ Consume(m)
  /\ UNCHANGED <<electionVars, logVars, leaderVars, applyVars,
                 CommitIndex, sending, stuck, disk, boot>>

EntriesReplyHigherTerm(m) ==
  LET s == m.args.from IN
  /\ ~stuck[s]
  /\ m.args.Term = CurrentTerm[s]
  /\ m.Term > CurrentTerm[s]
  /\ CurrentTerm' = [CurrentTerm EXCEPT ![s] = m.Term]
  /\ State' = [State EXCEPT ![s] = Follower]
  /\ VotedFor' = [VotedFor EXCEPT ![s] = NotVoted]
  /\ UNCHANGED <<votes, electing, logVars>>
  /\ persist(s)
  /\ Consume(m)
  /\ UNCHANGED <<leaderVars, applyVars, CommitIndex, sending, stuck, boot>>

\* A peer is known to hold the log up to match.
Matched(s, p, match) ==
  /\ MatchIndex' = [MatchIndex EXCEPT ![s][p] = MaxOf({@, match})]
  /\ NextIndex' = [NextIndex EXCEPT ![s][p] = MaxOf({@, match + 1})]
  /\ CommitIndex' = [CommitIndex EXCEPT ![s] = updateCommitIndex(s, MatchIndex'[s])]

EntriesReplySuccess(m) ==
  LET s == m.args.from IN
  /\ ~stuck[s]
  /\ m.args.Term = CurrentTerm[s]
  /\ m.Term <= CurrentTerm[s]
  /\ m.result.Success
  /\ Matched(s, m.args.to, m.args.PrevLogIndex + Len(m.args.Entries))
  /\ Consume(m)
  /\ UNCHANGED <<electionVars, logVars, applyVars, sending, stuck, disk, boot>>

\* Fast back-up: where the leader tries next.
BackUp(s, result) ==
  LET same == {k \in 1 .. Len(Log[s]) : Log[s][k].Term = result.XTerm} IN
  IF result.XTerm = 0 THEN result.XLen
  ELSE IF same # {} THEN Log[s][MaxOf(same)].Index + 1
  ELSE result.XIndex

\* Every rejection takes the leader one entry back, also one it has acted upon.
EntriesReplyFailure_Faulty(m) ==
  LET s == m.args.from IN
  /\ ~stuck[s]
  /\ m.args.Term = CurrentTerm[s]
  /\ m.Term <= CurrentTerm[s]
  /\ ~m.result.Success
  /\ NextIndex' = [NextIndex EXCEPT ![s][m.args.to] = @ - 1]
  /\ Consume(m)
  /\ UNCHANGED <<electionVars, logVars, MatchIndex, applyVars,
                 CommitIndex, sending, stuck, disk, boot>>

EntriesReplyFailure(m) ==
  LET s == m.args.from IN
  /\ ~stuck[s]
  /\ m.args.Term = CurrentTerm[s]
  /\ m.Term <= CurrentTerm[s]
  /\ ~m.result.Success
  /\ NextIndex' = [NextIndex EXCEPT ![s][m.args.to] = BackUp(s, m.result)]
  /\ Consume(m)
  /\ UNCHANGED <<electionVars, logVars, MatchIndex, applyVars,
                 CommitIndex, sending, stuck, disk, boot>>

-----------------------------------------------------------------------------
(***************************************************************************)
(* Log compaction.                                                         *)
(***************************************************************************)
\* The entry that should become the placeholder is cut too.
Snapshot_Faulty(s) ==
  LET index == Len(sm[s]) IN
  /\ ~stuck[s]
  /\ index > LastIncludedIndex[s]
  /\ HasLogEntry(s, index)
  /\ Log' = [Log EXCEPT ![s] = SubSeq(@, index - LastIncludedIndex[s] + 2, Len(@))]
  /\ LastIncludedIndex' = [LastIncludedIndex EXCEPT ![s] = index]
  /\ LastIncludedTerm' = [LastIncludedTerm EXCEPT ![s] = GetLogEntry(s, index).Term]
  /\ UNCHANGED electionVars
  /\ Save(s, sm[s])
  /\ UNCHANGED <<leaderVars, applyVars, CommitIndex, sending, stuck, boot, net>>

\* The service hands over a snapshot of all it has applied.
Snapshot(s) ==
  LET index == Len(sm[s]) IN
  /\ ~stuck[s]
  /\ index > LastIncludedIndex[s]
  /\ HasLogEntry(s, index)
  /\ Log' = [Log EXCEPT ![s] = SubSeq(@, index - LastIncludedIndex[s] + 1, Len(@))]
  /\ LastIncludedIndex' = [LastIncludedIndex EXCEPT ![s] = index]
  /\ LastIncludedTerm' = [LastIncludedTerm EXCEPT ![s] = GetLogEntry(s, index).Term]
  /\ UNCHANGED electionVars
  /\ Save(s, sm[s])
  /\ UNCHANGED <<leaderVars, applyVars, CommitIndex, sending, stuck, boot, net>>

\* BroadcastEntries() for a peer whose next entry is compacted away: the
\* arguments are read under the lock, which is then released.
PrepareSnapShot(s, p) ==
  /\ ~stuck[s]
  /\ State[s] = Leader
  /\ p # s
  /\ NextIndex[s][p] <= LastIncludedIndex[s]
  /\ sending' = [sending EXCEPT ![s] = @ \cup
       {[type |-> "InstallSnapShot", from |-> s, to |-> p, boot |-> boot[s],
         Term |-> CurrentTerm[s], LastIncludedIndex |-> LastIncludedIndex[s],
         LastIncludedTerm |-> LastIncludedTerm[s], Data |-> disk[s].snapshot]}]
  /\ UNCHANGED <<electionVars, logVars, leaderVars, applyVars,
                 CommitIndex, stuck, disk, boot, net>>

\* sendSnapShot() takes the lock again.
sendSnapShot(s, m) ==
  /\ ~stuck[s]
  /\ State[s] = Leader
  /\ sending' = [sending EXCEPT ![s] = @ \ {m}]
  /\ Send(net, {m})
  /\ UNCHANGED <<electionVars, logVars, leaderVars, applyVars,
                 CommitIndex, stuck, disk, boot>>

\* sendSnapShot() of a peer that no longer leads returns with rf.mu locked.
sendSnapShotNotLeader(s, m) ==
  /\ ~stuck[s]
  /\ State[s] # Leader
  /\ sending' = [sending EXCEPT ![s] = @ \ {m}]
  /\ stuck' = [stuck EXCEPT ![s] = TRUE]
  /\ UNCHANGED <<electionVars, logVars, leaderVars, applyVars,
                 CommitIndex, disk, boot, net>>

\* reply.Term is set before the receiver looks at args.Term.
SnapShotReply(m, term) ==
  [type |-> "InstallSnapShotReply", args |-> m, Term |-> term]

InstallSnapShotStale(m) ==
  LET s == m.to IN
  /\ ~stuck[s]
  /\ m.Term < CurrentTerm[s]
  /\ Respond(m, SnapShotReply(m, CurrentTerm[s]))
  /\ UNCHANGED <<electionVars, logVars, leaderVars, applyVars,
                 CommitIndex, sending, stuck, disk, boot>>

\* The term that was adopted is not persisted on this path.
InstallSnapShotOld(m) ==
  LET s == m.to IN
  /\ ~stuck[s]
  /\ FollowTerm(s, m.Term)
  /\ m.LastIncludedIndex <= LastIncludedIndex[s]
  /\ Respond(m, SnapShotReply(m, CurrentTerm[s]))
  /\ UNCHANGED <<logVars, leaderVars, applyVars,
                 CommitIndex, sending, stuck, disk, boot>>

\* The whole log is replaced by the placeholder.
InstallSnapShot(m) ==
  LET s == m.to IN
  /\ ~stuck[s]
  /\ FollowTerm(s, m.Term)
  /\ m.LastIncludedIndex > LastIncludedIndex[s]
  /\ Log' = [Log EXCEPT ![s] = <<Placeholder(m.LastIncludedTerm, m.LastIncludedIndex)>>]
  /\ LastIncludedIndex' = [LastIncludedIndex EXCEPT ![s] = m.LastIncludedIndex]
  /\ LastIncludedTerm' = [LastIncludedTerm EXCEPT ![s] = m.LastIncludedTerm]
  /\ Save(s, m.Data)
  /\ Respond(m, SnapShotReply(m, CurrentTerm[s]))
  /\ UNCHANGED <<leaderVars, applyVars, CommitIndex, sending, stuck, boot>>

\* VotedFor keeps the vote of the term that is left.
SnapShotReplyHigherTerm(m) ==
  LET s == m.args.from IN
  /\ ~stuck[s]
  /\ m.args.Term = CurrentTerm[s]
  /\ m.Term > CurrentTerm[s]
  /\ CurrentTerm' = [CurrentTerm EXCEPT ![s] = m.Term]
  /\ State' = [State EXCEPT ![s] = Follower]
  /\ UNCHANGED <<VotedFor, votes, electing, logVars>>
  /\ persist(s)
  /\ Consume(m)
  /\ UNCHANGED <<leaderVars, applyVars, CommitIndex, sending, stuck, boot>>

SnapShotReplySuccess(m) ==
  LET s == m.args.from IN
  /\ ~stuck[s]
  /\ m.args.Term = CurrentTerm[s]
  /\ m.Term <= CurrentTerm[s]
  /\ Matched(s, m.args.to, m.args.LastIncludedIndex)
  /\ Consume(m)
  /\ UNCHANGED <<electionVars, logVars, applyVars, sending, stuck, disk, boot>>

-----------------------------------------------------------------------------
(***************************************************************************)
(* The Applier goroutine and the service that reads applyCh.  The lock is  *)
(* not held while messages are sent.  CommitIndex beyond the log makes the *)
(* goroutine spin without effect.                                          *)
(***************************************************************************)
Idle == [busy |-> FALSE, msgs |-> <<>>, upto |-> 0]

CommandMsg(e) == [kind |-> "command", Index |-> e.Index,
                  data |-> <<[Term |-> e.Term, Command |-> e.Command]>>]
SnapshotMsg(index, data) == [kind |-> "snapshot", Index |-> index, data |-> data]

ApplierTakeSnapshot(s) ==
  /\ ~stuck[s]
  /\ ~applier[s].busy
  /\ LastApplied[s] < LastIncludedIndex[s]
  /\ applier' = [applier EXCEPT ![s] =
       [busy |-> TRUE, upto |-> LastIncludedIndex[s],
        msgs |-> <<SnapshotMsg(LastIncludedIndex[s], disk[s].snapshot)>>]]
  /\ UNCHANGED <<electionVars, logVars, leaderVars, LastApplied, sm,
                 CommitIndex, sending, stuck, disk, boot, net>>

ApplierTakeEntries(s) ==
  LET entries == GetLogSlices(s, LastApplied[s] + 1, CommitIndex[s] + 1) IN
  /\ ~stuck[s]
  /\ ~applier[s].busy
  /\ LastApplied[s] >= LastIncludedIndex[s]
  /\ CommitIndex[s] > LastApplied[s]
  /\ HasLogSlices(s, LastApplied[s] + 1, CommitIndex[s] + 1)
  /\ applier' = [applier EXCEPT ![s] =
       [busy |-> TRUE, upto |-> CommitIndex[s],
        msgs |-> [k \in 1 .. Len(entries) |-> CommandMsg(entries[k])]]]
  /\ UNCHANGED <<electionVars, logVars, leaderVars, LastApplied, sm,
                 CommitIndex, sending, stuck, disk, boot, net>>

\* One message changes hands; a snapshot replaces the service's state.
ApplierSend(s) ==
  LET msg == Head(applier[s].msgs) IN
  /\ applier[s].msgs # <<>>
  /\ applier' = [applier EXCEPT ![s].msgs = Tail(@)]
  /\ sm' = [sm EXCEPT ![s] = IF msg.kind = "snapshot" THEN msg.data ELSE @ \o msg.data]
  /\ UNCHANGED <<electionVars, logVars, leaderVars, LastApplied,
                 CommitIndex, sending, stuck, disk, boot, net>>

\* LastApplied is not moved.
ApplierDone_Faulty(s) ==
  /\ ~stuck[s]
  /\ applier[s].busy
  /\ applier[s].msgs = <<>>
  /\ applier' = [applier EXCEPT ![s] = Idle]
  /\ UNCHANGED <<electionVars, logVars, leaderVars, LastApplied, sm,
                 CommitIndex, sending, stuck, disk, boot, net>>

ApplierDone(s) ==
  /\ ~stuck[s]
  /\ applier[s].busy
  /\ applier[s].msgs = <<>>
  /\ LastApplied' = [LastApplied EXCEPT ![s] = MaxOf({@, applier[s].upto})]
  /\ applier' = [applier EXCEPT ![s] = Idle]
  /\ UNCHANGED <<electionVars, logVars, leaderVars, sm,
                 CommitIndex, sending, stuck, disk, boot, net>>

-----------------------------------------------------------------------------
(***************************************************************************)
(* The process stops and Make() starts it again from what was saved; the   *)
(* service restores the saved snapshot.  Kill() takes rf.mu, so a peer     *)
(* that left it locked cannot be shut down.                                *)
(***************************************************************************)
LastBoot == MaxOf({boot[s] : s \in Server})

readPersist(s) ==
  /\ CurrentTerm' = [CurrentTerm EXCEPT ![s] = disk[s].CurrentTerm]
  /\ VotedFor' = [VotedFor EXCEPT ![s] = disk[s].VotedFor]
  /\ Log' = [Log EXCEPT ![s] = disk[s].Log]
  /\ LastIncludedIndex' = [LastIncludedIndex EXCEPT ![s] = disk[s].LastIncludedIndex]
  /\ LastIncludedTerm' = [LastIncludedTerm EXCEPT ![s] = disk[s].LastIncludedTerm]

Make(s) ==
  /\ ~stuck[s]
  /\ LastBoot < MaxBoots
  /\ boot' = [boot EXCEPT ![s] = LastBoot + 1]
  /\ readPersist(s)
  /\ State' = [State EXCEPT ![s] = Follower]
  /\ CommitIndex' = [CommitIndex EXCEPT ![s] = 0]
  /\ LastApplied' = [LastApplied EXCEPT ![s] = 0]
  /\ NextIndex' = [NextIndex EXCEPT ![s] = [p \in Server |-> 0]]
  /\ MatchIndex' = [MatchIndex EXCEPT ![s] = [p \in Server |-> 0]]
  /\ votes' = [votes EXCEPT ![s] = {}]
  /\ electing' = [electing EXCEPT ![s] = FALSE]
  /\ sending' = [sending EXCEPT ![s] = {}]
  /\ applier' = [applier EXCEPT ![s] = Idle]
  /\ sm' = [sm EXCEPT ![s] = disk[s].snapshot]
  /\ net' = net \ RepliesTo(s)
  /\ UNCHANGED <<stuck, disk>>

InitialLog == <<Placeholder(0, 0)>>

Init ==
  /\ CurrentTerm = [s \in Server |-> 0]
  /\ VotedFor = [s \in Server |-> NotVoted]
  /\ Log = [s \in Server |-> InitialLog]
  /\ State = [s \in Server |-> Follower]
  /\ CommitIndex = [s \in Server |-> 0]
  /\ LastApplied = [s \in Server |-> 0]
  /\ NextIndex = [s \in Server |-> [p \in Server |-> 0]]
  /\ MatchIndex = [s \in Server |-> [p \in Server |-> 0]]
  /\ LastIncludedIndex = [s \in Server |-> 0]
  /\ LastIncludedTerm = [s \in Server |-> 0]
  /\ votes = [s \in Server |-> {}]
  /\ electing = [s \in Server |-> FALSE]
  /\ sending = [s \in Server |-> {}]
  /\ stuck = [s \in Server |-> FALSE]
  /\ applier = [s \in Server |-> Idle]
  /\ sm = [s \in Server |-> <<>>]
  /\ disk = [s \in Server |->
       [CurrentTerm |-> 0, VotedFor |-> NotVoted, Log |-> InitialLog,
        LastIncludedIndex |-> 0, LastIncludedTerm |-> 0, snapshot |-> <<>>]]
  /\ boot = [s \in Server |-> 0]
  /\ net = {}

HandleRequest(m) ==
  \/ /\ m.type = "RequestVote"
     /\ RequestVoteStale(m) \/ RequestVoteRefuse(m) \/ RequestVoteGrant(m)
  \/ /\ m.type = "AppendEntries"
     /\ AppendEntriesStale(m) \/ AppendEntriesReject(m) \/ AppendEntriesAccept(m)
  \/ /\ m.type = "InstallSnapShot"
     /\ InstallSnapShotStale(m) \/ InstallSnapShotOld(m) \/ InstallSnapShot(m)

HandleReply(m) ==
  \/ /\ m.type = "RequestVoteReply"
     /\ VoteReplyIgnored(m) \/ VoteReplyHigherTerm(m) \/ VoteReplyGranted(m)
  \/ /\ m.type = "AppendEntriesReply"
     /\ \/ ReplyOutdated(m) \/ EntriesReplyHigherTerm(m)
        \/ EntriesReplySuccess(m) \/ EntriesReplyFailure(m)
  \/ /\ m.type = "InstallSnapShotReply"
     /\ ReplyOutdated(m) \/ SnapShotReplyHigherTerm(m) \/ SnapShotReplySuccess(m)

Next ==
  \/ \E s \in Candidates : TickerTimeout(s) \/ AttemptElection(s)
  \/ \E s \in Server : Make(s)
  \/ \E s \in Server, c \in Command : Start(s, c)
  \/ \E s, p \in Server : BroadcastEntries(s, p) \/ PrepareSnapShot(s, p)
  \/ \E s \in Server : \E m \in sending[s] :
       sendSnapShot(s, m) \/ sendSnapShotNotLeader(s, m)
  \/ \E s \in Snapshotters : Snapshot(s)
  \/ \E s \in Appliers : \/ ApplierTakeSnapshot(s) \/ ApplierTakeEntries(s)
                         \/ ApplierSend(s) \/ ApplierDone(s)
  \/ \E m \in net : HandleRequest(m) \/ HandleReply(m)

Spec == Init /\ [][Next]_vars

-----------------------------------------------------------------------------
(***************************************************************************)
(* Types.                                                                  *)
(***************************************************************************)
Log0 == Seq(LogEntry) \ {<<>>}

Applied == [Term : Nat, Command : Command \cup {NoCommand}]

RequestVoteArgs ==
  [type : {"RequestVote"}, from : Server, to : Server, boot : Nat, Term : Nat,
   LastLogIndex : Nat, LastLogTerm : Nat]

AppendEntriesArgs ==
  [type : {"AppendEntries"}, from : Server, to : Server, boot : Nat, Term : Nat,
   PrevLogIndex : Nat, PrevLogTerm : Nat, Entries : Seq(LogEntry), LeaderCommit : Nat]

InstallSnapshotArgs ==
  [type : {"InstallSnapShot"}, from : Server, to : Server, boot : Nat, Term : Nat,
   LastIncludedIndex : Nat, LastIncludedTerm : Nat, Data : Seq(Applied)]

RequestVoteReply ==
  [type : {"RequestVoteReply"}, args : RequestVoteArgs, Term : Nat, VoteGrabted : BOOLEAN]

AppendEntriesReply ==
  [type : {"AppendEntriesReply"}, args : AppendEntriesArgs, Term : Nat,
   result : [Success : BOOLEAN, XTerm : Nat, XIndex : Nat, XLen : Nat]]

InstallSnapshotReply ==
  [type : {"InstallSnapShotReply"}, args : InstallSnapshotArgs, Term : Nat]

Message == RequestVoteArgs \cup AppendEntriesArgs \cup InstallSnapshotArgs
           \cup RequestVoteReply \cup AppendEntriesReply \cup InstallSnapshotReply

ApplyMsg == [kind : {"command", "snapshot"}, Index : Nat, data : Seq(Applied)]

Persisted ==
  [CurrentTerm : Nat, VotedFor : Server \cup {NotVoted}, Log : Log0,
   LastIncludedIndex : Nat, LastIncludedTerm : Nat, snapshot : Seq(Applied)]

\* Every variable has the type its Go declaration gives it, and a log is
\* never empty, so that GetLastLog() is always defined.
TypeOK ==
  /\ CurrentTerm \in [Server -> Nat]
  /\ VotedFor \in [Server -> Server \cup {NotVoted}]
  /\ Log \in [Server -> Log0]
  /\ State \in [Server -> {Leader, Candidate, Follower}]
  /\ CommitIndex \in [Server -> Nat]
  /\ LastApplied \in [Server -> Nat]
  /\ NextIndex \in [Server -> [Server -> Nat]]
  /\ MatchIndex \in [Server -> [Server -> Nat]]
  /\ LastIncludedIndex \in [Server -> Nat]
  /\ LastIncludedTerm \in [Server -> Nat]
  /\ votes \in [Server -> SUBSET Server]
  /\ electing \in [Server -> BOOLEAN]
  /\ sending \in [Server -> SUBSET InstallSnapshotArgs]
  /\ stuck \in [Server -> BOOLEAN]
  /\ applier \in [Server -> [busy : BOOLEAN, msgs : Seq(ApplyMsg), upto : Nat]]
  /\ sm \in [Server -> Seq(Applied)]
  /\ disk \in [Server -> Persisted]
  /\ boot \in [Server -> 0 .. MaxBoots]
  /\ net \in SUBSET Message

-----------------------------------------------------------------------------
(***************************************************************************)
(* Elections: safety.                                                      *)
(***************************************************************************)
\* The vote of v for c is on the disk of v, or a later term is.
VoteSaved(v, c, term) ==
  \/ disk[v].CurrentTerm > term
  \/ disk[v].CurrentTerm = term /\ disk[v].VotedFor = c

\* A vote that is on its way to the candidate, or that the candidate has
\* counted, is on the voter's disk until the voter has saved a later term: a
\* restart cannot make the voter forget it.
VoteDurable ==
  /\ \A m \in net :
       (m.type = "RequestVoteReply" /\ m.VoteGrabted) =>
         VoteSaved(m.args.to, m.args.from, m.args.Term)
  /\ \A c \in Server :
       State[c] \in {Candidate, Leader} => \A v \in votes[c] : VoteSaved(v, c, CurrentTerm[c])

\* checkOneLeader() of the tester: no term has two leaders, although a voter may
\* restart and a step down may leave the vote of an earlier term behind.
ElectionSafety ==
  \A s, p \in Server :
    State[s] = Leader /\ State[p] = Leader /\ CurrentTerm[s] = CurrentTerm[p]
      => s = p

-----------------------------------------------------------------------------
(***************************************************************************)
(* The log: safety.                                                        *)
(***************************************************************************)
\* Log Matching: two logs that agree on the term at an index agree on every
\* earlier entry that both still hold.  In other words, logs that AppendEntries()
\* has let differ at one index differ at every later one.
LogMatching ==
  \A s, p \in Server :
    \A j \in LastIncludedIndex[s] .. GetLastLog(s).Index :
      (HasLogEntry(p, j) /\ GetLogEntry(s, j).Term # GetLogEntry(p, j).Term) =>
        \A i \in j .. GetLastLog(s).Index :
          HasLogEntry(p, i) => GetLogEntry(s, i).Term # GetLogEntry(p, i).Term

\* The index arithmetic of ConvertToPhysicIdx() is right at every moment: the
\* entry at position k of the slice carries index LastIncludedIndex + k, in
\* memory and on disk, whatever mixture of truncation, compaction and restart.
LogIndexing ==
  \A s \in Server :
    /\ LastIncludedTerm[s] = Log[s][1].Term
    /\ \A k \in 1 .. Len(Log[s]) : Log[s][k].Index = LastIncludedIndex[s] + k - 1
    /\ disk[s].Log = Log[s]
    /\ disk[s].LastIncludedIndex = LastIncludedIndex[s]
    /\ disk[s].LastIncludedTerm = LastIncludedTerm[s]

\* What a leader counts towards a majority is on the peer's disk: MatchIndex
\* never runs ahead of what the peer would come back with after a crash, even
\* when AppendEntries() is called with fewer entries after a longer call.
MatchIndexSound ==
  \A s, p \in Server :
    (State[s] = Leader /\ p # s /\ CurrentTerm[p] <= CurrentTerm[s]) =>
      \A i \in LastIncludedIndex[s] .. MatchIndex[s][p] :
        \/ i <= disk[p].LastIncludedIndex
        \/ /\ i - disk[p].LastIncludedIndex < Len(disk[p].Log)
           /\ disk[p].Log[i - disk[p].LastIncludedIndex + 1].Term = GetLogEntry(s, i).Term

\* Leader Completeness: a leader at least as recent as s holds every entry s
\* knows to be committed.
LeaderCompleteness ==
  \A s, l \in Server :
    (State[l] = Leader /\ CurrentTerm[l] >= CurrentTerm[s]) =>
      /\ CommitIndex[s] <= GetLastLog(l).Index
      /\ \A i \in LastIncludedIndex[s] .. CommitIndex[s] :
           (HasLogEntry(s, i) /\ HasLogEntry(l, i)) =>
             GetLogEntry(s, i).Term = GetLogEntry(l, i).Term

\* checkLogs() of the tester: no two services have been handed different
\* commands for one index ("committed values do not match").
StateMachineSafety ==
  \A s, p \in Server : \A i \in 1 .. Len(sm[s]) :
    i <= Len(sm[p]) => sm[s][i] = sm[p][i]

\* AppendEntries() bounds CommitIndex by the last entry of the log, not by
\* the last new entry.  That is sound only because no call names a commit
\* index beyond the entries it brings.
CommitCovered ==
  \A m \in net : m.type = "AppendEntries" =>
    m.LeaderCommit <= m.PrevLogIndex + Len(m.Entries)

\* Without compaction NextIndex of a leader's peer stays within 1 .. last + 1,
\* also when a rejection arrives after the leader has gone on from it: beyond
\* the slice expression of GetLogSlices() panics.
NextIndexInBounds ==
  \A s, p \in Server :
    (State[s] = Leader /\ p # s) => NextIndex[s][p] \in 1 .. GetLastLog(s).Index + 1

\* Without compaction CommitIndex moves back only when the process restarts, in
\* whatever order AppendEntries() gets calls of old and new leaders: the handler
\* compares LeaderCommit with CommitIndex, and then takes the smaller of
\* LeaderCommit and its last index without comparing again.
CommitNeverRetreats ==
  [][\A s \in Server : boot'[s] = boot[s] => CommitIndex'[s] >= CommitIndex[s]]_vars

-----------------------------------------------------------------------------
(***************************************************************************)
(* The Applier: what the service sees.                                     *)
(***************************************************************************)
\* "server %v apply out of order" of the tester never happens: a command that
\* is about to be sent is the next one for the service, and a snapshot never
\* takes the service back.
ApplyInOrder ==
  \A s \in Server : applier[s].msgs # <<>> =>
    LET msg == Head(applier[s].msgs) IN
    IF msg.kind = "command" THEN msg.Index = Len(sm[s]) + 1
                            ELSE msg.Index = Len(msg.data) /\ msg.Index >= Len(sm[s])

\* The saved snapshot covers exactly the indices cut from the saved log: a
\* restart neither loses nor repeats a command.
SnapshotCoversLog ==
  \A s \in Server : Len(disk[s].snapshot) = disk[s].LastIncludedIndex

-----------------------------------------------------------------------------
(***************************************************************************)
(* Persistence and locking.                                                *)
(***************************************************************************)
\* "persistent state on all servers" (raft.go:54): without compaction, whenever
\* the lock is free the disk holds the current term and vote, on whichever of its
\* many returns a handler or a goroutine has left, so that no restart takes a
\* peer back to an earlier term.
PersistentState ==
  \A s \in Server : /\ disk[s].CurrentTerm = CurrentTerm[s]
                    /\ disk[s].VotedFor = VotedFor[s]

\* Start() is to "return immediately": no goroutine has ended with rf.mu locked.
MutexReleased == \A s \in Server : ~stuck[s]
=============================================================================
