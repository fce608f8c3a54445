------------------------- MODULE RaftElectionProofs -------------------------
(***************************************************************************)
(* For every set of peers and every bound, with snapshots, restarts and    *)
(* whatever the network does: a step keeps that no term has two leaders    *)
(* and that logs match.                                                    *)
(*                                                                         *)
(* Election safety is not inductive.  The strengthening follows each vote  *)
(* from the reply that carries it to the candidate's tally: the voter is   *)
(* bound by it in memory and on disk, and it has given no other vote in    *)
(* that term.                                                              *)
(*                                                                         *)
(* Log Matching is not inductive either: entries also travel in calls.     *)
(* The strengthening speaks of everything that names an entry.  An index   *)
(* and a term are named only after a leader of that term has appended      *)
(* there, so the leader, who alone appends, never gives the pair away      *)
(* twice.                                                                  *)
(***************************************************************************)
EXTENDS RaftLemmas

\* A leaf that names no prover is tried with Zenon and with the SMT solver, then
\* with both once more.
USE ZenonT(5), SMTT(60), Z3T(60), ZenonT(30)

-----------------------------------------------------------------------------
(***************************************************************************)
(* Steps that create no vote.                                              *)
(***************************************************************************)
LEMMA QuietStep ==
  ASSUME ElectionInv, IndInv', Quiet
  PROVE  ElectionInv'
<1>1. TypeOK /\ TypeOK'
  BY DEF ElectionInv, IndInv
<1>2. ASSUME NEW v \in Server, NEW c \in Server, NEW term \in Nat, HasVote(v, c, term)'
      PROVE  HasVote(v, c, term)
  BY <1>2 DEF HasVote, Quiet, Granted, Stays
<1>3. VotesBind'
  <2> SUFFICES ASSUME NEW v \in Server, NEW c \in Server, NEW term \in Nat,
                      HasVote(v, c, term)'
               PROVE  Bound(v, c, term)'
    BY DEF VotesBind
  <2>1. Bound(v, c, term)
    BY <1>2 DEF ElectionInv, VotesBind
  <2>2. QED
    BY <1>1, <2>1, BoundKept DEF Quiet
<1>4. VotesUnique'
  BY <1>2 DEF ElectionInv, VotesUnique
<1>5. LeadersElected'
  BY DEF ElectionInv, LeadersElected, Quiet, Stays
<1>6. QED
  BY <1>3, <1>4, <1>5 DEF ElectionInv

-----------------------------------------------------------------------------
(***************************************************************************)
(* The three steps that move a vote.                                       *)
(***************************************************************************)
LEMMA AttemptElectionVotes ==
  ASSUME ElectionInv, IndInv', NEW s \in Server, AttemptElection(s)
  PROVE  ElectionInv'
<1>1. TypeOK /\ TypeOK' /\ CurrentTerm[s] \in Nat
  BY DEF ElectionInv, IndInv, TypeOK
<1> DEFINE new == CurrentTerm[s] + 1
<1>2. /\ State' = [State EXCEPT ![s] = Candidate]
      /\ CurrentTerm' = [CurrentTerm EXCEPT ![s] = new]
      /\ VotedFor' = [VotedFor EXCEPT ![s] = s]
      /\ votes' = [votes EXCEPT ![s] = {s}]
      /\ persist(s)
  BY DEF AttemptElection
<1>3. \A p \in Server : Advances(p)
  BY <1>1, AttemptElectionCasts
<1>4. ASSUME NEW v \in Server, NEW c \in Server, NEW term \in Nat, HasVote(v, c, term)'
      PROVE  HasVote(v, c, term) \/ (v = s /\ c = s /\ term = new)
  BY <1>1, <1>4, AttemptElectionCasts
<1>5. \A c \in Server : ~HasVote(s, c, new)
  BY <1>1 DEF ElectionInv, VotesBind, Bound
<1>6. VotesBind'
  <2> SUFFICES ASSUME NEW v \in Server, NEW c \in Server, NEW term \in Nat,
                      HasVote(v, c, term)'
               PROVE  Bound(v, c, term)'
    BY DEF VotesBind
  <2>1. CASE HasVote(v, c, term)
    BY <1>1, <1>3, <2>1, BoundKept DEF ElectionInv, VotesBind
  <2>2. CASE v = s /\ c = s /\ term = new
    BY <1>1, <1>2, <2>2 DEF Bound, persist, Save, EncodeRaftState, TypeOK
  <2>3. QED
    BY <1>4, <2>1, <2>2
<1>7. VotesUnique'
  BY <1>4, <1>5 DEF ElectionInv, VotesUnique
<1>8. LeadersElected'
  BY <1>1, <1>2 DEF ElectionInv, LeadersElected, TypeOK, Candidate, Leader
<1>9. QED
  BY <1>6, <1>7, <1>8 DEF ElectionInv

LEMMA GrantVotes ==
  ASSUME ElectionInv, IndInv', NEW m \in net, m.type = "RequestVote", RequestVoteGrant(m)
  PROVE  ElectionInv'
<1> DEFINE s == m.to
<1>1. TypeOK /\ TypeOK'
  BY DEF ElectionInv, IndInv
<1>2. s \in Server /\ m.from \in Server /\ m.Term \in Nat
  BY <1>1, MessageTypes DEF RequestVoteArgs
<1>3. CurrentTerm[s] \in Nat
  BY <1>1, <1>2 DEF TypeOK
<1>4. /\ m.Term >= CurrentTerm[s]
      /\ CurrentTerm' = [CurrentTerm EXCEPT ![s] = m.Term]
      /\ VotedFor' = [VotedFor EXCEPT ![s] = m.from]
      /\ persist(s)
  BY DEF RequestVoteGrant
<1>7. CurrentTerm[s] = m.Term => VotedFor[s] \in {NotVoted, m.from}
  BY <1>1, GrantCasts
<1>8. \A p \in Server : Advances(p) /\ Stays(p)
  BY <1>1, GrantCasts
<1>9. ASSUME NEW v \in Server, NEW c \in Server, NEW term \in Nat, HasVote(v, c, term)'
      PROVE  HasVote(v, c, term) \/ (v = s /\ c = m.from /\ term = m.Term)
  BY <1>1, <1>9, GrantCasts
<1>10. ASSUME NEW c \in Server, HasVote(s, c, m.Term) PROVE c = m.from
  <2>1. Bound(s, c, m.Term)
    BY <1>2, <1>10 DEF ElectionInv, VotesBind
  <2>2. CurrentTerm[s] = m.Term /\ VotedFor[s] = c
    BY <1>2, <1>3, <1>4, <2>1 DEF Bound
  <2>3. QED
    BY <1>7, <2>2, ServerAssumption
<1>11. VotesBind'
  <2> SUFFICES ASSUME NEW v \in Server, NEW c \in Server, NEW term \in Nat,
                      HasVote(v, c, term)'
               PROVE  Bound(v, c, term)'
    BY DEF VotesBind
  <2>1. CASE HasVote(v, c, term)
    BY <1>1, <1>8, <2>1, BoundKept DEF ElectionInv, VotesBind
  <2>2. CASE v = s /\ c = m.from /\ term = m.Term
    BY <1>1, <1>2, <1>4, <2>2 DEF Bound, persist, Save, EncodeRaftState, TypeOK
  <2>3. QED
    BY <1>9, <2>1, <2>2
<1>12. VotesUnique'
  BY <1>9, <1>10 DEF ElectionInv, VotesUnique
<1>13. LeadersElected'
  BY <1>8 DEF ElectionInv, LeadersElected, Stays
<1>14. QED
  BY <1>11, <1>12, <1>13 DEF ElectionInv

LEMMA CountVotes ==
  ASSUME ElectionInv, IndInv', NEW m \in net, m.type = "RequestVoteReply",
         VoteReplyGranted(m)
  PROVE  ElectionInv'
<1> DEFINE s == m.args.from
<1>1. TypeOK
  BY DEF ElectionInv, IndInv
<1>3. /\ State[s] = Candidate
      /\ IF Cardinality(votes'[s]) >= Majority
           THEN BecomeLeader(s)
           ELSE UNCHANGED <<State, leaderVars>>
      /\ UNCHANGED <<CurrentTerm, VotedFor, disk>>
  BY DEF VoteReplyGranted
<1>5. ASSUME NEW p \in Server, p # s
      PROVE  State'[p] = State[p] /\ votes'[p] = votes[p]
  BY <1>1, <1>5, CountCasts
<1>6. ASSUME NEW v \in Server, NEW c \in Server, NEW term \in Nat, HasVote(v, c, term)'
      PROVE  HasVote(v, c, term)
  BY <1>1, <1>6, CountCasts
<1>7. VotesBind'
  BY <1>3, <1>6 DEF ElectionInv, VotesBind, Bound
<1>8. VotesUnique'
  BY <1>6 DEF ElectionInv, VotesUnique
<1>9. LeadersElected'
  <2> SUFFICES ASSUME NEW p \in Server, State'[p] = Leader
               PROVE  Cardinality(votes'[p]) >= Majority
    BY DEF LeadersElected, Majority
  <2>1. CASE p = s
    BY <1>3, <2>1 DEF Candidate, Leader
  <2>2. CASE p # s
    <3>1. State[p] = Leader /\ votes'[p] = votes[p]
      BY <1>5, <2>2
    <3>2. QED
      BY <3>1 DEF ElectionInv, LeadersElected
  <2>3. QED
    BY <2>1, <2>2
<1>10. QED
  BY <1>7, <1>8, <1>9 DEF ElectionInv

-----------------------------------------------------------------------------
LEMMA InitElectionInv == Init => ElectionInv
<1> SUFFICES ASSUME Init PROVE ElectionInv
  OBVIOUS
<1>1. IndInv
  BY InitIndInv
<1>2. \A v, c \in Server, term \in Nat : ~HasVote(v, c, term)
  BY DEF Init, HasVote
<1>3. LeadersElected
  BY DEF Init, LeadersElected, Follower, Leader
<1>4. QED
  BY <1>1, <1>2, <1>3 DEF ElectionInv, VotesBind, VotesUnique

LEMMA NextElectionInv ==
  ASSUME Counting
  PROVE  ElectionInv /\ [Next]_vars => ElectionInv'
<1> SUFFICES ASSUME ElectionInv, [Next]_vars PROVE ElectionInv'
  OBVIOUS
<1>1. IndInv
  BY DEF ElectionInv
<1>2. IndInv'
  BY <1>1, NextIndInv
<1>3. CASE UNCHANGED vars
  <2>1. UNCHANGED <<CurrentTerm, VotedFor, State, votes, disk, net>>
    BY <1>3 DEF vars, electionVars
  <2>2. Quiet
    BY <2>1 DEF Quiet, Advances, Stays
  <2>3. QED
    BY <1>2, <2>2, QuietStep
<1>4. CASE Next
  <2>1. ASSUME NEW s \in Candidates, AttemptElection(s) PROVE ElectionInv'
    BY <1>2, <2>1, ServerAssumption, AttemptElectionVotes
  <2>2. ASSUME NEW s \in Server, Make(s) PROVE ElectionInv'
    BY <1>1, <1>2, <2>2, MakeQuiet, QuietStep
  <2>3. ASSUME NEW s \in Server,
               \/ TickerTimeout(s)
               \/ \E c \in Command : Start(s, c)
               \/ \E p \in Server : BroadcastEntries(s, p) \/ PrepareSnapShot(s, p)
               \/ \E m \in sending[s] : sendSnapShot(s, m) \/ sendSnapShotNotLeader(s, m)
               \/ Snapshot(s)
               \/ ApplierTakeSnapshot(s) \/ ApplierTakeEntries(s)
               \/ ApplierSend(s) \/ ApplierDone(s)
        PROVE  ElectionInv'
    <3>1. Quiet
      BY <1>1, <2>3, LocalQuiet
    <3>2. QED
      BY <1>2, <3>1, QuietStep
  <2>4. ASSUME NEW m \in net, HandleRequest(m) PROVE ElectionInv'
    <3>1. CASE m.type = "RequestVote" /\ RequestVoteGrant(m)
      BY <1>2, <3>1, GrantVotes
    <3>2. CASE m.type = "RequestVote" /\ (RequestVoteStale(m) \/ RequestVoteRefuse(m))
      BY <1>1, <1>2, <3>2, RefuseQuiet, QuietStep
    <3>3. CASE /\ m.type = "AppendEntries"
               /\ AppendEntriesStale(m) \/ AppendEntriesReject(m) \/ AppendEntriesAccept(m)
      BY <1>1, <1>2, <3>3, AppendEntriesQuiet, QuietStep
    <3>4. CASE /\ m.type = "InstallSnapShot"
               /\ InstallSnapShotStale(m) \/ InstallSnapShotOld(m) \/ InstallSnapShot(m)
      BY <1>1, <1>2, <3>4, InstallSnapShotQuiet, QuietStep
    <3>5. QED
      BY <2>4, <3>1, <3>2, <3>3, <3>4 DEF HandleRequest
  <2>5. ASSUME NEW m \in net, HandleReply(m) PROVE ElectionInv'
    <3>1. CASE m.type = "RequestVoteReply" /\ VoteReplyGranted(m)
      BY <1>2, <3>1, CountVotes
    <3>2. CASE \/ /\ m.type = "RequestVoteReply"
                  /\ VoteReplyIgnored(m) \/ VoteReplyHigherTerm(m)
               \/ /\ m.type = "AppendEntriesReply"
                  /\ \/ ReplyOutdated(m) \/ EntriesReplyHigherTerm(m)
                     \/ EntriesReplySuccess(m) \/ EntriesReplyFailure(m)
               \/ /\ m.type = "InstallSnapShotReply"
                  /\ \/ ReplyOutdated(m) \/ SnapShotReplyHigherTerm(m)
                     \/ SnapShotReplySuccess(m)
      <4>1. Quiet
        BY <1>1, <3>2, ReplyQuiet
      <4>2. QED
        BY <1>2, <4>1, QuietStep
    <3>3. QED
      BY <2>5, <3>1, <3>2 DEF HandleReply
  <2>6. QED
    BY <1>4, <2>1, <2>2, <2>3, <2>4, <2>5, ServerAssumption DEF Next
<1>5. QED
  BY <1>3, <1>4

\* A vote that has been answered, or counted, is on the voter's disk until
\* the voter has saved a later term, although InstallSnapShot() may adopt a
\* term without saving it and a step down may keep an old vote.
LEMMA VotesAreSaved == ElectionInv => VoteDurable
<1> SUFFICES ASSUME ElectionInv PROVE VoteDurable
  OBVIOUS
<1>1. ASSUME NEW v \in Server, NEW c \in Server, NEW term \in Nat, HasVote(v, c, term)
      PROVE  VoteSaved(v, c, term)
  BY <1>1 DEF ElectionInv, VotesBind, Bound, VoteSaved
<1>2. ASSUME NEW m \in net, m.type = "RequestVoteReply", m.VoteGrabted
      PROVE  VoteSaved(m.args.to, m.args.from, m.args.Term)
  <2>1. m.args.to \in Server /\ m.args.from \in Server /\ m.args.Term \in Nat
    BY <1>2, MessageTypes DEF ElectionInv, IndInv, RequestVoteReply, RequestVoteArgs
  <2>2. HasVote(m.args.to, m.args.from, m.args.Term)
    BY <1>2 DEF HasVote
  <2>3. QED
    BY <1>1, <2>1, <2>2
<1>3. ASSUME NEW c \in Server, State[c] \in {Candidate, Leader}, NEW v \in votes[c]
      PROVE  VoteSaved(v, c, CurrentTerm[c])
  <2>1. v \in Server /\ CurrentTerm[c] \in Nat
    BY DEF ElectionInv, IndInv, TypeOK
  <2>2. HasVote(v, c, CurrentTerm[c])
    BY <1>3 DEF HasVote
  <2>3. QED
    BY <1>1, <2>1, <2>2
<1>4. QED
  BY <1>2, <1>3 DEF VoteDurable

\* Two leaders of one term would share a voter.
LEMMA LeadersShareVoter ==
  ASSUME Counting
  PROVE  ElectionInv => ElectionSafety
<1> SUFFICES ASSUME ElectionInv, NEW s \in Server, NEW p \in Server,
                    State[s] = Leader, State[p] = Leader,
                    CurrentTerm[s] = CurrentTerm[p]
             PROVE  s = p
  BY DEF ElectionSafety
<1>1. /\ votes[s] \in SUBSET Server /\ votes[p] \in SUBSET Server
      /\ CurrentTerm[s] \in Nat
  BY DEF ElectionInv, IndInv, TypeOK
<1>2. /\ Cardinality(votes[s]) >= Majority /\ Cardinality(votes[p]) >= Majority
  BY DEF ElectionInv, LeadersElected
<1>3. PICK v \in Server : v \in votes[s] /\ v \in votes[p]
  BY <1>1, <1>2, MajoritiesMeet
<1>4. HasVote(v, s, CurrentTerm[s]) /\ HasVote(v, p, CurrentTerm[s])
  BY <1>3 DEF HasVote
<1>5. QED
  BY <1>1, <1>3, <1>4 DEF ElectionInv, VotesUnique

-----------------------------------------------------------------------------
(***************************************************************************)
(* A won election stays won.                                               *)
(***************************************************************************)
LEMMA QuietIsRegular ==
  ASSUME Quiet
  PROVE  Regular
<1>1. ASSUME NEW v \in Server, NEW c \in Server, NEW term \in Nat, HasVote(v, c, term)'
      PROVE  HasVote(v, c, term)
  BY <1>1 DEF HasVote, Quiet, Granted, Stays
<1>2. \A p \in Server : Advances(p) /\ Stands(p)
  BY DEF Quiet, Stays, Stands
<1>3. QED
  BY <1>1, <1>2 DEF Regular, Casts

LEMMA AttemptElectionRegular ==
  ASSUME TypeOK, NEW s \in Server, AttemptElection(s)
  PROVE  Regular
<1>1. CurrentTerm[s] \in Nat
  BY DEF TypeOK
<1>2. ASSUME NEW p \in Server PROVE Stands(p)
  <2>1. CASE p = s
    <3>1. CurrentTerm'[s] = CurrentTerm[s] + 1
      BY DEF AttemptElection, TypeOK
    <3>2. CurrentTerm[s] + 1 > CurrentTerm[s]
      BY NextTerm
    <3>3. QED
      BY <2>1, <3>1, <3>2 DEF Stands
  <2>2. CASE p # s
    <3>1. State'[p] = State[p] /\ CurrentTerm'[p] = CurrentTerm[p]
      BY <2>2 DEF AttemptElection, TypeOK
    <3>2. QED
      BY <3>1 DEF Stands
  <2>3. QED
    BY <2>1, <2>2
<1>3. CurrentTerm[s] + 1 > CurrentTerm[s]
  BY <1>1
<1>4. Casts
  BY <1>3, AttemptElectionCasts, ZenonT(60) DEF Casts
<1>5. QED
  BY <1>2, <1>4, AttemptElectionCasts DEF Regular

LEMMA GrantRegular ==
  ASSUME TypeOK, NEW m \in net, m.type = "RequestVote", RequestVoteGrant(m)
  PROVE  Regular
<1>1. m.to \in Server /\ m.Term \in Nat
  BY MessageTypes DEF RequestVoteArgs
<1>2. CurrentTerm[m.to] \in Nat /\ m.Term >= CurrentTerm[m.to]
  BY <1>1 DEF TypeOK, RequestVoteGrant
<1>3. m.Term > CurrentTerm[m.to] \/ m.Term = CurrentTerm[m.to]
  BY <1>1, <1>2
<1>4. Casts
  BY <1>3, GrantCasts, ZenonT(60) DEF Casts
<1>5. \A p \in Server : Advances(p) /\ Stands(p)
  BY GrantCasts DEF Stays, Stands
<1>6. QED
  BY <1>4, <1>5 DEF Regular

LEMMA CountRegular ==
  ASSUME TypeOK, NEW m \in net, m.type = "RequestVoteReply", VoteReplyGranted(m)
  PROVE  Regular
<1> DEFINE s == m.args.from
<1>1. /\ State[s] = Candidate
      /\ UNCHANGED <<CurrentTerm, VotedFor, disk>>
  BY DEF VoteReplyGranted
<1>2. Casts
  BY CountCasts, ZenonT(60) DEF Casts
<1>3. ASSUME NEW p \in Server PROVE Stands(p)
  <2>1. State[p] = Candidate \/ State'[p] = State[p]
    BY <1>1, CountCasts
  <2>2. QED
    BY <1>1, <2>1 DEF Stands
<1>4. \A p \in Server : Advances(p)
  BY <1>1 DEF Advances
<1>5. QED
  BY <1>2, <1>3, <1>4 DEF Regular

LEMMA NextRegular ==
  ASSUME IndInv, [Next]_vars
  PROVE  Regular
<1>1. TypeOK
  BY DEF IndInv
<1>2. CASE UNCHANGED vars
  <2>1. UNCHANGED <<CurrentTerm, VotedFor, State, votes, disk, net>>
    BY <1>2 DEF vars, electionVars
  <2>2. Quiet
    BY <2>1 DEF Quiet, Advances, Stays
  <2>3. QED
    BY <2>2, QuietIsRegular
<1>3. CASE Next
  <2>1. ASSUME NEW s \in Candidates, AttemptElection(s) PROVE Regular
    BY <1>1, <2>1, ServerAssumption, AttemptElectionRegular
  <2>2. ASSUME NEW s \in Server, Make(s) PROVE Regular
    BY <2>2, MakeQuiet, QuietIsRegular
  <2>3. ASSUME NEW s \in Server,
               \/ TickerTimeout(s)
               \/ \E c \in Command : Start(s, c)
               \/ \E p \in Server : BroadcastEntries(s, p) \/ PrepareSnapShot(s, p)
               \/ \E m \in sending[s] : sendSnapShot(s, m) \/ sendSnapShotNotLeader(s, m)
               \/ Snapshot(s)
               \/ ApplierTakeSnapshot(s) \/ ApplierTakeEntries(s)
               \/ ApplierSend(s) \/ ApplierDone(s)
        PROVE  Regular
    BY <2>3, LocalQuiet, QuietIsRegular
  <2>4. ASSUME NEW m \in net, HandleRequest(m) PROVE Regular
    <3>1. CASE m.type = "RequestVote" /\ RequestVoteGrant(m)
      BY <1>1, <3>1, GrantRegular
    <3>2. CASE m.type = "RequestVote" /\ (RequestVoteStale(m) \/ RequestVoteRefuse(m))
      BY <3>2, RefuseQuiet, QuietIsRegular
    <3>3. CASE /\ m.type = "AppendEntries"
               /\ AppendEntriesStale(m) \/ AppendEntriesReject(m) \/ AppendEntriesAccept(m)
      BY <3>3, AppendEntriesQuiet, QuietIsRegular
    <3>4. CASE /\ m.type = "InstallSnapShot"
               /\ InstallSnapShotStale(m) \/ InstallSnapShotOld(m) \/ InstallSnapShot(m)
      BY <3>4, InstallSnapShotQuiet, QuietIsRegular
    <3>5. QED
      BY <2>4, <3>1, <3>2, <3>3, <3>4 DEF HandleRequest
  <2>5. ASSUME NEW m \in net, HandleReply(m) PROVE Regular
    <3>1. CASE m.type = "RequestVoteReply" /\ VoteReplyGranted(m)
      BY <1>1, <3>1, CountRegular
    <3>2. CASE ~(m.type = "RequestVoteReply" /\ VoteReplyGranted(m))
      <4>1. Quiet
        BY <2>5, <3>2, ReplyQuiet DEF HandleReply
      <4>2. QED
        BY <4>1, QuietIsRegular
    <3>3. QED
      BY <3>1, <3>2
  <2>6. QED
    BY <1>3, <2>1, <2>2, <2>3, <2>4, <2>5, ServerAssumption DEF Next
<1>4. QED
  BY <1>2, <1>3

-----------------------------------------------------------------------------
(***************************************************************************)
(* Steps that name no new entry.                                           *)
(***************************************************************************)
\* Whatever names an entry after the step, something named it before.
OldNames ==
  /\ \A i, t \in Nat : Named(i, t)' => Named(i, t)
  /\ \A i, t, u \in Nat : Follows(i, t, u)' => Follows(i, t, u)

OldLog(s) ==
  /\ \A i, t \in Nat : At(s, i, t)' => Named(i, t)
  /\ \A i, t, u \in Nat : At(s, i, t)' /\ At(s, i - 1, u)' => Follows(i, t, u)

OldCall(m) ==
  /\ \A i, t \in Nat : Names(m, i, t) => Named(i, t)
  /\ \A i, t, u \in Nat : Names(m, i, t) /\ Names(m, i - 1, u) => Follows(i, t, u)

\* Whoever leads has led the same term before, with as long a log.
LeadersStay ==
  \A s \in Server : State'[s] = Leader =>
    /\ State[s] = Leader
    /\ CurrentTerm'[s] = CurrentTerm[s]
    /\ (GetLastLog(s).Index)' = GetLastLog(s).Index

LEMMA AppendedKept ==
  ASSUME TypeOK, TypeOK', Regular, Appended, OldNames
  PROVE  Appended'
<1> SUFFICES ASSUME NEW i \in Nat, NEW t \in Nat, Named(i, t)', i # 0
             PROVE  \E w \in Server : Won(w, t)'
  BY DEF Appended
<1>1. Named(i, t)
  BY DEF OldNames
<1>2. PICK w \in Server : Won(w, t)
  BY <1>1 DEF Appended
<1>3. Won(w, t)'
  BY <1>2, WonKept
<1>4. QED
  BY <1>3

LEMMA OldNamesStep ==
  ASSUME MatchingInv, ElectionInv', Regular, OldNames, LeadersStay
  PROVE  MatchingInv'
<1>1. TypeOK /\ TypeOK'
  BY DEF MatchingInv, ElectionInv, IndInv
<1>2. Chained'
  BY DEF MatchingInv, Chained, OldNames
<1>3. Appended'
  BY <1>1, AppendedKept DEF MatchingInv
<1>4. LeaderIsAhead'
  <2> SUFFICES ASSUME NEW s \in Server, State'[s] = Leader, NEW i \in Nat,
                      Named(i, CurrentTerm[s])'
               PROVE  i <= (GetLastLog(s).Index)'
    BY DEF LeaderIsAhead
  <2>1. PICK t \in Nat : t = CurrentTerm'[s]
    BY <1>1 DEF TypeOK
  <2>2. Named(i, t)'
    BY <2>1
  <2>3. Named(i, t) /\ t = CurrentTerm[s] /\ State[s] = Leader
    BY <2>1, <2>2 DEF OldNames, LeadersStay
  <2>4. i <= GetLastLog(s).Index
    BY <2>3 DEF MatchingInv, LeaderIsAhead
  <2>5. QED
    BY <2>4 DEF LeadersStay
<1>5. QED
  BY <1>2, <1>3, <1>4 DEF MatchingInv

LEMMA OldNamesFrom ==
  ASSUME \A s \in Server : OldLog(s),
         \A m \in net' : m \in net \/ OldCall(m),
         \A s \in Server : \A m \in sending'[s] : m \in sending[s] \/ OldCall(m)
  PROVE  OldNames
<1>1. ASSUME NEW i \in Nat, NEW t \in Nat, Named(i, t)' PROVE Named(i, t)
  <2>1. CASE \E s \in Server : At(s, i, t)'
    BY <2>1 DEF OldLog
  <2>2. CASE \E m \in net' : Names(m, i, t)
    <3>1. PICK m \in net' : Names(m, i, t)
      BY <2>2
    <3>2. QED
      BY <3>1 DEF OldCall, Named
  <2>3. CASE \E s \in Server : \E m \in sending'[s] : Names(m, i, t)
    <3>1. PICK s \in Server : \E m \in sending'[s] : Names(m, i, t)
      BY <2>3
    <3>2. PICK m \in sending'[s] : Names(m, i, t)
      BY <3>1
    <3>3. QED
      BY <3>2 DEF OldCall, Named
  <2>4. QED
    BY <1>1, <2>1, <2>2, <2>3 DEF Named, Names
<1>2. ASSUME NEW i \in Nat, NEW t \in Nat, NEW u \in Nat, Follows(i, t, u)'
      PROVE  Follows(i, t, u)
  <2>1. CASE \E s \in Server : At(s, i, t)' /\ At(s, i - 1, u)'
    BY <2>1 DEF OldLog
  <2>2. CASE \E m \in net' : Names(m, i, t) /\ Names(m, i - 1, u)
    <3>1. PICK m \in net' : Names(m, i, t) /\ Names(m, i - 1, u)
      BY <2>2
    <3>2. QED
      BY <3>1 DEF OldCall, Follows
  <2>3. QED
    BY <1>2, <2>1, <2>2 DEF Follows, Names
<1>3. QED
  BY <1>1, <1>2 DEF OldNames

\* A log that is not touched.
LEMMA SameLog ==
  ASSUME NEW s \in Server, Log'[s] = Log[s], LastIncludedIndex'[s] = LastIncludedIndex[s]
  PROVE  /\ OldLog(s)
         /\ (GetLastLog(s).Index)' = GetLastLog(s).Index
<1>1. \A i, t : At(s, i, t)' <=> At(s, i, t)
  BY DEF At, HasLogEntry, GetLogEntry, Placeholder
<1>2. OldLog(s)
  BY <1>1 DEF OldLog, Named, Follows
<1>3. QED
  BY <1>2 DEF GetLastLog

\* A message that is no replication call names nothing.
LEMMA NoCallNamesNothing ==
  ASSUME NEW m, m.type \notin {"AppendEntries", "InstallSnapShot"}
  PROVE  OldCall(m)
BY DEF OldCall, Names

\* Steps that leave the logs alone and make no replication call.
LEMMA LogsUntouched ==
  ASSUME UNCHANGED <<Log, LastIncludedIndex>>,
         \A m \in net' : m \in net \/ m.type \notin {"AppendEntries", "InstallSnapShot"},
         \A s \in Server : sending'[s] \subseteq sending[s]
  PROVE  OldNames
<1>1. \A s \in Server : OldLog(s)
  BY SameLog
<1>2. \A m \in net' : m \in net \/ OldCall(m)
  BY NoCallNamesNothing
<1>3. QED
  BY <1>1, <1>2, OldNamesFrom

LEMMA QuietLeaders ==
  ASSUME Quiet, UNCHANGED <<Log, LastIncludedIndex>>
  PROVE  LeadersStay
<1>1. \A s \in Server : (GetLastLog(s).Index)' = GetLastLog(s).Index
  BY SameLog
<1>2. QED
  BY <1>1 DEF Quiet, Stays, LeadersStay

-----------------------------------------------------------------------------
(***************************************************************************)
(* The steps that leave the logs alone.                                    *)
(***************************************************************************)
LEMMA UntouchedStep ==
  ASSUME MatchingInv, ElectionInv', Regular, UNCHANGED <<Log, LastIncludedIndex>>,
         \A m \in net' : m \in net \/ m.type \notin {"AppendEntries", "InstallSnapShot"},
         \A s \in Server : sending'[s] \subseteq sending[s],
         \A s \in Server : State'[s] = Leader =>
                             State[s] = Leader /\ CurrentTerm'[s] = CurrentTerm[s]
  PROVE  MatchingInv'
<1>1. OldNames
  BY LogsUntouched
<1>2. LeadersStay
  BY SameLog DEF LeadersStay
<1>3. QED
  BY <1>1, <1>2, OldNamesStep

\* An election that is started, and the answers to RequestVote().
LEMMA ElectionMatching ==
  ASSUME MatchingInv, ElectionInv', Regular,
         \/ \E s \in Server : AttemptElection(s)
         \/ \E m \in net : /\ m.type = "RequestVote"
                           /\ \/ RequestVoteStale(m) \/ RequestVoteRefuse(m)
                              \/ RequestVoteGrant(m)
  PROVE  MatchingInv'
<1>1. TypeOK /\ IndInv
  BY DEF MatchingInv, ElectionInv, IndInv
<1>2. CASE \E s \in Server : AttemptElection(s)
  <2>1. PICK s \in Server : AttemptElection(s)
    BY <1>2
  <2> DEFINE calls == {r \in net' : r.type = "RequestVote"}
  <2>2. net' \subseteq net \cup calls
    BY <2>1, CandidateAsks
  <2>3. \A r \in calls : r.type \notin {"AppendEntries", "InstallSnapShot"}
    OBVIOUS
  <2> HIDE DEF calls
  <2>4. UNCHANGED <<Log, LastIncludedIndex, sending>>
    BY <2>1 DEF AttemptElection, logVars
  <2>5. ASSUME NEW p \in Server, State'[p] = Leader
        PROVE  State[p] = Leader /\ CurrentTerm'[p] = CurrentTerm[p]
    <3>1. p # s
      BY <1>1, <2>1, <2>5 DEF AttemptElection, TypeOK, Candidate, Leader
    <3>2. QED
      BY <1>1, <2>1, <2>5, <3>1 DEF AttemptElection, TypeOK
  <2>6. QED
    BY <2>2, <2>3, <2>4, <2>5, UntouchedStep
<1>3. CASE \E m \in net : /\ m.type = "RequestVote"
                          /\ \/ RequestVoteStale(m) \/ RequestVoteRefuse(m)
                             \/ RequestVoteGrant(m)
  <2>1. PICK m \in net : /\ m.type = "RequestVote"
                         /\ \/ RequestVoteStale(m) \/ RequestVoteRefuse(m)
                            \/ RequestVoteGrant(m)
    BY <1>3
  <2>2. PICK term, granted : Respond(m, VoteReply(m, term, granted))
    BY <2>1 DEF RequestVoteStale, RequestVoteRefuse, RequestVoteGrant
  <2>3. net' \subseteq net \cup {VoteReply(m, term, granted)}
    BY <2>2, RespondAdds
  <2>4. VoteReply(m, term, granted).type = "RequestVoteReply"
    BY DEF VoteReply
  <2>5. UNCHANGED <<Log, LastIncludedIndex, sending>>
    BY <2>1 DEF RequestVoteStale, RequestVoteRefuse, RequestVoteGrant, logVars
  <2>6. \A p \in Server : Stays(p)
    BY <1>1, <2>1, RefuseQuiet, GrantCasts DEF Quiet
  <2>7. QED
    BY <2>3, <2>4, <2>5, <2>6, UntouchedStep DEF Stays
<1>4. QED
  BY <1>2, <1>3

\* Replication calls that change nothing in the log.
LEMMA RefusedCallMatching ==
  ASSUME MatchingInv, ElectionInv', Regular, NEW m \in net,
         \/ /\ m.type = "AppendEntries"
            /\ AppendEntriesStale(m) \/ AppendEntriesReject(m)
         \/ /\ m.type = "InstallSnapShot"
            /\ InstallSnapShotStale(m) \/ InstallSnapShotOld(m)
  PROVE  MatchingInv'
<1>1. IndInv
  BY DEF MatchingInv, ElectionInv
<1>2. Quiet
  BY <1>1, AppendEntriesQuiet, InstallSnapShotQuiet
<1>3. PICK r : Respond(m, r) /\ r.type \in {"AppendEntriesReply", "InstallSnapShotReply"}
  <2>1. \A term, result : EntriesReply(m, term, result).type = "AppendEntriesReply"
    BY DEF EntriesReply
  <2>2. \A term : SnapShotReply(m, term).type = "InstallSnapShotReply"
    BY DEF SnapShotReply
  <2>3. QED
    BY <2>1, <2>2, ZenonT(60) DEF AppendEntriesStale, AppendEntriesReject, InstallSnapShotStale,
                             InstallSnapShotOld
<1>4. net' \subseteq net \cup {r}
  BY <1>3, RespondAdds
<1>5. UNCHANGED <<Log, LastIncludedIndex, sending>>
  BY DEF AppendEntriesStale, AppendEntriesReject, InstallSnapShotStale,
         InstallSnapShotOld, logVars
<1>6. QED
  BY <1>2, <1>3, <1>4, <1>5, UntouchedStep DEF Quiet, Stays

\* The Applier, the ticker, a restart and replies, except a vote that counts.
LEMMA LocalMatching ==
  ASSUME MatchingInv, ElectionInv', Regular,
         Quiet, UNCHANGED <<Log, LastIncludedIndex>>, net' \subseteq net,
         \A s \in Server : sending'[s] \subseteq sending[s]
  PROVE  MatchingInv'
BY UntouchedStep DEF Quiet, Stays

\* The logs are saved whenever they change, so a restart finds them.
LEMMA MakeMatching ==
  ASSUME MatchingInv, ElectionInv', Regular, NEW s \in Server, Make(s)
  PROVE  MatchingInv'
<1>1. IndInv
  BY DEF MatchingInv, ElectionInv
<1>2. Quiet
  BY <1>1, MakeQuiet
<1>3. Log \in [Server -> Log0] /\ LastIncludedIndex \in [Server -> Nat]
  BY <1>1 DEF IndInv, TypeOK
<1>4. disk[s].Log = Log[s] /\ disk[s].LastIncludedIndex = LastIncludedIndex[s]
  BY <1>1 DEF IndInv, LogIndexing
<1>5. UNCHANGED <<Log, LastIncludedIndex>>
  BY <1>3, <1>4 DEF Make, readPersist
<1>6. net' \subseteq net
  BY DEF Make
<1>7. \A p \in Server : sending'[p] \subseteq sending[p]
  <2>1. sending \in [Server -> SUBSET InstallSnapshotArgs]
    BY <1>1 DEF IndInv, TypeOK
  <2>2. QED
    BY <2>1 DEF Make
<1>8. QED
  BY <1>2, <1>5, <1>6, <1>7, LocalMatching

\* A vote that makes a leader: nobody has led the term before, so nothing is
\* named in it.
LEMMA CountMatching ==
  ASSUME Counting,
         MatchingInv, ElectionInv', Regular, NEW m \in net, m.type = "RequestVoteReply",
         VoteReplyGranted(m)
  PROVE  MatchingInv'
<1> DEFINE s == m.args.from
<1>1. TypeOK /\ TypeOK' /\ IndInv'
  BY DEF MatchingInv, ElectionInv, IndInv
<1>2. s \in Server
  BY <1>1, MessageTypes DEF RequestVoteReply, RequestVoteArgs
<1>3. /\ State[s] = Candidate
      /\ UNCHANGED <<CurrentTerm, Log, LastIncludedIndex, sending>>
      /\ net' \subseteq net
  BY ConsumeAdds DEF VoteReplyGranted, logVars
<1>4. OldNames
  BY <1>3, LogsUntouched
<1>5. Chained'
  BY <1>4 DEF MatchingInv, Chained, OldNames
<1>6. Appended'
  BY <1>1, <1>4, AppendedKept DEF MatchingInv
<1>7. LeaderIsAhead'
  <2> SUFFICES ASSUME NEW p \in Server, State'[p] = Leader, NEW i \in Nat,
                      Named(i, CurrentTerm[p])'
               PROVE  i <= (GetLastLog(p).Index)'
    BY DEF LeaderIsAhead
  <2>1. PICK t \in Nat : t = CurrentTerm[p] /\ t = CurrentTerm'[p]
    BY <1>1, <1>3 DEF TypeOK
  <2>2. Named(i, t)'
    BY <2>1
  <2>3. Named(i, t) /\ (GetLastLog(p).Index)' = GetLastLog(p).Index
    BY <1>3, <1>4, <2>2, SameLog DEF OldNames
  <2>4. CASE p # s
    <3>1. State[p] = Leader
      BY <1>1, <2>4, CountCasts
    <3>2. QED
      BY <2>1, <2>3, <3>1 DEF MatchingInv, LeaderIsAhead
  <2>5. CASE p = s
    <3>1. CASE i = 0
      <4>1. GetLastLog(p).Index \in Nat
        BY LastLog DEF MatchingInv, ElectionInv, IndInv
      <4>2. QED
        BY <2>3, <3>1, <4>1
    <3>2. CASE i # 0
      <4>1. PICK w \in Server : Won(w, t)
        BY <2>3, <3>2 DEF MatchingInv, Appended
      <4>2. Won(w, t)'
        BY <1>1, <4>1, WonKept
      <4>3. PICK Q \in SUBSET Server : /\ Cardinality(Q) >= Majority
                                       /\ \A v \in Q : Pledged(v, w, t)'
        BY <4>2 DEF Won, Majority
      <4>4. votes'[p] \in SUBSET Server /\ Cardinality(votes'[p]) >= Majority
        BY <1>1 DEF ElectionInv, LeadersElected, TypeOK, Majority
      <4>5. PICK v \in Server : v \in Q /\ v \in votes'[p]
        BY <4>3, <4>4, MajoritiesMeet
      <4>6. HasVote(v, p, t)'
        BY <2>1, <4>5 DEF HasVote
      <4>7. p = w
        BY <4>3, <4>5, <4>6 DEF Pledged
      <4>8. ~(State[p] = Candidate /\ CurrentTerm[p] = t)
        BY <4>1, <4>7 DEF Won
      <4>9. QED
        BY <1>3, <2>1, <2>5, <4>8
    <3>3. QED
      BY <3>1, <3>2
  <2>6. QED
    BY <2>4, <2>5
<1>8. QED
  BY <1>5, <1>6, <1>7 DEF MatchingInv

-----------------------------------------------------------------------------
(***************************************************************************)
(* The steps that append, copy, merge or cut entries.                      *)
(***************************************************************************)
LEMMA AtType ==
  ASSUME TypeOK, LogIndexing, NEW s \in Server, NEW i \in Nat, HasLogEntry(s, i)
  PROVE  GetLogEntry(s, i).Term \in Nat /\ At(s, i, GetLogEntry(s, i).Term)
BY EntryType DEF At

\* What Start() does to the log of s.
LEMMA StartAppends ==
  ASSUME IndInv, NEW s \in Server, NEW command \in Command, Start(s, command),
         NEW i \in Int, NEW t, At(s, i, t)'
  PROVE  \/ i <= GetLastLog(s).Index /\ At(s, i, t)
         \/ i = GetLastLog(s).Index + 1 /\ t = CurrentTerm[s]
<1> DEFINE last == GetLastLog(s).Index
           e == [Command |-> command, Term |-> CurrentTerm[s], Index |-> last + 1]
           base == LastIncludedIndex[s]
<1>1. /\ Log[s] \in Seq(LogEntry) /\ Len(Log[s]) \in Nat /\ last = base + Len(Log[s]) - 1
      /\ base \in Nat
  BY LastLog DEF IndInv, TypeOK
<1>2. Log'[s] = Append(Log[s], e) /\ LastIncludedIndex'[s] = base
  BY DEF Start, IndInv, TypeOK
<1>3. e.Term = CurrentTerm[s]
  OBVIOUS
<1>4. e \in LogEntry
  <2>1. last + 1 \in Nat
    <3>1. last \in Nat
      BY LastLog DEF IndInv
    <3>2. QED
      BY <3>1
  <2>2. CurrentTerm[s] \in Nat /\ command \in Command \cup {NoCommand}
    BY DEF IndInv, TypeOK
  <2>3. QED
    BY <2>1, <2>2, SMTT(60), Z3T(60) DEF LogEntry
<1> HIDE DEF e
<1>5. /\ Len(Append(Log[s], e)) = Len(Log[s]) + 1
      /\ \A k \in 1 .. Len(Log[s]) : Append(Log[s], e)[k] = Log[s][k]
      /\ Append(Log[s], e)[Len(Log[s]) + 1] = e
  BY <1>1, <1>4, SeqAppend
<1>6. /\ i >= base /\ i - base < Len(Log[s]) + 1
      /\ Log'[s][i - base + 1].Term = t
  BY <1>2, <1>5 DEF At, HasLogEntry, GetLogEntry
<1> HIDE DEF last, base
<1>7. CASE i <= last
  <2>1. i >= base /\ i - base < Len(Log[s]) /\ i - base + 1 \in 1 .. Len(Log[s])
    BY <1>1, <1>6, <1>7
  <2>2. Log[s][i - base + 1].Term = t
    BY <1>2, <1>5, <1>6, <2>1
  <2>3. QED
    BY <1>7, <2>1, <2>2 DEF At, HasLogEntry, GetLogEntry, last, base
<1>8. CASE i > last
  <2>1. i = last + 1 /\ i - base + 1 = Len(Log[s]) + 1
    BY <1>1, <1>6, <1>8
  <2>2. t = CurrentTerm[s]
    BY <1>2, <1>3, <1>5, <1>6, <2>1
  <2>3. QED
    BY <2>1, <2>2 DEF last
<1>9. QED
  BY <1>1, <1>7, <1>8

LEMMA FollowsNames ==
  ASSUME NEW i, NEW t, NEW u, Follows(i, t, u)
  PROVE  Named(i, t)
BY DEF Follows, Named

\* The one step that names a new entry.
LEMMA StartMatching ==
  ASSUME Counting,
         MatchingInv, ElectionInv', Regular, NEW s \in Server, NEW command \in Command,
         Start(s, command)
  PROVE  MatchingInv'
<1> DEFINE last == GetLastLog(s).Index
           term == CurrentTerm[s]
<1>1. TypeOK /\ TypeOK' /\ IndInv /\ IndInv'
  BY DEF MatchingInv, ElectionInv, IndInv
<1>2. last \in Nat /\ term \in Nat
  BY <1>1, LastLog DEF IndInv, TypeOK
<1>3. /\ State[s] = Leader
      /\ UNCHANGED <<CurrentTerm, VotedFor, State, votes, LastIncludedIndex, net, sending>>
      /\ \A p \in Server \ {s} : Log'[p] = Log[p]
      /\ persist(s)
  BY <1>1 DEF Start, electionVars, TypeOK
<1>4. ASSUME NEW p \in Server, NEW i \in Int, NEW t, At(p, i, t)'
      PROVE  At(p, i, t) \/ (p = s /\ i = last + 1 /\ t = term)
  <2>1. CASE p = s
    BY <1>1, <1>4, <2>1, StartAppends
  <2>2. CASE p # s
    BY <1>3, <1>4, <2>2 DEF At, HasLogEntry, GetLogEntry, Placeholder
  <2>3. QED
    BY <2>1, <2>2
<1>5. ASSUME NEW i \in Nat, NEW t \in Nat, Named(i, t)'
      PROVE  Named(i, t) \/ (i = last + 1 /\ t = term)
  <2>1. CASE \E p \in Server : At(p, i, t)'
    BY <1>4, <2>1 DEF Named
  <2>2. CASE ~ \E p \in Server : At(p, i, t)'
    BY <1>3, <1>5, <2>2 DEF Named, Names
  <2>3. QED
    BY <2>1, <2>2
<1>6. ~Named(last + 1, term)
  <2>1. last + 1 \in Nat /\ ~(last + 1 <= last)
    BY <1>2
  <2>2. QED
    BY <1>3, <2>1 DEF MatchingInv, LeaderIsAhead
<1>7. ASSUME NEW i \in Nat, NEW t \in Nat, NEW u \in Nat, Follows(i, t, u)'
      PROVE  Follows(i, t, u) \/ (i = last + 1 /\ t = term /\ At(s, last, u))
  <2>1. CASE \E p \in Server : At(p, i, t)' /\ At(p, i - 1, u)'
    <3>1. PICK p \in Server : At(p, i, t)' /\ At(p, i - 1, u)'
      BY <2>1
    <3>2. CASE At(p, i, t)
      <4>1. CASE At(p, i - 1, u)
        BY <3>2, <4>1 DEF Follows
      <4>2. CASE p = s /\ i - 1 = last + 1
        <5>1. i > last + 1
          BY <1>2, <4>2
        <5>2. i <= last
          <6>1. LastIncludedIndex[s] \in Nat /\ Len(Log[s]) \in Nat
                /\ last = LastIncludedIndex[s] + Len(Log[s]) - 1
            BY <1>1, LastLog DEF TypeOK, IndInv
          <6>2. i - LastIncludedIndex[s] < Len(Log[s])
            BY <3>2, <4>2 DEF At, HasLogEntry
          <6> HIDE DEF last
          <6>3. QED
            BY <6>1, <6>2
        <5>3. QED
          BY <1>2, <5>1, <5>2
      <4>3. QED
        BY <1>4, <3>1, <4>1, <4>2
    <3>3. CASE p = s /\ i = last + 1 /\ t = term
      <4>1. i - 1 = last /\ i - 1 # last + 1 /\ i - 1 \in Int
        BY <1>2, <3>3
      <4>2. At(s, i - 1, u)
        BY <1>4, <3>1, <3>3, <4>1
      <4>3. QED
        BY <3>3, <4>1, <4>2
    <3>4. QED
      BY <1>4, <3>1, <3>2, <3>3
  <2>2. CASE ~ \E p \in Server : At(p, i, t)' /\ At(p, i - 1, u)'
    BY <1>3, <1>7, <2>2 DEF Follows, Names
  <2>3. QED
    BY <2>1, <2>2
<1>8. Chained'
  <2> SUFFICES ASSUME NEW i \in Nat, NEW t \in Nat, NEW u \in Nat, NEW v \in Nat,
                      Follows(i, t, u)', Follows(i, t, v)'
               PROVE  u = v
    BY DEF Chained
  <2>1. CASE i = last + 1 /\ t = term
    <3>1. ~Follows(i, t, u) /\ ~Follows(i, t, v)
      BY <1>6, <2>1, FollowsNames
    <3>2. At(s, last, u) /\ At(s, last, v)
      BY <1>7, <3>1
    <3>3. QED
      BY <3>2 DEF At
  <2>2. CASE ~(i = last + 1 /\ t = term)
    <3>1. Follows(i, t, u) /\ Follows(i, t, v)
      BY <1>7, <2>2
    <3>2. QED
      BY <3>1 DEF MatchingInv, Chained
  <2>3. QED
    BY <2>1, <2>2
<1>9. Won(s, term)'
  <2>1. disk'[s].CurrentTerm = term
    BY <1>1, <1>3 DEF persist, Save, EncodeRaftState, TypeOK
  <2>2. votes[s] \in SUBSET Server /\ Cardinality(votes[s]) >= Majority
    BY <1>1, <1>3 DEF MatchingInv, ElectionInv, LeadersElected, TypeOK
  <2>3. ASSUME NEW v \in votes[s] PROVE Pledged(v, s, term)
    <3>1. HasVote(v, s, term) /\ v \in Server
      BY <1>3, <2>2 DEF HasVote
    <3>2. QED
      BY <1>2, <3>1 DEF MatchingInv, ElectionInv, VotesBind, VotesUnique, Pledged
  <2>4. \A v \in votes[s] : Pledged(v, s, term)'
    <3>1. PICK t \in Nat : t = term /\ t = term'
      BY <1>2, <1>3
    <3>2. \A v \in votes[s] : Pledged(v, s, t)'
      BY <1>1, <2>2, <2>3, <3>1, PledgeKept
    <3>3. QED
      BY <3>1, <3>2
  <2>5. \E Q \in SUBSET Server : /\ Cardinality(Q) >= Majority'
                                 /\ \A v \in Q : Pledged(v, s, term)'
    BY <2>2, <2>4 DEF Majority
  <2>6. State'[s] # Candidate /\ CurrentTerm'[s] = term
    BY <1>3 DEF Leader, Candidate
  <2>7. CurrentTerm'[s] >= term /\ disk'[s].CurrentTerm >= term
    BY <1>2, <2>1, <2>6
  <2>8. QED
    BY <2>5, <2>6, <2>7 DEF Won
<1>10. Appended'
  <2> SUFFICES ASSUME NEW i \in Nat, NEW t \in Nat, Named(i, t)', i # 0
               PROVE  \E w \in Server : Won(w, t)'
    BY DEF Appended
  <2>1. CASE t = term
    <3>1. t = term'
      BY <1>3, <2>1
    <3>2. Won(s, t)'
      BY <1>9, <3>1
    <3>3. QED
      BY <3>2
  <2>2. CASE Named(i, t)
    <3>1. PICK w \in Server : Won(w, t)
      BY <2>2 DEF MatchingInv, Appended
    <3>2. Won(w, t)'
      BY <1>1, <3>1, WonKept
    <3>3. QED
      BY <3>2
  <2>3. QED
    BY <1>5, <2>1, <2>2
<1>11. LeaderIsAhead'
  <2> SUFFICES ASSUME NEW p \in Server, State'[p] = Leader, NEW i \in Nat,
                      Named(i, CurrentTerm[p])'
               PROVE  i <= (GetLastLog(p).Index)'
    BY DEF LeaderIsAhead
  <2>1. PICK t \in Nat : t = CurrentTerm[p] /\ t = CurrentTerm'[p]
    BY <1>1, <1>3 DEF TypeOK
  <2>2. State[p] = Leader
    BY <1>3
  <2>3. Named(i, t) \/ (i = last + 1 /\ t = term)
    <3>1. Named(i, t)'
      BY <2>1
    <3>2. QED
      BY <1>5, <3>1
  <2>4. Named(i, t) => i <= GetLastLog(p).Index
    BY <2>1, <2>2 DEF MatchingInv, LeaderIsAhead
  <2>5. CASE p = s
    <3>1. (GetLastLog(s).Index)' = last + 1
      <4>1. Len(Log'[s]) = Len(Log[s]) + 1
        <5>1. Log'[s] = Append(Log[s], [Command |-> command, Term |-> term, Index |-> last + 1])
          BY <1>1 DEF Start, TypeOK
        <5>2. Log[s] \in Seq(LogEntry)
          BY <1>1, LastLog DEF IndInv
        <5>3. QED
          BY <5>1, <5>2
      <4>2. /\ last = LastIncludedIndex[s] + Len(Log[s]) - 1
            /\ LastIncludedIndex[s] \in Nat /\ Len(Log[s]) \in Nat
        BY <1>1, LastLog DEF IndInv, TypeOK
      <4>3. (GetLastLog(s).Index)' = LastIncludedIndex'[s] + Len(Log'[s]) - 1
        BY <1>1, LastLogPrime
      <4> HIDE DEF last
      <4>4. QED
        BY <1>3, <4>1, <4>2, <4>3
    <3>2. i <= last \/ i = last + 1
      BY <2>3, <2>4, <2>5
    <3>3. i <= last + 1
      BY <1>2, <3>2
    <3>4. QED
      BY <2>5, <3>1, <3>3
  <2>6. CASE p # s
    <3>1. t # term
      BY <1>3, <2>1, <2>2, <2>6, LeadersShareVoter DEF MatchingInv, ElectionSafety
    <3>2. i <= GetLastLog(p).Index
      BY <2>3, <2>4, <3>1
    <3>3. (GetLastLog(p).Index)' = GetLastLog(p).Index
      BY <1>3, <2>6 DEF GetLastLog
    <3>4. QED
      BY <3>2, <3>3
  <2>7. QED
    BY <2>5, <2>6
<1>12. QED
  BY <1>8, <1>10, <1>11 DEF MatchingInv

\* A replication call copies the log of the leader.
LEMMA BroadcastMatching ==
  ASSUME MatchingInv, ElectionInv', Regular, NEW s \in Server, NEW p \in Server,
         BroadcastEntries(s, p)
  PROVE  MatchingInv'
<1> DEFINE next == NextIndex[s][p]
           last == GetLastLog(s).Index
           base == LastIncludedIndex[s]
           entries == GetLogSlices(s, next, last + 1)
           call == [type |-> "AppendEntries", from |-> s, to |-> p, boot |-> boot[s],
                    Term |-> CurrentTerm[s], PrevLogIndex |-> next - 1,
                    PrevLogTerm |-> GetLogEntry(s, next - 1).Term,
                    Entries |-> entries, LeaderCommit |-> CommitIndex[s]]
<1>1. IndInv /\ TypeOK /\ LogIndexing
  BY DEF MatchingInv, ElectionInv, IndInv
<1>2. /\ next \in Nat /\ last \in Nat /\ base \in Nat /\ Len(Log[s]) \in Nat
      /\ last = base + Len(Log[s]) - 1
  BY <1>1, LastLog DEF TypeOK
<1>3. next > base /\ HasLogSlices(s, next, last + 1) /\ next <= last + 1
  BY DEF BroadcastEntries
<1>4. /\ Len(entries) = last + 1 - next
      /\ \A k \in 1 .. last + 1 - next : entries[k] = GetLogEntry(s, next + k - 1)
  <2> HIDE DEF next, last, base
  <2>1. PICK end \in Nat : end = last + 1
    BY <1>2
  <2>2. next > LastIncludedIndex[s] /\ HasLogSlices(s, next, end) /\ next <= end
    BY <1>3, <2>1 DEF base
  <2>3. /\ Len(GetLogSlices(s, next, end)) = end - next
        /\ \A k \in 1 .. end - next :
             GetLogSlices(s, next, end)[k] = GetLogEntry(s, next + k - 1)
    BY <1>1, <1>2, <2>2, LogSlices
  <2>4. entries = GetLogSlices(s, next, end)
    BY <2>1
  <2> HIDE DEF entries
  <2>5. QED
    BY <1>2, <2>1, <2>3, <2>4
<1>5. net' \subseteq net \cup {call}
  BY SendAdds DEF BroadcastEntries
<1>6. /\ call.type = "AppendEntries" /\ call.PrevLogIndex = next - 1
      /\ call.PrevLogTerm = GetLogEntry(s, next - 1).Term /\ call.Entries = entries
  OBVIOUS
<1> HIDE DEF next, last, entries, call
<1>7. ASSUME NEW i \in Int, NEW t, Names(call, i, t) PROVE At(s, i, t)
  <2>1. CASE i = next - 1 /\ t = GetLogEntry(s, next - 1).Term
    <3>1. HasLogEntry(s, i)
      BY <1>2, <1>3, <2>1 DEF HasLogEntry
    <3>2. QED
      BY <2>1, <3>1 DEF At
  <2>2. CASE \E k \in 1 .. Len(entries) : i = next - 1 + k /\ t = entries[k].Term
    <3>1. PICK k \in 1 .. last + 1 - next : i = next - 1 + k /\ t = entries[k].Term
      BY <1>4, <2>2
    <3>2. i = next + k - 1 /\ HasLogEntry(s, i)
      BY <1>2, <1>3, <3>1 DEF HasLogEntry
    <3>3. QED
      BY <1>4, <3>1, <3>2 DEF At
  <2>3. QED
    BY <1>6, <1>7, <2>1, <2>2 DEF Names
<1>8. OldCall(call)
  <2>1. \A i, t \in Nat : Names(call, i, t) => Named(i, t)
    BY <1>7 DEF Named
  <2>2. \A i, t, u \in Nat : Names(call, i, t) /\ Names(call, i - 1, u) => Follows(i, t, u)
    <3> TAKE i, t, u \in Nat
    <3>1. i - 1 \in Int
      OBVIOUS
    <3>2. QED
      BY <1>7, <3>1 DEF Follows
  <2>3. QED
    BY <2>1, <2>2 DEF OldCall
<1>9. UNCHANGED <<Log, LastIncludedIndex, sending>>
  BY DEF BroadcastEntries, logVars
<1>10. OldNames
  BY <1>5, <1>8, <1>9, SameLog, OldNamesFrom
<1>11. LeadersStay
  BY <1>1, <1>9, LocalQuiet, QuietLeaders
<1>12. QED
  BY <1>10, <1>11, OldNamesStep

\* A snapshot names one entry.
LEMMA SnapShotCall ==
  ASSUME NEW m, m.type = "InstallSnapShot", m.LastIncludedIndex \in Nat,
         Named(m.LastIncludedIndex, m.LastIncludedTerm)
  PROVE  OldCall(m)
<1>1. \A i, t : Names(m, i, t) => i = m.LastIncludedIndex /\ t = m.LastIncludedTerm
  BY DEF Names
<1>2. \A i \in Nat : ~(i = m.LastIncludedIndex /\ i - 1 = m.LastIncludedIndex)
  OBVIOUS
<1>3. QED
  BY <1>1, <1>2 DEF OldCall

LEMMA PrepareMatching ==
  ASSUME MatchingInv, ElectionInv', Regular, NEW s \in Server, NEW p \in Server,
         PrepareSnapShot(s, p)
  PROVE  MatchingInv'
<1> DEFINE base == LastIncludedIndex[s]
           call == [type |-> "InstallSnapShot", from |-> s, to |-> p, boot |-> boot[s],
                    Term |-> CurrentTerm[s], LastIncludedIndex |-> base,
                    LastIncludedTerm |-> LastIncludedTerm[s], Data |-> disk[s].snapshot]
<1>1. IndInv /\ TypeOK /\ LogIndexing
  BY DEF MatchingInv, ElectionInv, IndInv
<1>2. base \in Nat /\ Len(Log[s]) \in Nat /\ Len(Log[s]) >= 1
  BY <1>1, LastLog DEF TypeOK
<1>3. At(s, base, LastIncludedTerm[s])
  <2>1. HasLogEntry(s, base) /\ base - base + 1 = 1
    BY <1>2 DEF HasLogEntry
  <2>2. GetLogEntry(s, base) = Log[s][1]
    BY <2>1 DEF GetLogEntry
  <2>3. QED
    BY <1>1, <2>1, <2>2 DEF At, LogIndexing
<1>4. sending' = [sending EXCEPT ![s] = @ \cup {call}]
  BY DEF PrepareSnapShot
<1>5. /\ call.type = "InstallSnapShot" /\ call.LastIncludedIndex = base
      /\ call.LastIncludedTerm = LastIncludedTerm[s]
  OBVIOUS
<1> HIDE DEF call
<1>6. OldCall(call)
  BY <1>2, <1>3, <1>5, SnapShotCall DEF Named
<1>7. \A r \in Server : sending'[r] \subseteq sending[r] \cup {call}
  <2>1. sending \in [Server -> SUBSET InstallSnapshotArgs]
    BY <1>1 DEF TypeOK
  <2>2. QED
    BY <1>4, <2>1
<1>8. UNCHANGED <<Log, LastIncludedIndex, net>>
  BY DEF PrepareSnapShot, logVars
<1>9. OldNames
  <2>1. \A r \in Server : OldLog(r)
    BY <1>8, SameLog
  <2>2. \A m \in net' : m \in net \/ OldCall(m)
    BY <1>8
  <2>3. \A r \in Server : \A m \in sending'[r] : m \in sending[r] \/ OldCall(m)
    BY <1>6, <1>7
  <2>4. QED
    BY <2>1, <2>2, <2>3, OldNamesFrom
<1>10. LeadersStay
  BY <1>1, <1>8, LocalQuiet, QuietLeaders
<1>11. QED
  BY <1>9, <1>10, OldNamesStep

LEMMA sendSnapShotMatching ==
  ASSUME MatchingInv, ElectionInv', Regular, NEW s \in Server, NEW m \in sending[s],
         sendSnapShot(s, m) \/ sendSnapShotNotLeader(s, m)
  PROVE  MatchingInv'
<1>1. IndInv /\ TypeOK
  BY DEF MatchingInv, ElectionInv, IndInv
<1>2. sending \in [Server -> SUBSET InstallSnapshotArgs] /\ m \in InstallSnapshotArgs
  BY <1>1 DEF TypeOK
<1>3. OldCall(m)
  <2>1. m.type = "InstallSnapShot" /\ m.LastIncludedIndex \in Nat
    BY <1>2 DEF InstallSnapshotArgs
  <2>2. Names(m, m.LastIncludedIndex, m.LastIncludedTerm)
    BY <2>1 DEF Names
  <2>3. Named(m.LastIncludedIndex, m.LastIncludedTerm)
    BY <2>2 DEF Named
  <2>4. QED
    BY <2>1, <2>3, SnapShotCall
<1>4. \A r \in Server : sending'[r] \subseteq sending[r]
  BY <1>2 DEF sendSnapShot, sendSnapShotNotLeader
<1>5. UNCHANGED <<Log, LastIncludedIndex>>
  BY DEF sendSnapShot, sendSnapShotNotLeader, logVars
<1>6. net' \subseteq net \cup {m}
  BY SendAdds DEF sendSnapShot, sendSnapShotNotLeader
<1>7. OldNames
  <2>1. \A r \in Server : OldLog(r)
    BY <1>5, SameLog
  <2>2. \A r \in net' : r \in net \/ OldCall(r)
    BY <1>3, <1>6
  <2>3. QED
    BY <1>4, <2>1, <2>2, OldNamesFrom
<1>8. LeadersStay
  BY <1>1, <1>5, LocalQuiet, QuietLeaders
<1>9. QED
  BY <1>7, <1>8, OldNamesStep

\* A step that replaces the log of s, by entries that were named before, and
\* makes no replication call.
LEMMA ReplacedLogStep ==
  ASSUME MatchingInv, ElectionInv', Regular, Quiet, NEW s \in Server, OldLog(s),
         State'[s] # Leader \/ (GetLastLog(s).Index)' = GetLastLog(s).Index,
         \A p \in Server \ {s} : Log'[p] = Log[p] /\ LastIncludedIndex'[p] = LastIncludedIndex[p],
         \A m \in net' : m \in net \/ m.type \notin {"AppendEntries", "InstallSnapShot"},
         UNCHANGED sending
  PROVE  MatchingInv'
<1>1. \A p \in Server \ {s} : OldLog(p) /\ (GetLastLog(p).Index)' = GetLastLog(p).Index
  BY SameLog
<1>2. OldNames
  <2>1. \A p \in Server : OldLog(p)
    BY <1>1
  <2>2. \A m \in net' : m \in net \/ OldCall(m)
    BY NoCallNamesNothing
  <2>3. QED
    BY <2>1, <2>2, OldNamesFrom
<1>3. LeadersStay
  BY <1>1 DEF LeadersStay, Quiet, Stays
<1>4. QED
  BY <1>2, <1>3, OldNamesStep

\* A snapshot of the service cuts the log and leaves the end of it.
LEMMA SnapshotMatching ==
  ASSUME MatchingInv, ElectionInv', Regular, NEW s \in Server, Snapshot(s)
  PROVE  MatchingInv'
<1> DEFINE index == Len(sm[s])
           base == LastIncludedIndex[s]
           a == index - base + 1
           log == SubSeq(Log[s], a, Len(Log[s]))
<1>1. IndInv /\ TypeOK /\ IndInv'
  BY DEF MatchingInv, ElectionInv, IndInv
<1>2. /\ Log[s] \in Seq(LogEntry) /\ Len(Log[s]) \in Nat /\ base \in Nat
      /\ GetLastLog(s).Index = base + Len(Log[s]) - 1
  BY <1>1, LastLog DEF IndInv, TypeOK
<1>3. index \in Nat
  BY <1>1, SeqElements DEF TypeOK
<1>4. /\ index > base /\ index - base < Len(Log[s])
      /\ Log'[s] = log /\ LastIncludedIndex'[s] = index
      /\ \A p \in Server \ {s} : Log'[p] = Log[p] /\ LastIncludedIndex'[p] = LastIncludedIndex[p]
      /\ UNCHANGED <<net, sending>>
  BY <1>1 DEF Snapshot, HasLogEntry, TypeOK
<1> HIDE DEF index, base
<1>5. a \in 1 .. Len(Log[s]) /\ index = base + a - 1
  BY <1>2, <1>3, <1>4
<1> HIDE DEF a
<1>6. /\ Len(log) = Len(Log[s]) - a + 1
      /\ \A i \in 1 .. Len(Log[s]) - a + 1 : log[i] = Log[s][a + i - 1]
  <2>1. \A i \in a .. Len(Log[s]) : Log[s][i] \in LogEntry
    BY <1>2, <1>5, SeqElements
  <2>2. /\ Len(log) = IF a <= Len(Log[s]) THEN Len(Log[s]) - a + 1 ELSE 0
        /\ \A i \in 1 .. Len(Log[s]) - a + 1 : log[i] = Log[s][a + i - 1]
    BY <1>2, <1>5, <2>1, SeqPart
  <2> HIDE DEF log
  <2>3. QED
    BY <1>2, <1>5, <2>2
<1> HIDE DEF log
<1>7. ASSUME NEW i \in Int, NEW t, At(s, i, t)' PROVE At(s, i, t)
  <2>1. i >= index /\ i - index < Len(log) /\ log[i - index + 1].Term = t
    BY <1>4, <1>7 DEF At, HasLogEntry, GetLogEntry
  <2>2. /\ i >= base /\ i - base < Len(Log[s])
        /\ i - index + 1 \in 1 .. Len(Log[s]) - a + 1
        /\ a + (i - index + 1) - 1 = i - base + 1
    BY <1>2, <1>3, <1>5, <1>6, <2>1
  <2>3. log[i - index + 1] = Log[s][i - base + 1]
    BY <1>6, <2>2
  <2>4. QED
    BY <2>1, <2>2, <2>3 DEF At, HasLogEntry, GetLogEntry, base
<1>8. OldLog(s)
  <2>1. \A i, t \in Nat : At(s, i, t)' => Named(i, t)
    BY <1>7 DEF Named
  <2>2. \A i, t, u \in Nat : At(s, i, t)' /\ At(s, i - 1, u)' => Follows(i, t, u)
    <3> TAKE i, t, u \in Nat
    <3>1. i - 1 \in Int
      OBVIOUS
    <3>2. QED
      BY <1>7, <3>1 DEF Follows
  <2>3. QED
    BY <2>1, <2>2 DEF OldLog
<1>9. (GetLastLog(s).Index)' = GetLastLog(s).Index
  <2>1. (GetLastLog(s).Index)' = index + Len(log) - 1
    BY <1>1, <1>4, LastLogPrime
  <2>2. index + Len(log) - 1 = GetLastLog(s).Index
    <3>1. PICK n \in Nat : n = Len(Log[s])
      BY <1>2
    <3>2. Len(log) = n - a + 1 /\ a \in Int /\ GetLastLog(s).Index = base + n - 1
      BY <1>2, <1>5, <1>6, <3>1
    <3>3. QED
      BY <1>2, <1>5, <3>2
  <2>3. QED
    BY <2>1, <2>2
<1>10. Quiet
  BY <1>1, LocalQuiet
<1>11. QED
  BY <1>4, <1>8, <1>9, <1>10, ReplacedLogStep

\* A snapshot of the leader takes the place of the whole log.
LEMMA InstallMatching ==
  ASSUME MatchingInv, ElectionInv', Regular, NEW m \in net, m.type = "InstallSnapShot",
         InstallSnapShot(m)
  PROVE  MatchingInv'
<1> DEFINE s == m.to
           e == Placeholder(m.LastIncludedTerm, m.LastIncludedIndex)
<1>1. IndInv /\ TypeOK
  BY DEF MatchingInv, ElectionInv, IndInv
<1>2. s \in Server /\ m.LastIncludedIndex \in Nat /\ m.LastIncludedTerm \in Nat
  BY <1>1, MessageTypes DEF InstallSnapshotArgs
<1>3. /\ Log'[s] = <<e>> /\ LastIncludedIndex'[s] = m.LastIncludedIndex
      /\ \A p \in Server \ {s} : Log'[p] = Log[p] /\ LastIncludedIndex'[p] = LastIncludedIndex[p]
      /\ State'[s] = Follower
      /\ UNCHANGED sending
  BY <1>1, <1>2 DEF InstallSnapShot, FollowTerm, TypeOK
<1>4. e.Term = m.LastIncludedTerm
  BY DEF Placeholder
<1> HIDE DEF e
<1>5. ASSUME NEW i \in Int, NEW t, At(s, i, t)'
      PROVE  i = m.LastIncludedIndex /\ t = m.LastIncludedTerm
  <2>1. i >= m.LastIncludedIndex /\ i - m.LastIncludedIndex < Len(<<e>>)
    BY <1>3, <1>5 DEF At, HasLogEntry
  <2>2. Len(<<e>>) = 1
    OBVIOUS
  <2>3. i = m.LastIncludedIndex /\ i - m.LastIncludedIndex + 1 = 1
    BY <1>2, <2>1, <2>2
  <2>4. t = <<e>>[1].Term
    BY <1>3, <1>5, <2>3 DEF At, GetLogEntry
  <2>5. QED
    BY <1>4, <2>3, <2>4
<1>6. OldLog(s)
  <2>1. Names(m, m.LastIncludedIndex, m.LastIncludedTerm)
    BY DEF Names
  <2>2. Named(m.LastIncludedIndex, m.LastIncludedTerm)
    BY <2>1 DEF Named
  <2>3. \A i, t \in Nat : At(s, i, t)' => Named(i, t)
    BY <1>5, <2>2
  <2>4. ASSUME NEW i \in Nat, NEW t \in Nat, NEW u \in Nat, At(s, i, t)', At(s, i - 1, u)'
        PROVE  FALSE
    <3>1. i - 1 \in Int /\ i \in Int /\ i - 1 # i
      OBVIOUS
    <3>2. i = m.LastIncludedIndex /\ i - 1 = m.LastIncludedIndex
      BY <1>5, <2>4, <3>1
    <3>3. QED
      BY <3>1, <3>2
  <2>5. QED
    BY <2>3, <2>4 DEF OldLog
<1>7. net' \subseteq net \cup {SnapShotReply(m, CurrentTerm[s])}
  BY RespondAdds DEF InstallSnapShot
<1>8. SnapShotReply(m, CurrentTerm[s]).type = "InstallSnapShotReply"
  BY DEF SnapShotReply
<1>9. Quiet
  BY <1>1, InstallSnapShotQuiet
<1>10. State'[s] # Leader
  BY <1>3 DEF Follower, Leader
<1>11. QED
  BY <1>2, <1>3, <1>6, <1>7, <1>8, <1>9, <1>10, ReplacedLogStep

\* Below some index n the merged log is the old one, from there on it is the
\* call's, and at n - 1 the two agree.
LEMMA MergeMeets ==
  ASSUME Counting,
         IndInv, NEW s \in Server, NEW m \in net, m \in AppendEntriesArgs,
         checkLogConsistency(s, m).Success, NewOrConflicting(s, m.Entries) # {}
  PROVE  LET log == MergedLog(s, m.Entries)
             base == LastIncludedIndex[s]
         IN  \E n \in Nat :
               /\ \A i \in Int : i >= base /\ i - base < Len(log) /\ i < n =>
                                   At(s, i, log[i - base + 1].Term)
               /\ \A i \in Int : i >= base /\ i - base < Len(log) /\ i >= n =>
                                   Names(m, i, log[i - base + 1].Term)
               /\ \A u : At(s, n - 1, u) => Names(m, n - 1, u)
<1> DEFINE log == MergedLog(s, m.Entries)
           base == LastIncludedIndex[s]
           prev == m.PrevLogIndex
           entries == m.Entries
<1>1. /\ HasLogEntry(s, prev) /\ GetLogEntry(s, prev).Term = m.PrevLogTerm
  BY Consistent
<1>2. /\ prev \in Nat /\ entries \in Seq(LogEntry) /\ Len(entries) \in Nat
      /\ m.type = "AppendEntries"
  BY SeqElements DEF AppendEntriesArgs
<1>3. base \in Nat /\ Len(Log[s]) \in Nat
  BY LastLog DEF IndInv, TypeOK
<1>4. \A i \in 1 .. Len(entries) : entries[i].Index = prev + i
  BY <1>2 DEF IndInv, EntriesIndexed
<1>5. PICK k \in 1 .. Len(entries), keep \in 1 .. Len(Log[s]) :
        /\ prev + k = base + keep
        /\ \A j \in 1 .. k - 1 : j \notin NewOrConflicting(s, entries)
        /\ log \in Seq(LogEntry)
        /\ Len(log) = keep + (Len(entries) - k + 1)
        /\ \A i \in 1 .. keep : log[i] = Log[s][i]
        /\ \A j \in k .. Len(entries) : log[keep + (j - k + 1)] = entries[j]
  BY <1>1, MergedLogShape, ZenonT(60)
<1> DEFINE len == Len(entries)
<1> HIDE DEF log, base, prev, entries
<1>6. /\ len \in Nat /\ k \in 1 .. len /\ keep \in Nat /\ prev + k = base + keep
      /\ Len(log) = keep + (len - k + 1) /\ prev \in Nat /\ base \in Nat /\ k \in Nat
  BY <1>2, <1>3, <1>5
<1> HIDE DEF len
<1>7. PICK n \in Nat : n = prev + k
  BY <1>6
<1>8. ASSUME NEW i \in Int, i >= base, i - base < Len(log), i < n
      PROVE  At(s, i, log[i - base + 1].Term)
  <2>1. i - base + 1 \in 1 .. keep /\ i - base < Len(Log[s])
    BY <1>2, <1>3, <1>5, <1>7, <1>8
  <2>2. log[i - base + 1] = Log[s][i - base + 1]
    BY <1>5, <2>1
  <2>3. QED
    BY <1>8, <2>1, <2>2 DEF At, HasLogEntry, GetLogEntry, base
<1>9. ASSUME NEW i \in Int, i >= base, i - base < Len(log), i >= n
      PROVE  Names(m, i, log[i - base + 1].Term)
  <2>1. PICK j \in Int : j = i - prev
    BY <1>2
  <2>2. /\ j \in k .. Len(entries) /\ j \in 1 .. Len(entries)
        /\ keep + (j - k + 1) = i - base + 1 /\ i = prev + j
    <3>1. /\ j \in k .. len /\ j \in 1 .. len
          /\ keep + (j - k + 1) = i - base + 1 /\ i = prev + j
      BY <1>7, <1>9, <1>6, <2>1
    <3>2. QED
      BY <3>1 DEF len
  <2>3. log[i - base + 1] = entries[j]
    BY <1>5, <2>2
  <2>4. QED
    BY <1>2, <2>2, <2>3 DEF Names, prev, entries
<1>10. ASSUME NEW u, At(s, n - 1, u) PROVE Names(m, n - 1, u)
  <2>1. u = GetLogEntry(s, n - 1).Term
    BY <1>10 DEF At
  <2>2. CASE k = 1
    <3>1. n - 1 = prev
      BY <1>2, <1>7, <2>2
    <3>2. QED
      BY <1>1, <1>2, <2>1, <3>1 DEF Names, prev
  <2>3. CASE k # 1
    <3>1. PICK j \in Int : j = k - 1
      BY <1>5
    <3>2. j \in 1 .. k - 1 /\ j \in 1 .. Len(entries) /\ n - 1 = prev + j
      <4>1. j \in 1 .. k - 1 /\ j \in 1 .. len /\ n - 1 = prev + j
        BY <1>7, <1>6, <2>3, <3>1
      <4>2. QED
        BY <4>1 DEF len
    <3>3. j \notin NewOrConflicting(s, entries)
      BY <1>5, <3>2
    <3>4. GetLogEntry(s, entries[j].Index).Term = entries[j].Term
      BY <3>2, <3>3 DEF NewOrConflicting
    <3>5. u = entries[j].Term
      BY <1>4, <2>1, <3>2, <3>4
    <3>6. QED
      BY <1>2, <3>2, <3>5 DEF Names, prev, entries
  <2>4. QED
    BY <2>2, <2>3
<1>11. QED
  BY <1>8, <1>9, <1>10 DEF log, base

\* The entries of a leader are merged into the log.
LEMMA AcceptMatching ==
  ASSUME Counting,
         MatchingInv, ElectionInv', Regular, NEW m \in net, m.type = "AppendEntries",
         AppendEntriesAccept(m)
  PROVE  MatchingInv'
<1> DEFINE s == m.to
           base == LastIncludedIndex[s]
           log == MergedLog(s, m.Entries)
           r == EntriesReply(m, m.Term, Accepted)
<1>1. IndInv /\ TypeOK
  BY DEF MatchingInv, ElectionInv, IndInv
<1>2. m \in AppendEntriesArgs /\ s \in Server
  BY <1>1, MessageTypes DEF AppendEntriesArgs
<1>3. /\ Log'[s] = log /\ LastIncludedIndex'[s] = base
      /\ \A p \in Server \ {s} : Log'[p] = Log[p] /\ LastIncludedIndex'[p] = LastIncludedIndex[p]
      /\ State'[s] = Follower
      /\ UNCHANGED sending
      /\ checkLogConsistency(s, m).Success
      /\ net' \subseteq net \cup {r}
  BY <1>1, <1>2, RespondAdds DEF AppendEntriesAccept, FollowTerm, TypeOK
<1>4. r.type = "AppendEntriesReply"
  BY DEF EntriesReply
<1> HIDE DEF r
<1>5. OldLog(s)
  <2>1. CASE NewOrConflicting(s, m.Entries) = {}
    <3>1. log = Log[s]
      BY <2>1 DEF MergedLog
    <3>2. QED
      BY <1>2, <1>3, <3>1, SameLog
  <2>2. CASE NewOrConflicting(s, m.Entries) # {}
    <3>1. PICK n \in Nat :
            /\ \A i \in Int : i >= base /\ i - base < Len(log) /\ i < n =>
                                At(s, i, log[i - base + 1].Term)
            /\ \A i \in Int : i >= base /\ i - base < Len(log) /\ i >= n =>
                                Names(m, i, log[i - base + 1].Term)
            /\ \A u : At(s, n - 1, u) => Names(m, n - 1, u)
      BY <1>1, <1>2, <1>3, <2>2, MergeMeets
    <3> HIDE DEF log, base
    <3>2. ASSUME NEW i \in Int, NEW t, At(s, i, t)'
          PROVE  i >= base /\ i - base < Len(log) /\ t = log[i - base + 1].Term
      BY <1>3, <3>2 DEF At, HasLogEntry, GetLogEntry
    <3>3. ASSUME NEW i \in Int, NEW t, At(s, i, t)'
          PROVE  (i < n => At(s, i, t)) /\ (i >= n => Names(m, i, t))
      BY <3>1, <3>2, <3>3
    <3>4. ASSUME NEW i \in Nat, NEW t \in Nat, At(s, i, t)' PROVE Named(i, t)
      <4>1. i \in Int /\ (i < n \/ i >= n)
        OBVIOUS
      <4>2. At(s, i, t) \/ Names(m, i, t)
        BY <3>3, <3>4, <4>1
      <4>3. QED
        BY <1>2, <4>2 DEF Named
    <3>5. ASSUME NEW i \in Nat, NEW t \in Nat, NEW u \in Nat, At(s, i, t)', At(s, i - 1, u)'
          PROVE  Follows(i, t, u)
      <4>1. i \in Int /\ i - 1 \in Int
        OBVIOUS
      <4>2. CASE i < n
        <5>1. i - 1 < n
          BY <4>2
        <5>2. At(s, i, t) /\ At(s, i - 1, u)
          BY <3>3, <3>5, <4>1, <4>2, <5>1
        <5>3. QED
          BY <1>2, <5>2 DEF Follows
      <4>3. CASE i >= n
        <5>1. Names(m, i, t)
          BY <3>3, <3>5, <4>1, <4>3
        <5>2. CASE i - 1 >= n
          <6>1. Names(m, i - 1, u)
            BY <3>3, <3>5, <4>1, <5>2
          <6>2. QED
            BY <5>1, <6>1 DEF Follows
        <5>3. CASE i - 1 < n
          <6>1. i - 1 = n - 1
            BY <4>3, <5>3
          <6>2. At(s, n - 1, u)
            BY <3>3, <3>5, <4>1, <5>3, <6>1
          <6>3. Names(m, i - 1, u)
            BY <3>1, <6>1, <6>2
          <6>4. QED
            BY <5>1, <6>3 DEF Follows
        <5>4. QED
          BY <5>2, <5>3
      <4>4. QED
        BY <4>2, <4>3
    <3>6. QED
      BY <3>4, <3>5 DEF OldLog
  <2>3. QED
    BY <2>1, <2>2
<1>6. Quiet
  BY <1>1, AppendEntriesQuiet
<1>7. State'[s] # Leader
  BY <1>3 DEF Follower, Leader
<1>8. \A x \in net' : x \in net \/ x.type \notin {"AppendEntries", "InstallSnapShot"}
  BY <1>3, <1>4
<1>9. QED
  BY <1>2, <1>3, <1>5, <1>6, <1>7, <1>8, ReplacedLogStep

-----------------------------------------------------------------------------
LEMMA InitMatching == Init => MatchingInv
<1> SUFFICES ASSUME Init PROVE MatchingInv
  OBVIOUS
<1>1. ElectionInv
  BY InitElectionInv
<1>2. ASSUME NEW i \in Int, NEW t, NEW s \in Server, At(s, i, t) PROVE i = 0
  <2>1. LastIncludedIndex[s] = 0 /\ Log[s] = InitialLog
    BY DEF Init
  <2>2. Len(InitialLog) = 1
    BY DEF InitialLog
  <2>3. QED
    BY <1>2, <2>1, <2>2 DEF At, HasLogEntry
<1>3. net = {} /\ \A s \in Server : sending[s] = {} /\ State[s] # Leader
  BY DEF Init, Follower, Leader
<1>4. ASSUME NEW i \in Int, NEW t, Named(i, t) PROVE i = 0
  BY <1>2, <1>3, <1>4 DEF Named
<1>5. ASSUME NEW i \in Nat, NEW t, NEW u, Follows(i, t, u) PROVE FALSE
  <2>1. PICK s \in Server : At(s, i, t) /\ At(s, i - 1, u)
    BY <1>3, <1>5 DEF Follows
  <2>2. i \in Int /\ i - 1 \in Int /\ i - 1 # i
    OBVIOUS
  <2>3. i = 0 /\ i - 1 = 0
    BY <1>2, <2>1, <2>2
  <2>4. QED
    BY <2>2, <2>3
<1>6. Chained /\ LeaderIsAhead
  BY <1>3, <1>5 DEF Chained, LeaderIsAhead
<1>7. Appended
  <2> SUFFICES ASSUME NEW i \in Nat, NEW t \in Nat, Named(i, t) PROVE i = 0
    BY DEF Appended
  <2>1. i \in Int
    OBVIOUS
  <2>2. QED
    BY <1>4, <2>1
<1>8. QED
  BY <1>1, <1>6, <1>7 DEF MatchingInv

LEMMA NextMatching ==
  ASSUME Counting
  PROVE  MatchingInv /\ [Next]_vars => MatchingInv'
<1> SUFFICES ASSUME MatchingInv, [Next]_vars PROVE MatchingInv'
  OBVIOUS
<1>1. ElectionInv /\ IndInv /\ TypeOK
  BY DEF MatchingInv, ElectionInv, IndInv
<1>2. ElectionInv'
  BY <1>1, NextElectionInv
<1>3. Regular
  BY <1>1, NextRegular
<1>4. CASE UNCHANGED vars
  <2>1. UNCHANGED <<CurrentTerm, VotedFor, State, votes, disk, net, Log, LastIncludedIndex, sending>>
    BY <1>4 DEF vars, electionVars, logVars
  <2>2. Quiet
    BY <2>1 DEF Quiet, Advances, Stays
  <2>3. QED
    BY <1>2, <1>3, <2>1, <2>2, LocalMatching
<1>5. CASE Next
  <2>1. ASSUME NEW s \in Candidates, AttemptElection(s) PROVE MatchingInv'
    BY <1>2, <1>3, <2>1, ServerAssumption, ElectionMatching
  <2>2. ASSUME NEW s \in Server, Make(s) PROVE MatchingInv'
    BY <1>2, <1>3, <2>2, MakeMatching
  <2>3. ASSUME NEW s \in Server, NEW c \in Command, Start(s, c) PROVE MatchingInv'
    BY <1>2, <1>3, <2>3, StartMatching
  <2>4. ASSUME NEW s \in Server, NEW p \in Server,
               BroadcastEntries(s, p) \/ PrepareSnapShot(s, p)
        PROVE  MatchingInv'
    BY <1>2, <1>3, <2>4, BroadcastMatching, PrepareMatching
  <2>5. ASSUME NEW s \in Server, NEW m \in sending[s],
               sendSnapShot(s, m) \/ sendSnapShotNotLeader(s, m)
        PROVE  MatchingInv'
    BY <1>2, <1>3, <2>5, sendSnapShotMatching
  <2>6. ASSUME NEW s \in Server, Snapshot(s) PROVE MatchingInv'
    BY <1>2, <1>3, <2>6, SnapshotMatching
  <2>7. ASSUME NEW s \in Server,
               \/ TickerTimeout(s) \/ ApplierTakeSnapshot(s) \/ ApplierTakeEntries(s)
               \/ ApplierSend(s) \/ ApplierDone(s)
        PROVE  MatchingInv'
    <3>1. Quiet
      BY <1>1, <2>7, LocalQuiet
    <3>2. UNCHANGED <<Log, LastIncludedIndex, net, sending>>
      BY <2>7 DEF TickerTimeout, ApplierTakeSnapshot, ApplierTakeEntries, ApplierSend,
                  ApplierDone, logVars
    <3>3. QED
      BY <1>2, <1>3, <3>1, <3>2, LocalMatching
  <2>8. ASSUME NEW m \in net, HandleRequest(m) PROVE MatchingInv'
    <3>1. CASE /\ m.type = "RequestVote"
               /\ RequestVoteStale(m) \/ RequestVoteRefuse(m) \/ RequestVoteGrant(m)
      BY <1>2, <1>3, <3>1, ElectionMatching
    <3>2. CASE m.type = "AppendEntries" /\ AppendEntriesAccept(m)
      BY <1>2, <1>3, <3>2, AcceptMatching
    <3>3. CASE m.type = "InstallSnapShot" /\ InstallSnapShot(m)
      BY <1>2, <1>3, <3>3, InstallMatching
    <3>4. CASE \/ /\ m.type = "AppendEntries"
                  /\ AppendEntriesStale(m) \/ AppendEntriesReject(m)
               \/ /\ m.type = "InstallSnapShot"
                  /\ InstallSnapShotStale(m) \/ InstallSnapShotOld(m)
      BY <1>2, <1>3, <3>4, RefusedCallMatching
    <3>5. QED
      BY <2>8, <3>1, <3>2, <3>3, <3>4 DEF HandleRequest
  <2>9. ASSUME NEW m \in net, HandleReply(m) PROVE MatchingInv'
    <3>1. CASE m.type = "RequestVoteReply" /\ VoteReplyGranted(m)
      BY <1>2, <1>3, <3>1, CountMatching
    <3>2. CASE ~(m.type = "RequestVoteReply" /\ VoteReplyGranted(m))
      <4>1. Quiet
        BY <1>1, <2>9, <3>2, ReplyQuiet DEF HandleReply
      <4>2. UNCHANGED <<Log, LastIncludedIndex, sending>> /\ net' \subseteq net
        BY <2>9, <3>2, ConsumeAdds
           DEF HandleReply, VoteReplyIgnored, VoteReplyHigherTerm, ReplyOutdated,
               EntriesReplyHigherTerm, EntriesReplySuccess, EntriesReplyFailure,
               SnapShotReplyHigherTerm, SnapShotReplySuccess, logVars
      <4>3. QED
        BY <1>2, <1>3, <4>1, <4>2, LocalMatching
    <3>3. QED
      BY <3>1, <3>2
  <2>10. QED
    BY <1>5, <2>1, <2>2, <2>3, <2>4, <2>5, <2>6, <2>7, <2>8, <2>9, ServerAssumption DEF Next
<1>6. QED
  BY <1>4, <1>5

LEMMA LogsAgree ==
  ASSUME Counting
  PROVE  MatchingInv => LogMatching
<1> SUFFICES ASSUME MatchingInv, NEW s \in Server, NEW p \in Server,
                    NEW j \in LastIncludedIndex[s] .. GetLastLog(s).Index,
                    HasLogEntry(p, j), GetLogEntry(s, j).Term # GetLogEntry(p, j).Term,
                    NEW i \in j .. GetLastLog(s).Index, HasLogEntry(p, i),
                    GetLogEntry(s, i).Term = GetLogEntry(p, i).Term
             PROVE  FALSE
  BY DEF LogMatching
<1>1. TypeOK /\ LogIndexing
  BY DEF MatchingInv, ElectionInv, IndInv
<1>2. /\ LastIncludedIndex[s] \in Nat /\ LastIncludedIndex[p] \in Nat
      /\ Len(Log[s]) \in Nat /\ Len(Log[p]) \in Nat
      /\ GetLastLog(s).Index = LastIncludedIndex[s] + Len(Log[s]) - 1
  BY <1>1, LastLog DEF TypeOK
<1>3. i \in Nat /\ j \in Nat /\ j <= i /\ j # i
  BY <1>2
<1> DEFINE Apart == {g \in j .. i : GetLogEntry(s, g).Term # GetLogEntry(p, g).Term}
           g == MaxOf(Apart)
<1>4. j \in Apart /\ Apart \in SUBSET Nat /\ \A y \in Apart : y <= i
  BY <1>3
<1>5. g \in Apart /\ \A y \in Apart : g >= y
  <2> HIDE DEF Apart
  <2>1. QED
    BY <1>3, <1>4, MaxOfNat
<1>6. /\ g \in j .. i /\ GetLogEntry(s, g).Term # GetLogEntry(p, g).Term
      /\ \A y \in j .. i : GetLogEntry(s, y).Term # GetLogEntry(p, y).Term => g >= y
  BY <1>5
<1> HIDE DEF g, Apart
<1>7. g # i
  BY <1>6
<1>8. PICK h \in Nat : h = g + 1 /\ h \in j .. i /\ h - 1 = g /\ g \in Nat
  BY <1>3, <1>6, <1>7
<1>9. GetLogEntry(s, h).Term = GetLogEntry(p, h).Term
  BY <1>3, <1>6, <1>8
<1>10. HasLogEntry(s, g) /\ HasLogEntry(s, h) /\ HasLogEntry(p, g) /\ HasLogEntry(p, h)
  <2>1. j <= g /\ g <= i /\ j <= h /\ h <= i /\ g \in Nat
    BY <1>3, <1>6, <1>8
  <2>2. /\ LastIncludedIndex[s] <= j /\ i - LastIncludedIndex[s] < Len(Log[s])
        /\ LastIncludedIndex[p] <= j /\ i - LastIncludedIndex[p] < Len(Log[p])
    BY <1>2, <1>3 DEF HasLogEntry
  <2>3. QED
    BY <1>2, <1>3, <2>1, <2>2 DEF HasLogEntry
<1>11. PICK t \in Nat, u \in Nat, v \in Nat :
         /\ t = GetLogEntry(s, h).Term /\ u = GetLogEntry(s, g).Term
         /\ v = GetLogEntry(p, g).Term
  <2>1. /\ GetLogEntry(s, h).Term \in Nat /\ GetLogEntry(s, g).Term \in Nat
        /\ GetLogEntry(p, g).Term \in Nat
    BY <1>1, <1>8, <1>10, AtType
  <2>2. QED
    BY <2>1
<1>12. At(s, h, t) /\ At(s, g, u) /\ At(p, h, t) /\ At(p, g, v)
  BY <1>9, <1>10, <1>11 DEF At
<1>13. Follows(h, t, u) /\ Follows(h, t, v)
  BY <1>8, <1>12 DEF Follows
<1>14. u = v
  BY <1>13 DEF MatchingInv, Chained
<1>15. QED
  BY <1>6, <1>11, <1>14

-----------------------------------------------------------------------------
(***************************************************************************)
(* Who makes a replication call leads, or has moved on to a later term.    *)
(***************************************************************************)
\* Within one process terms do not fall and a leader stays one for its term.
Serves(p) ==
  /\ boot'[p] >= boot[p]
  /\ boot'[p] = boot[p] =>
       /\ CurrentTerm'[p] >= CurrentTerm[p]
       /\ State[p] = Leader /\ CurrentTerm'[p] = CurrentTerm[p] => State'[p] = Leader

\* Whoever stands for election in a new term has saved it.
Enters(p) ==
  State'[p] \in {Candidate, Leader} =>
    \/ disk'[p].CurrentTerm = CurrentTerm'[p] /\ CurrentTerm'[p] > CurrentTerm[p]
    \/ State[p] \in {Candidate, Leader} /\ CurrentTerm'[p] = CurrentTerm[p]

LEMMA InOfficeKept ==
  ASSUME TypeOK, TypeOK', NEW s \in Server, NEW t \in Nat, InOffice(s, t), Serves(s),
         boot'[s] = boot[s]
  PROVE  InOffice(s, t)'
<1>1. CurrentTerm[s] \in Nat /\ CurrentTerm'[s] \in Nat
  BY DEF TypeOK
<1>2. QED
  BY <1>1 DEF InOffice, Serves

LEMMA FromLeaderKept ==
  ASSUME TypeOK, TypeOK', Regular, NEW m, m.from \in Server, m.Term \in Nat, m.boot \in Nat,
         FromLeader(m), Serves(m.from)
  PROVE  FromLeader(m)'
<1>1. boot[m.from] \in Nat /\ boot'[m.from] \in Nat
  <2>1. boot \in [Server -> 0 .. MaxBoots] /\ boot' \in [Server -> 0 .. MaxBoots]
    BY DEF TypeOK
  <2>2. QED
    BY <2>1, BootRange
<1>2. Won(m.from, m.Term)'
  BY WonKept DEF FromLeader
<1>3. m.boot <= boot'[m.from]
  BY <1>1 DEF FromLeader, Serves
<1>4. ASSUME m.boot = boot'[m.from] PROVE InOffice(m.from, m.Term)'
  <2>1. boot'[m.from] = boot[m.from] /\ m.boot = boot[m.from]
    BY <1>1, <1>4 DEF FromLeader, Serves
  <2>2. QED
    BY <2>1, InOfficeKept DEF FromLeader
<1>5. QED
  BY <1>2, <1>3, <1>4 DEF FromLeader

LEMMA TenureStep ==
  ASSUME TenureInv, MatchingInv', Regular,
         \A p \in Server : Serves(p) /\ Enters(p),
         \A m \in net' : Call(m) => m \in net \/ FromLeader(m),
         \A r \in net' : CallReply(r) =>
           boot'[r.args.from] = boot[r.args.from] /\ InOffice(r.args.from, r.args.Term),
         \A s \in Server : \A m \in sending'[s] :
           m.from = s /\ m.boot = boot'[s] /\ FromLeader(m)
  PROVE  TenureInv'
<1>1. TypeOK /\ TypeOK'
  BY DEF TenureInv, MatchingInv, ElectionInv, IndInv
<1>2. CallsTyped'
  BY <1>1, CallTypes, PTL
<1>3. ASSUME NEW s \in Server PROVE TermSaved(s)'
  <2>1. /\ CurrentTerm[s] \in Nat /\ CurrentTerm'[s] \in Nat
        /\ disk[s].CurrentTerm \in Nat /\ disk'[s].CurrentTerm \in Nat
    BY <1>1 DEF TypeOK, Persisted
  <2>2. TermSaved(s) /\ Advances(s) /\ Enters(s)
    BY DEF TenureInv, Tenure, Regular
  <2>3. disk'[s].CurrentTerm <= CurrentTerm'[s]
    BY <2>1, <2>2 DEF TermSaved, Advances
  <2>4. State'[s] \in {Candidate, Leader} =>
          disk'[s].CurrentTerm = CurrentTerm'[s] /\ CurrentTerm'[s] >= 1
    BY <2>1, <2>2 DEF TermSaved, Advances, Enters
  <2>5. QED
    BY <2>3, <2>4 DEF TermSaved
<1>4. ASSUME NEW m \in net', Call(m) PROVE FromLeader(m)'
  <2>1. FromLeader(m)
    BY <1>4 DEF TenureInv, Tenure
  <2>2. QED
    BY <1>1, <1>2, <1>4, <2>1, FromLeaderKept DEF CallsTyped, Call
<1>5. ASSUME NEW r \in net', CallReply(r) PROVE InOffice(r.args.from, r.args.Term)'
  <2>1. PICK s \in Server, t \in Nat : s = r.args.from /\ t = r.args.Term
    BY <1>2, <1>5 DEF CallsTyped, CallReply
  <2>2. InOffice(s, t)'
    BY <1>1, <1>5, <2>1, InOfficeKept
  <2>3. QED
    BY <2>1, <2>2
<1>6. ASSUME NEW s \in Server, NEW m \in sending'[s]
      PROVE  m.from = s /\ m.boot = boot'[s] /\ FromLeader(m)'
  BY <1>1, <1>2, FromLeaderKept DEF CallsTyped
<1>7. Tenure'
  BY <1>3, <1>4, <1>5, <1>6 DEF Tenure, Call, CallReply
<1>8. QED
  BY <1>7 DEF TenureInv

-----------------------------------------------------------------------------
(***************************************************************************)
(* Tenure, action by action.                                               *)
(***************************************************************************)
Rises(p) ==
  /\ CurrentTerm'[p] >= CurrentTerm[p]
  /\ State[p] = Leader /\ CurrentTerm'[p] = CurrentTerm[p] => State'[p] = Leader

\* Steps that make no replication call and answer none.
LEMMA AsideTenure ==
  ASSUME TenureInv, MatchingInv', Regular, UNCHANGED boot,
         \A p \in Server : Rises(p) /\ Enters(p),
         \A m \in net' : m \in net \/ ~(Call(m) \/ CallReply(m)),
         \A s \in Server : sending'[s] \subseteq sending[s]
  PROVE  TenureInv'
<1>1. TypeOK /\ CallsTyped
  BY CallTypes DEF TenureInv, MatchingInv, ElectionInv, IndInv
<1>2. \A p \in Server : Serves(p)
  <2>1. \A p \in Server : boot[p] \in Nat
    BY <1>1, BootType
  <2>2. QED
    BY <2>1 DEF Rises, Serves
<1>3. \A m \in net' : Call(m) => m \in net \/ FromLeader(m)
  OBVIOUS
<1>4. \A r \in net' : CallReply(r) =>
        boot'[r.args.from] = boot[r.args.from] /\ InOffice(r.args.from, r.args.Term)
  BY DEF TenureInv, Tenure
<1>5. \A s \in Server : \A m \in sending'[s] :
        m.from = s /\ m.boot = boot'[s] /\ FromLeader(m)
  BY DEF TenureInv, Tenure
<1>6. QED
  BY <1>2, <1>3, <1>4, <1>5, TenureStep

LEMMA UnchangedRises ==
  ASSUME TypeOK, NEW p \in Server, CurrentTerm'[p] = CurrentTerm[p], State'[p] = State[p]
  PROVE  Rises(p) /\ Enters(p)
<1>1. CurrentTerm'[p] >= CurrentTerm[p]
  BY TermKept
<1>2. QED
  BY <1>1 DEF Rises, Enters

\* One peer s follows a higher term; what it saves is that term.
LEMMA FollowerRises ==
  ASSUME TypeOK, NEW s \in Server, NEW term \in Nat, term > CurrentTerm[s],
         CurrentTerm' = [CurrentTerm EXCEPT ![s] = term],
         State' = [State EXCEPT ![s] = Follower],
         NEW p \in Server
  PROVE  Rises(p) /\ Enters(p)
<1>1. CASE p = s
  <2>1. CurrentTerm'[p] = term /\ State'[p] = Follower
    BY <1>1 DEF TypeOK
  <2>2. CurrentTerm[p] \in Nat
    BY FieldTypes
  <2>3. term >= CurrentTerm[p] /\ term # CurrentTerm[p]
    BY <1>1, <2>2
  <2>4. QED
    BY <2>1, <2>3 DEF Rises, Enters, Follower, Candidate, Leader
<1>2. CASE p # s
  BY <1>2, UnchangedRises DEF TypeOK
<1>3. QED
  BY <1>1, <1>2

\* The steps that leave terms and roles alone, apart from a candidate that
\* becomes a leader.
LEMMA SteadyTenure ==
  ASSUME TenureInv, MatchingInv', Regular,
         \/ \E s \in Server : \/ TickerTimeout(s) \/ Snapshot(s)
                              \/ \E c \in Command : Start(s, c)
                              \/ ApplierTakeSnapshot(s) \/ ApplierTakeEntries(s)
                              \/ ApplierSend(s) \/ ApplierDone(s)
         \/ \E s \in Server : \E m \in sending[s] : sendSnapShotNotLeader(s, m)
         \/ \E m \in net : \/ VoteReplyIgnored(m) \/ ReplyOutdated(m)
                           \/ EntriesReplySuccess(m) \/ EntriesReplyFailure(m)
                           \/ SnapShotReplySuccess(m)
         \/ UNCHANGED vars
  PROVE  TenureInv'
<1>1. TypeOK
  BY DEF TenureInv, MatchingInv, ElectionInv, IndInv
<1>2. UNCHANGED <<CurrentTerm, State, boot>>
  BY DEF TickerTimeout, Snapshot, Start, ApplierTakeSnapshot, ApplierTakeEntries, ApplierSend,
         ApplierDone, sendSnapShotNotLeader, VoteReplyIgnored, ReplyOutdated,
         EntriesReplySuccess, EntriesReplyFailure, SnapShotReplySuccess, electionVars, vars
<1>3. net' \subseteq net
  BY ConsumeAdds
     DEF TickerTimeout, Snapshot, Start, ApplierTakeSnapshot, ApplierTakeEntries, ApplierSend,
         ApplierDone, sendSnapShotNotLeader, VoteReplyIgnored, ReplyOutdated,
         EntriesReplySuccess, EntriesReplyFailure, SnapShotReplySuccess, vars
<1>4. ASSUME NEW s \in Server PROVE sending'[s] \subseteq sending[s]
  <2>1. CASE UNCHANGED sending
    BY <2>1
  <2>2. CASE \E p \in Server : \E m \in sending[p] : sending' = [sending EXCEPT ![p] = @ \ {m}]
    BY <1>1, <2>2 DEF TypeOK
  <2>3. QED
    BY <2>1, <2>2
       DEF TickerTimeout, Snapshot, Start, ApplierTakeSnapshot, ApplierTakeEntries, ApplierSend,
           ApplierDone, sendSnapShotNotLeader, VoteReplyIgnored, ReplyOutdated,
           EntriesReplySuccess, EntriesReplyFailure, SnapShotReplySuccess, vars
<1>5. \A p \in Server : Rises(p) /\ Enters(p)
  BY <1>1, <1>2, UnchangedRises
<1>6. QED
  BY <1>2, <1>3, <1>4, <1>5, AsideTenure

LEMMA AttemptTenure ==
  ASSUME TenureInv, MatchingInv', Regular, NEW s \in Server, AttemptElection(s)
  PROVE  TenureInv'
<1>1. TypeOK
  BY DEF TenureInv, MatchingInv, ElectionInv, IndInv
<1>2. PICK t \in Nat : t = CurrentTerm[s]
  BY <1>1 DEF TypeOK
<1>3. /\ CurrentTerm' = [CurrentTerm EXCEPT ![s] = t + 1]
      /\ State' = [State EXCEPT ![s] = Candidate]
      /\ UNCHANGED <<boot, sending>>
  BY <1>2 DEF AttemptElection
<1>4. disk'[s].CurrentTerm = CurrentTerm'[s]
  BY <1>1 DEF AttemptElection, persist, Save, EncodeRaftState, TypeOK
<1>5. ASSUME NEW p \in Server PROVE Rises(p) /\ Enters(p)
  <2>1. CASE p = s
    <3>1. State'[p] = Candidate /\ CurrentTerm'[p] = CurrentTerm[p] + 1
      BY <1>1, <2>1 DEF AttemptElection, TypeOK
    <3>2. /\ CurrentTerm[p] + 1 > CurrentTerm[p] /\ CurrentTerm[p] + 1 >= CurrentTerm[p]
          /\ CurrentTerm[p] + 1 # CurrentTerm[p]
      BY <1>1, NextTerm
    <3>3. QED
      BY <1>4, <2>1, <3>1, <3>2 DEF Rises, Enters, Candidate, Leader
  <2>2. CASE p # s
    BY <1>1, <1>3, <2>2, UnchangedRises DEF TypeOK
  <2>3. QED
    BY <2>1, <2>2
<1>6. \A m \in net' : m \in net \/ ~(Call(m) \/ CallReply(m))
  BY CandidateAsks DEF Call, CallReply
<1>7. QED
  BY <1>3, <1>5, <1>6, AsideTenure

\* The answers to RequestVote().
LEMMA AnswerVoteTenure ==
  ASSUME TenureInv, MatchingInv', Regular, NEW m \in net, m.type = "RequestVote",
         RequestVoteStale(m) \/ RequestVoteRefuse(m) \/ RequestVoteGrant(m)
  PROVE  TenureInv'
<1> DEFINE s == m.to
<1>1. TypeOK
  BY DEF TenureInv, MatchingInv, ElectionInv, IndInv
<1>2. s \in Server /\ m.Term \in Nat /\ CurrentTerm[s] \in Nat
  <2>1. s \in Server /\ m.Term \in Nat
    BY <1>1, MessageTypes DEF RequestVoteArgs
  <2>2. QED
    BY <1>1, <2>1 DEF TypeOK
<1>3. PICK r : Respond(m, r) /\ r.type = "RequestVoteReply"
  <2>1. \A t, g : VoteReply(m, t, g).type = "RequestVoteReply"
    BY DEF VoteReply
  <2>2. QED
    BY <2>1 DEF RequestVoteStale, RequestVoteRefuse, RequestVoteGrant
<1>4. \A x \in net' : x \in net \/ ~(Call(x) \/ CallReply(x))
  BY <1>3, RespondAdds DEF Call, CallReply
<1>5. UNCHANGED <<boot, sending>>
  BY DEF RequestVoteStale, RequestVoteRefuse, RequestVoteGrant
<1>6. ASSUME NEW p \in Server PROVE Rises(p) /\ Enters(p)
  <2>1. CASE m.Term <= CurrentTerm[s]
    <3>1. CASE RequestVoteStale(m)
      BY <1>1, <3>1, UnchangedRises DEF RequestVoteStale, electionVars
    <3>2. CASE RequestVoteRefuse(m) \/ RequestVoteGrant(m)
      <4>1. m.Term >= CurrentTerm[s]
        BY <3>2, ZenonT(60) DEF RequestVoteRefuse, RequestVoteGrant
      <4>2. m.Term = CurrentTerm[s] /\ ~(m.Term > CurrentTerm[s])
        BY <1>2, <2>1, <4>1, SMTT(60), Z3T(60)
      <4>3. CurrentTerm' = [CurrentTerm EXCEPT ![s] = CurrentTerm[s]] /\ State' = State
        BY <3>2, <4>2 DEF RequestVoteRefuse, RequestVoteGrant
      <4>4. CurrentTerm' = CurrentTerm
        BY <1>1, <4>3 DEF TypeOK
      <4>5. QED
        BY <1>1, <4>3, <4>4, UnchangedRises
    <3>3. QED
      BY <3>1, <3>2
  <2>2. CASE m.Term > CurrentTerm[s]
    <3>1. /\ CurrentTerm' = [CurrentTerm EXCEPT ![s] = m.Term]
          /\ State' = [State EXCEPT ![s] = Follower]
      <4>1. ~(m.Term < CurrentTerm[s])
        BY <1>2, <2>2, SMTT(60), Z3T(60)
      <4>2. QED
        BY <2>2, <4>1 DEF RequestVoteStale, RequestVoteRefuse, RequestVoteGrant
    <3>2. QED
      BY <1>1, <1>2, <2>2, <3>1, FollowerRises
  <2>3. QED
    BY <1>2, <2>1, <2>2
<1>7. QED
  BY <1>4, <1>5, <1>6, AsideTenure

\* The answers that tell of a higher term, and the vote that is counted.
LEMMA AnsweredTenure ==
  ASSUME TenureInv, MatchingInv', Regular, NEW m \in net,
         \/ m.type = "RequestVoteReply" /\ (VoteReplyHigherTerm(m) \/ VoteReplyGranted(m))
         \/ m.type = "AppendEntriesReply" /\ EntriesReplyHigherTerm(m)
         \/ m.type = "InstallSnapShotReply" /\ SnapShotReplyHigherTerm(m)
  PROVE  TenureInv'
<1> DEFINE s == m.args.from
<1>1. TypeOK
  BY DEF TenureInv, MatchingInv, ElectionInv, IndInv
<1>2. s \in Server /\ m.Term \in Nat
  <2>1. m \in RequestVoteReply \cup AppendEntriesReply \cup InstallSnapshotReply
    BY <1>1, MessageTypes
  <2>2. QED
    BY <2>1 DEF RequestVoteReply, AppendEntriesReply, InstallSnapshotReply,
                RequestVoteArgs, AppendEntriesArgs, InstallSnapshotArgs
<1>3. net' \subseteq net /\ UNCHANGED <<boot, sending>>
  BY ConsumeAdds DEF VoteReplyHigherTerm, VoteReplyGranted, EntriesReplyHigherTerm,
                     SnapShotReplyHigherTerm
<1>4. ASSUME NEW p \in Server PROVE Rises(p) /\ Enters(p)
  <2>1. CASE VoteReplyGranted(m)
    <3>1. /\ State[s] = Candidate /\ CurrentTerm' = CurrentTerm
          /\ State' = State \/ State' = [State EXCEPT ![s] = Leader]
      BY <2>1 DEF VoteReplyGranted, BecomeLeader
    <3>2. CASE p = s
      <4>1. State'[p] \in {Candidate, Leader} /\ State[p] = Candidate
        BY <1>1, <3>1, <3>2 DEF TypeOK
      <4>2. CurrentTerm'[p] = CurrentTerm[p] /\ CurrentTerm'[p] >= CurrentTerm[p]
        BY <1>1, <3>1, TermKept
      <4>3. QED
        BY <4>1, <4>2 DEF Rises, Enters, Candidate, Leader
    <3>3. CASE p # s
      BY <1>1, <3>1, <3>3, UnchangedRises DEF TypeOK
    <3>4. QED
      BY <3>2, <3>3
  <2>2. CASE ~VoteReplyGranted(m)
    <3>1. /\ CurrentTerm' = [CurrentTerm EXCEPT ![s] = m.Term]
          /\ State' = [State EXCEPT ![s] = Follower]
          /\ m.Term > CurrentTerm[s]
      BY <2>2 DEF VoteReplyHigherTerm, EntriesReplyHigherTerm, SnapShotReplyHigherTerm
    <3>2. QED
      BY <1>1, <1>2, <3>1, FollowerRises
  <2>3. QED
    BY <2>1, <2>2
<1>5. QED
  BY <1>3, <1>4, AsideTenure

\* The calls a leader makes.
LEMMA CallTenure ==
  ASSUME TenureInv, MatchingInv', Regular, NEW s \in Server,
         \/ \E p \in Server : BroadcastEntries(s, p) \/ PrepareSnapShot(s, p)
         \/ \E m \in sending[s] : sendSnapShot(s, m)
  PROVE  TenureInv'
<1>1. ElectionInv /\ TypeOK
  BY DEF TenureInv, MatchingInv, ElectionInv, IndInv
<1>2. /\ State[s] = Leader
      /\ UNCHANGED <<CurrentTerm, State, boot>>
  BY DEF BroadcastEntries, PrepareSnapShot, sendSnapShot, electionVars
<1>3. ASSUME NEW m, m.from = s, m.to # s, m.boot = boot[s], m.Term = CurrentTerm[s]
      PROVE  FromLeader(m)
  <2>1. Won(s, CurrentTerm[s])
    BY <1>1, <1>2, LeaderWon DEF TenureInv, Tenure
  <2>2. boot[s] \in Nat /\ CurrentTerm[s] \in Nat
    BY <1>1, BootType, FieldTypes
  <2>3. boot[s] <= boot[s] /\ CurrentTerm[s] >= CurrentTerm[s]
    BY <2>2
  <2>4. QED
    BY <1>2, <1>3, <2>1, <2>3, ZenonT(60) DEF FromLeader, InOffice
<1>4. \A p \in Server : Serves(p) /\ Enters(p)
  <2>1. \A p \in Server : boot[p] \in Nat
    BY <1>1, BootType
  <2>2. QED
    BY <1>1, <1>2, <2>1, UnchangedRises DEF Serves, Rises
<1>5. \A m \in net' : \/ m \in net
                      \/ ~CallReply(m) /\ FromLeader(m)
  <2>1. ASSUME NEW p \in Server, BroadcastEntries(s, p)
        PROVE  \A m \in net' : m \in net \/ (~CallReply(m) /\ FromLeader(m))
    <3> DEFINE call ==
          [type |-> "AppendEntries", from |-> s, to |-> p, boot |-> boot[s],
           Term |-> CurrentTerm[s], PrevLogIndex |-> NextIndex[s][p] - 1,
           PrevLogTerm |-> GetLogEntry(s, NextIndex[s][p] - 1).Term,
           Entries |-> GetLogSlices(s, NextIndex[s][p], GetLastLog(s).Index + 1),
           LeaderCommit |-> CommitIndex[s]]
    <3>1. net' \subseteq net \cup {call}
      BY <2>1, SendAdds DEF BroadcastEntries
    <3>2. call.from = s /\ call.to # s /\ call.boot = boot[s] /\ call.Term = CurrentTerm[s]
      BY <2>1 DEF BroadcastEntries
    <3>3. ~CallReply(call)
      BY DEF CallReply
    <3> HIDE DEF call
    <3>4. QED
      BY <1>3, <3>1, <3>2, <3>3
  <2>2. ASSUME NEW m \in sending[s], sendSnapShot(s, m)
        PROVE  \A x \in net' : x \in net \/ (~CallReply(x) /\ FromLeader(x))
    <3>1. net' \subseteq net \cup {m}
      BY <2>2, SendAdds DEF sendSnapShot
    <3>2. m \in InstallSnapshotArgs
      BY <1>1 DEF TypeOK
    <3>3. ~CallReply(m)
      BY <3>2 DEF CallReply, InstallSnapshotArgs
    <3>4. FromLeader(m)
      BY DEF TenureInv, Tenure
    <3>5. QED
      BY <3>1, <3>3, <3>4
  <2>3. CASE UNCHANGED net
    BY <2>3
  <2>4. QED
    BY <2>1, <2>2, <2>3 DEF PrepareSnapShot
<1>6. \A q \in Server : \A m \in sending'[q] :
        m.from = q /\ m.boot = boot'[q] /\ FromLeader(m)
  <2>1. ASSUME NEW p \in Server, PrepareSnapShot(s, p), NEW q \in Server, NEW m \in sending'[q]
        PROVE  m.from = q /\ m.boot = boot'[q] /\ FromLeader(m)
    <3>1. CASE m \in sending[q]
      BY <1>2, <3>1 DEF TenureInv, Tenure
    <3>2. CASE m \notin sending[q]
      <4>1. q = s /\ m.from = s /\ m.to # s /\ m.boot = boot[s] /\ m.Term = CurrentTerm[s]
        <5> DEFINE call == [type |-> "InstallSnapShot", from |-> s, to |-> p, boot |-> boot[s],
                            Term |-> CurrentTerm[s], LastIncludedIndex |-> LastIncludedIndex[s],
                            LastIncludedTerm |-> LastIncludedTerm[s], Data |-> disk[s].snapshot]
        <5>1. sending' = [sending EXCEPT ![s] = @ \cup {call}] /\ p # s
          BY <2>1 DEF PrepareSnapShot
        <5>2. call.from = s /\ call.to = p /\ call.boot = boot[s] /\ call.Term = CurrentTerm[s]
          OBVIOUS
        <5> HIDE DEF call
        <5>3. q = s /\ m = call
          BY <1>1, <2>1, <3>2, <5>1 DEF TypeOK
        <5>4. QED
          BY <5>1, <5>2, <5>3
      <4>2. QED
        BY <1>2, <1>3, <4>1
    <3>3. QED
      BY <3>1, <3>2
  <2>2. CASE ~\E p \in Server : PrepareSnapShot(s, p)
    <3>1. \A q \in Server : sending'[q] \subseteq sending[q]
      <4>1. CASE UNCHANGED sending
        BY <4>1
      <4>2. CASE \E m \in sending[s] : sending' = [sending EXCEPT ![s] = @ \ {m}]
        BY <1>1, <4>2 DEF TypeOK
      <4>3. QED
        BY <2>2, <4>1, <4>2 DEF BroadcastEntries, sendSnapShot
    <3>2. QED
      BY <1>2, <3>1 DEF TenureInv, Tenure
  <2>3. QED
    BY <2>1, <2>2
<1>7. \A r \in net' : CallReply(r) =>
        boot'[r.args.from] = boot[r.args.from] /\ InOffice(r.args.from, r.args.Term)
  BY <1>2, <1>5 DEF TenureInv, Tenure
<1>8. QED
  BY <1>4, <1>5, <1>6, <1>7, TenureStep

\* The handlers of replication calls.  A peer that leads the term of the call
\* would have made it itself.
LEMMA HandlerTenure ==
  ASSUME Counting,
         TenureInv, MatchingInv', Regular, NEW m \in net,
         \/ /\ m.type = "AppendEntries"
            /\ AppendEntriesStale(m) \/ AppendEntriesReject(m) \/ AppendEntriesAccept(m)
         \/ /\ m.type = "InstallSnapShot"
            /\ InstallSnapShotStale(m) \/ InstallSnapShotOld(m) \/ InstallSnapShot(m)
  PROVE  TenureInv'
<1> DEFINE s == m.to
<1>1. ElectionInv /\ TypeOK /\ CallsTyped
  BY CallTypes DEF TenureInv, MatchingInv, ElectionInv, IndInv
<1>2. s \in Server /\ m.from \in Server /\ m.Term \in Nat /\ CurrentTerm[s] \in Nat
  <2>1. s \in Server /\ m.from \in Server /\ m.Term \in Nat
    BY <1>1 DEF CallsTyped, Call
  <2>2. QED
    BY <1>1, <2>1 DEF TypeOK
<1>3. FromLeader(m)
  BY DEF TenureInv, Tenure, Call
<1>4. UNCHANGED <<boot, sending>>
  BY DEF AppendEntriesStale, AppendEntriesReject, AppendEntriesAccept,
         InstallSnapShotStale, InstallSnapShotOld, InstallSnapShot
<1>5. PICK r : Respond(m, r) /\ ~Call(r) /\ r.args = m
  <2>1. \A t, x : ~Call(EntriesReply(m, t, x)) /\ EntriesReply(m, t, x).args = m
    BY DEF EntriesReply, Call
  <2>2. \A t : ~Call(SnapShotReply(m, t)) /\ SnapShotReply(m, t).args = m
    BY DEF SnapShotReply, Call
  <2>3. QED
    BY <2>1, <2>2 DEF AppendEntriesStale, AppendEntriesReject, AppendEntriesAccept,
                      InstallSnapShotStale, InstallSnapShotOld, InstallSnapShot
<1>6. ASSUME NEW x \in net', x \notin net
      PROVE  x = r /\ m.boot = boot[m.from]
  <2>1. PICK before \in Without(m) :
          Send(before, IF m.boot = boot[m.from] THEN {r} ELSE {})
    BY <1>5 DEF Respond
  <2>2. before \subseteq net
    BY <2>1 DEF Without
  <2>3. QED
    BY <1>6, <2>1, <2>2 DEF Send
<1>7. \A x \in net' : Call(x) => x \in net \/ FromLeader(x)
  BY <1>5, <1>6
<1>8. \A x \in net' : CallReply(x) =>
        boot'[x.args.from] = boot[x.args.from] /\ InOffice(x.args.from, x.args.Term)
  <2> SUFFICES ASSUME NEW x \in net', CallReply(x)
               PROVE  InOffice(x.args.from, x.args.Term)
    BY <1>4
  <2>1. CASE x \in net
    BY <2>1 DEF TenureInv, Tenure
  <2>2. CASE x \notin net
    BY <1>3, <1>5, <1>6, <2>2 DEF FromLeader
  <2>3. QED
    BY <2>1, <2>2
<1>9. ASSUME NEW p \in Server PROVE Rises(p) /\ Enters(p)
  <2>1. CASE UNCHANGED <<CurrentTerm, State>>
    BY <1>1, <2>1, UnchangedRises
  <2>2. CASE FollowTerm(s, m.Term) /\ m.Term > CurrentTerm[s]
    <3>1. /\ CurrentTerm' = [CurrentTerm EXCEPT ![s] = m.Term]
          /\ State' = [State EXCEPT ![s] = Follower]
      BY <2>2 DEF FollowTerm
    <3>2. QED
      BY <1>1, <1>2, <2>2, <3>1, FollowerRises
  <2>3. CASE FollowTerm(s, m.Term) /\ m.Term = CurrentTerm[s]
    <3>1. /\ CurrentTerm' = [CurrentTerm EXCEPT ![s] = m.Term]
          /\ State' = [State EXCEPT ![s] = Follower]
      BY <2>3 DEF FollowTerm
    <3>2. State[s] # Leader
      BY <1>1, <1>2, <1>3, <2>3, LeaderOnlyWon DEF FromLeader
    <3>3. CASE p = s
      <4>1. CurrentTerm'[p] = CurrentTerm[p] /\ State'[p] = Follower
        BY <1>1, <1>2, <2>3, <3>1, <3>3 DEF TypeOK
      <4>2. CurrentTerm'[p] >= CurrentTerm[p]
        BY <1>1, <4>1, TermKept
      <4>3. QED
        BY <3>2, <3>3, <4>1, <4>2 DEF Rises, Enters, Follower, Candidate, Leader
    <3>4. CASE p # s
      BY <1>1, <3>1, <3>4, UnchangedRises DEF TypeOK
    <3>5. QED
      BY <3>3, <3>4
  <2>4. CASE FollowTerm(s, m.Term)
    <3>1. m.Term >= CurrentTerm[s]
      BY <2>4, ZenonT(60) DEF FollowTerm
    <3>2. m.Term > CurrentTerm[s] \/ m.Term = CurrentTerm[s]
      BY <1>2, <3>1, SMTT(60), Z3T(60)
    <3>3. QED
      BY <2>2, <2>3, <2>4, <3>2
  <2>5. QED
    BY <2>1, <2>4 DEF AppendEntriesStale, AppendEntriesReject, AppendEntriesAccept,
           InstallSnapShotStale, InstallSnapShotOld, InstallSnapShot, electionVars
<1>10. \A p \in Server : Serves(p) /\ Enters(p)
  <2>1. \A p \in Server : boot[p] \in Nat
    BY <1>1, BootType
  <2>2. QED
    BY <1>4, <1>9, <2>1 DEF Serves, Rises
<1>11. \A q \in Server : \A x \in sending'[q] :
         x.from = q /\ x.boot = boot'[q] /\ FromLeader(x)
  BY <1>4 DEF TenureInv, Tenure
<1>12. QED
  BY <1>7, <1>8, <1>10, <1>11, TenureStep

LEMMA MakeTenure ==
  ASSUME Counting,
         TenureInv, MatchingInv', Regular, NEW s \in Server, Make(s)
  PROVE  TenureInv'
<1>1. TypeOK /\ CallsTyped
  BY CallTypes DEF TenureInv, MatchingInv, ElectionInv, IndInv
<1>2. PICK b : boot' = [boot EXCEPT ![s] = b] /\ b = LastBoot + 1
  BY DEF Make
<1>3. b \in Nat /\ b > boot[s]
  BY <1>1, <1>2, BootIsNew
<1>4. \A p \in Server : Serves(p) /\ Enters(p)
  <2> SUFFICES ASSUME NEW p \in Server PROVE Serves(p) /\ Enters(p)
    OBVIOUS
  <2>1. boot[p] \in Nat /\ State'[s] = Follower
    <3>1. State'[s] = Follower
      BY <1>1 DEF TypeOK, Make
    <3>2. QED
      BY <1>1, <3>1, BootType
  <2>2. CASE p = s
    <3>1. boot'[p] = b
      BY <1>1, <1>2, <2>2 DEF TypeOK
    <3>2. QED
      BY <1>3, <2>1, <2>2, <3>1 DEF Serves, Enters, Follower, Candidate, Leader
  <2>3. CASE p # s
    <3>1. boot'[p] = boot[p] /\ CurrentTerm'[p] = CurrentTerm[p] /\ State'[p] = State[p]
      BY <1>1, <1>2, <2>3 DEF TypeOK, Make, readPersist
    <3>2. Rises(p) /\ Enters(p)
      BY <1>1, <3>1, UnchangedRises
    <3>3. Serves(p)
      BY <2>1, <3>1, <3>2 DEF Serves, Rises
    <3>4. QED
      BY <3>2, <3>3
  <2>4. QED
    BY <2>2, <2>3
<1>5. net' = net \ RepliesTo(s)
  BY DEF Make
<1>6. \A r \in net' : CallReply(r) =>
        boot'[r.args.from] = boot[r.args.from] /\ InOffice(r.args.from, r.args.Term)
  <2> SUFFICES ASSUME NEW r \in net', CallReply(r)
               PROVE  boot'[r.args.from] = boot[r.args.from] /\ InOffice(r.args.from, r.args.Term)
    OBVIOUS
  <2>1. r \in AppendEntriesReply \/ r \in InstallSnapshotReply
    BY <1>1, <1>5, MessageTypes DEF CallReply
  <2>2. "args" \in DOMAIN r
    BY <2>1 DEF AppendEntriesReply, InstallSnapshotReply
  <2>3. r \in net /\ r.args.from # s
    BY <1>5, <2>2 DEF RepliesTo
  <2>4. r.args.from \in Server
    BY <1>1, <2>3 DEF CallsTyped
  <2>5. QED
    BY <1>1, <1>2, <2>3, <2>4 DEF TypeOK, TenureInv, Tenure
<1>7. \A q \in Server : \A m \in sending'[q] :
        m.from = q /\ m.boot = boot'[q] /\ FromLeader(m)
  <2> SUFFICES ASSUME NEW q \in Server, NEW m \in sending'[q]
               PROVE  m.from = q /\ m.boot = boot'[q] /\ FromLeader(m)
    OBVIOUS
  <2>1. sending' = [sending EXCEPT ![s] = {}]
    BY DEF Make
  <2>2. q # s /\ m \in sending[q]
    BY <1>1, <2>1 DEF TypeOK
  <2>3. boot'[q] = boot[q]
    BY <1>1, <1>2, <2>2 DEF TypeOK
  <2>4. QED
    BY <2>2, <2>3 DEF TenureInv, Tenure
<1>8. QED
  BY <1>4, <1>5, <1>6, <1>7, TenureStep

LEMMA InitTenure == Init => TenureInv
<1> SUFFICES ASSUME Init PROVE TenureInv
  OBVIOUS
<1>1. MatchingInv
  BY InitMatching
<1>2. net = {} /\ \A s \in Server : sending[s] = {}
  BY DEF Init
<1>3. \A s \in Server : /\ disk[s].CurrentTerm = 0 /\ CurrentTerm[s] = 0
                         /\ State[s] \notin {Candidate, Leader}
  BY DEF Init, Follower, Candidate, Leader
<1>4. \A s \in Server : TermSaved(s)
  BY <1>3 DEF TermSaved
<1>5. QED
  BY <1>1, <1>2, <1>4 DEF TenureInv, Tenure

LEMMA NextTenure ==
  ASSUME Counting
  PROVE  TenureInv /\ [Next]_vars => TenureInv'
<1> SUFFICES ASSUME TenureInv, [Next]_vars PROVE TenureInv'
  OBVIOUS
<1>1. MatchingInv'
  BY NextMatching DEF TenureInv
<1>2. Regular
  BY NextRegular DEF TenureInv, MatchingInv, ElectionInv
<1>3. CASE UNCHANGED vars
  BY <1>1, <1>2, <1>3, SteadyTenure
<1>4. CASE Next
  <2>1. ASSUME NEW s \in Server, AttemptElection(s) PROVE TenureInv'
    BY <1>1, <1>2, <2>1, AttemptTenure
  <2>2. ASSUME NEW s \in Server, Make(s) PROVE TenureInv'
    BY <1>1, <1>2, <2>2, MakeTenure
  <2>3. ASSUME NEW s \in Server,
               \/ \E p \in Server : BroadcastEntries(s, p) \/ PrepareSnapShot(s, p)
               \/ \E m \in sending[s] : sendSnapShot(s, m)
        PROVE  TenureInv'
    BY <1>1, <1>2, <2>3, CallTenure
  <2>4. ASSUME NEW s \in Server,
               \/ TickerTimeout(s) \/ Snapshot(s)
               \/ \E c \in Command : Start(s, c)
               \/ ApplierTakeSnapshot(s) \/ ApplierTakeEntries(s)
               \/ ApplierSend(s) \/ ApplierDone(s)
               \/ \E m \in sending[s] : sendSnapShotNotLeader(s, m)
        PROVE  TenureInv'
    BY <1>1, <1>2, <2>4, SteadyTenure
  <2>5. ASSUME NEW m \in net, HandleRequest(m) PROVE TenureInv'
    BY <1>1, <1>2, <2>5, AnswerVoteTenure, HandlerTenure DEF HandleRequest
  <2>6. ASSUME NEW m \in net, HandleReply(m) PROVE TenureInv'
    BY <1>1, <1>2, <2>6, AnsweredTenure, SteadyTenure DEF HandleReply
  <2>7. QED
    BY <1>4, <2>1, <2>2, <2>3, <2>4, <2>5, <2>6, ServerAssumption DEF Next
<1>5. QED
  BY <1>3, <1>4

-----------------------------------------------------------------------------
(***************************************************************************)
(* From here on no service takes a snapshot: nothing is ever cut from a    *)
(* log, and InstallSnapShot() never replaces one.                          *)
(***************************************************************************)
LEMMA PlainMsgKept ==
  ASSUME TenureInv, TypeOK', Regular,
         \A c \in Server : State[c] = Candidate /\ State'[c] = Candidate => Log'[c] = Log[c],
         NEW m \in net', PlainMsg(m)
  PROVE  PlainMsg(m)'
<1>1. m \in Message
  BY DEF TypeOK
<1>2. ASSUME m.type = "RequestVote" PROVE Asks(m)'
  <2>1. m.from \in Server /\ m.Term \in Nat
    BY <1>1, <1>2 DEF Message, RequestVoteArgs, AppendEntriesArgs, InstallSnapshotArgs,
                      RequestVoteReply, AppendEntriesReply, InstallSnapshotReply
  <2>2. PICK c \in Server, t \in Nat : c = m.from /\ t = m.Term
    BY <2>1
  <2>3. Asks(m)
    BY <1>2 DEF PlainMsg
  <2>4. /\ disk[c].CurrentTerm \in Nat /\ disk'[c].CurrentTerm \in Nat
        /\ disk'[c].CurrentTerm >= disk[c].CurrentTerm
    BY DiskGrows
  <2>5. t <= disk[c].CurrentTerm
    BY <2>2, <2>3 DEF Asks
  <2>6. m.Term <= disk'[m.from].CurrentTerm
    BY <2>2, <2>4, <2>5
  <2>7. ASSUME State'[c] = Candidate, CurrentTerm'[c] = t
        PROVE  State[c] = Candidate /\ CurrentTerm[c] = t
    <3>1. Stands(c) /\ disk[c].CurrentTerm <= CurrentTerm[c] /\ CurrentTerm[c] \in Nat
      BY DEF Regular, TenureInv, Tenure, TermSaved, MatchingInv, ElectionInv, IndInv, TypeOK
    <3>2. QED
      BY <2>4, <2>5, <2>7, <3>1 DEF Stands
  <2>8. ASSUME State'[c] = Candidate, CurrentTerm'[c] = t
        PROVE  m.LastLogIndex = Log'[c][Len(Log'[c])].Index /\ m.LastLogTerm = Log'[c][Len(Log'[c])].Term
    <3>1. m.LastLogIndex = GetLastLog(c).Index /\ m.LastLogTerm = GetLastLog(c).Term
      BY <2>2, <2>3, <2>7, <2>8 DEF Asks
    <3>2. Log'[c] = Log[c]
      BY <2>7, <2>8
    <3>3. QED
      BY <3>1, <3>2 DEF GetLastLog
  <2>9. QED
    BY <2>2, <2>6, <2>8 DEF Asks, GetLastLog
<1>3. ASSUME m.type = "RequestVoteReply" PROVE m.args.Term <= disk'[m.args.from].CurrentTerm
  <2>1. m \in RequestVoteReply
    BY <1>1, <1>3 DEF Message, RequestVoteArgs, AppendEntriesArgs, InstallSnapshotArgs,
                      RequestVoteReply, AppendEntriesReply, InstallSnapshotReply
  <2>2. PICK c \in Server, t \in Nat : c = m.args.from /\ t = m.args.Term
    BY <2>1 DEF RequestVoteReply, RequestVoteArgs
  <2>3. t <= disk[c].CurrentTerm
    BY <1>3, <2>2 DEF PlainMsg
  <2>4. /\ disk[c].CurrentTerm \in Nat /\ disk'[c].CurrentTerm \in Nat
        /\ disk'[c].CurrentTerm >= disk[c].CurrentTerm
    BY DiskGrows
  <2>5. t <= disk'[c].CurrentTerm
    BY <2>3, <2>4
  <2>6. QED
    BY <2>2, <2>5
<1>4. QED
  BY <1>2, <1>3 DEF PlainMsg

LEMMA PlainStep ==
  ASSUME PlainInv, TenureInv', Regular, UNCHANGED LastIncludedIndex,
         \A c \in Server : State[c] = Candidate /\ State'[c] = Candidate => Log'[c] = Log[c],
         \A m \in net' : m \in net \/ PlainMsg(m) \/ PlainMsg(m)',
         \A s \in Server : \A m \in sending'[s] : m \in sending[s] \/ m.LastIncludedIndex = 0
  PROVE  PlainInv'
<1>1. TypeOK'
  BY DEF TenureInv, MatchingInv, ElectionInv, IndInv
<1>2. \A m \in net' : PlainMsg(m)'
  BY <1>1, PlainMsgKept DEF PlainInv, Plain
<1>3. QED
  BY <1>2 DEF PlainInv, Plain

-----------------------------------------------------------------------------
\* The logs of peers that are candidates do not change.
LEMMA PlainLocal ==
  ASSUME PlainInv, TenureInv', Regular,
         UNCHANGED <<Log, LastIncludedIndex>>, net' \subseteq net,
         \A s \in Server : sending'[s] \subseteq sending[s]
  PROVE  PlainInv'
<1>1. \A m \in net' : m \in net \/ PlainMsg(m) \/ PlainMsg(m)'
  OBVIOUS
<1>2. QED
  BY <1>1, PlainStep

\* A reply says of its request what the request says.
LEMMA PlainReply ==
  ASSUME PlainInv, NEW m \in net, NEW r, r.args = m,
         \/ m.type = "RequestVote" /\ r.type = "RequestVoteReply"
         \/ m.type = "AppendEntries" /\ r.type = "AppendEntriesReply"
         \/ m.type = "InstallSnapShot" /\ r.type = "InstallSnapShotReply"
  PROVE  PlainMsg(r)
<1>1. PlainMsg(m)
  BY DEF PlainInv, Plain
<1>2. QED
  BY <1>1 DEF PlainMsg, Asks

LEMMA AttemptPlain ==
  ASSUME PlainInv, TenureInv', Regular, NEW s \in Server, AttemptElection(s)
  PROVE  PlainInv'
<1>1. TypeOK
  BY DEF PlainInv, TenureInv, MatchingInv, ElectionInv, IndInv
<1>2. UNCHANGED <<Log, LastIncludedIndex, sending>>
  BY DEF AttemptElection, logVars
<1>3. CurrentTerm'[s] = CurrentTerm[s] + 1 /\ disk'[s].CurrentTerm = CurrentTerm'[s]
  BY <1>1 DEF AttemptElection, persist, Save, EncodeRaftState, TypeOK
<1>4. CurrentTerm[s] + 1 <= disk'[s].CurrentTerm
  BY <1>1, <1>3, NextTerm, GeqSelf
<1>5. ASSUME NEW m \in net', m \notin net PROVE PlainMsg(m)'
  <2>1. /\ m.type = "RequestVote" /\ m.from = s /\ m.Term = CurrentTerm[s] + 1
        /\ m.LastLogIndex = GetLastLog(s).Index /\ m.LastLogTerm = GetLastLog(s).Term
    BY <1>5, CandidateAsks
  <2>2. Asks(m)'
    BY <1>2, <1>4, <2>1 DEF Asks, GetLastLog
  <2>3. QED
    BY <2>1, <2>2 DEF PlainMsg
<1>6. QED
  BY <1>2, <1>5, PlainStep

LEMMA HandlerPlain ==
  ASSUME PlainInv, TenureInv', Regular, NEW m \in net, HandleRequest(m)
  PROVE  PlainInv'
<1>1. TypeOK
  BY DEF PlainInv, TenureInv, MatchingInv, ElectionInv, IndInv
<1>2. ~(m.type = "InstallSnapShot" /\ InstallSnapShot(m))
  <2> SUFFICES ASSUME m.type = "InstallSnapShot", InstallSnapShot(m) PROVE FALSE
    OBVIOUS
  <2>1. m.to \in Server
    BY <1>1, MessageTypes DEF InstallSnapshotArgs
  <2>2. m.LastIncludedIndex = 0 /\ LastIncludedIndex[m.to] = 0
    BY <2>1 DEF PlainInv, Plain, PlainMsg
  <2>3. ~(0 > 0)
    OBVIOUS
  <2>4. QED
    BY <2>2, <2>3, ZenonT(60) DEF InstallSnapShot
<1>3. UNCHANGED <<LastIncludedIndex, sending>>
  BY <1>2 DEF HandleRequest, RequestVoteStale, RequestVoteRefuse, RequestVoteGrant,
              AppendEntriesStale, AppendEntriesReject, AppendEntriesAccept,
              InstallSnapShotStale, InstallSnapShotOld, logVars
<1>4. PICK r : Respond(m, r) /\ PlainMsg(r)
  <2>1. ASSUME m.type = "RequestVote", NEW t, NEW g PROVE PlainMsg(VoteReply(m, t, g))
    <3>1. VoteReply(m, t, g).args = m /\ VoteReply(m, t, g).type = "RequestVoteReply"
      BY DEF VoteReply
    <3>2. QED
      BY <2>1, <3>1, PlainReply
  <2>2. ASSUME m.type = "AppendEntries", NEW t, NEW x PROVE PlainMsg(EntriesReply(m, t, x))
    <3>1. EntriesReply(m, t, x).args = m /\ EntriesReply(m, t, x).type = "AppendEntriesReply"
      BY DEF EntriesReply
    <3>2. QED
      BY <2>2, <3>1, PlainReply
  <2>3. ASSUME m.type = "InstallSnapShot", NEW t PROVE PlainMsg(SnapShotReply(m, t))
    <3>1. SnapShotReply(m, t).args = m /\ SnapShotReply(m, t).type = "InstallSnapShotReply"
      BY DEF SnapShotReply
    <3>2. QED
      BY <2>3, <3>1, PlainReply
  <2>4. QED
    BY <1>2, <2>1, <2>2, <2>3
       DEF HandleRequest, RequestVoteStale, RequestVoteRefuse, RequestVoteGrant,
           AppendEntriesStale, AppendEntriesReject, AppendEntriesAccept,
           InstallSnapShotStale, InstallSnapShotOld
<1>5. net' \subseteq net \cup {r}
  BY <1>4, RespondAdds
<1>6. ASSUME NEW c \in Server, State[c] = Candidate, State'[c] = Candidate
      PROVE  Log'[c] = Log[c]
  <2>1. CASE UNCHANGED Log
    BY <2>1
  <2>2. CASE m.type = "AppendEntries" /\ AppendEntriesAccept(m)
    <3>1. m.to \in Server
      BY <1>1, <2>2, MessageTypes DEF AppendEntriesArgs
    <3>2. c # m.to
      BY <1>1, <1>6, <2>2, <3>1
         DEF AppendEntriesAccept, FollowTerm, TypeOK, Follower, Candidate
    <3>3. QED
      BY <1>1, <2>2, <3>1, <3>2 DEF AppendEntriesAccept, TypeOK
  <2>3. QED
    BY <1>2, <2>1, <2>2
       DEF HandleRequest, RequestVoteStale, RequestVoteRefuse, RequestVoteGrant,
           AppendEntriesStale, AppendEntriesReject,
           InstallSnapShotStale, InstallSnapShotOld, logVars
<1>7. \A x \in net' : x \in net \/ PlainMsg(x) \/ PlainMsg(x)'
  BY <1>4, <1>5
<1>8. QED
  BY <1>3, <1>6, <1>7, PlainStep

LEMMA CallPlain ==
  ASSUME PlainInv, TenureInv', Regular, NEW s \in Server,
         \/ \E p \in Server : BroadcastEntries(s, p) \/ PrepareSnapShot(s, p)
         \/ \E m \in sending[s] : sendSnapShot(s, m)
  PROVE  PlainInv'
<1>1. TypeOK
  BY DEF PlainInv, TenureInv, MatchingInv, ElectionInv, IndInv
<1>2. UNCHANGED <<Log, LastIncludedIndex>>
  BY DEF BroadcastEntries, PrepareSnapShot, sendSnapShot, logVars
<1>3. \A m \in net' : m \in net \/ PlainMsg(m)
  <2>1. ASSUME NEW p \in Server, BroadcastEntries(s, p)
        PROVE  \A m \in net' : m \in net \/ PlainMsg(m)
    <3>1. PICK call : net' \subseteq net \cup {call} /\ call.type = "AppendEntries"
      <4> DEFINE call ==
            [type |-> "AppendEntries", from |-> s, to |-> p, boot |-> boot[s],
             Term |-> CurrentTerm[s], PrevLogIndex |-> NextIndex[s][p] - 1,
             PrevLogTerm |-> GetLogEntry(s, NextIndex[s][p] - 1).Term,
             Entries |-> GetLogSlices(s, NextIndex[s][p], GetLastLog(s).Index + 1),
             LeaderCommit |-> CommitIndex[s]]
      <4>1. net' \subseteq net \cup {call}
        BY <2>1, SendAdds DEF BroadcastEntries
      <4>2. call.type = "AppendEntries"
        OBVIOUS
      <4> HIDE DEF call
      <4>3. QED
        BY <4>1, <4>2
    <3>2. PlainMsg(call)
      BY <3>1 DEF PlainMsg
    <3>3. QED
      BY <3>1, <3>2
  <2>2. ASSUME NEW m \in sending[s], sendSnapShot(s, m)
        PROVE  \A x \in net' : x \in net \/ PlainMsg(x)
    <3>1. net' \subseteq net \cup {m}
      BY <2>2, SendAdds DEF sendSnapShot
    <3>2. m.type = "InstallSnapShot" /\ m.LastIncludedIndex = 0
      <4>1. m \in InstallSnapshotArgs
        BY <1>1 DEF TypeOK
      <4>2. QED
        BY <4>1 DEF InstallSnapshotArgs, PlainInv, Plain
    <3>3. PlainMsg(m)
      BY <3>2 DEF PlainMsg
    <3>4. QED
      BY <3>1, <3>3
  <2>3. CASE UNCHANGED net
    BY <2>3
  <2>4. QED
    BY <2>1, <2>2, <2>3 DEF PrepareSnapShot
<1>4. ASSUME NEW q \in Server, NEW m \in sending'[q]
      PROVE  m \in sending[q] \/ m.LastIncludedIndex = 0
  <2>1. CASE \E p \in Server : PrepareSnapShot(s, p)
    <3>1. PICK p \in Server : PrepareSnapShot(s, p)
      BY <2>1
    <3> DEFINE call == [type |-> "InstallSnapShot", from |-> s, to |-> p, boot |-> boot[s],
                        Term |-> CurrentTerm[s], LastIncludedIndex |-> LastIncludedIndex[s],
                        LastIncludedTerm |-> LastIncludedTerm[s], Data |-> disk[s].snapshot]
    <3>2. sending' = [sending EXCEPT ![s] = @ \cup {call}]
      BY <3>1 DEF PrepareSnapShot
    <3>3. call.LastIncludedIndex = 0
      BY DEF PlainInv, Plain
    <3> HIDE DEF call
    <3>4. m \in sending[q] \/ m = call
      BY <1>1, <1>4, <3>2 DEF TypeOK
    <3>5. QED
      BY <3>3, <3>4
  <2>2. CASE UNCHANGED sending
    BY <2>2
  <2>3. CASE \E x \in sending[s] : sending' = [sending EXCEPT ![s] = @ \ {x}]
    BY <1>1, <2>3 DEF TypeOK
  <2>4. QED
    BY <2>1, <2>2, <2>3 DEF BroadcastEntries, sendSnapShot
<1>5. QED
  BY <1>2, <1>3, <1>4, PlainStep

LEMMA StartPlain ==
  ASSUME PlainInv, TenureInv', Regular, NEW s \in Server, NEW command \in Command,
         Start(s, command)
  PROVE  PlainInv'
<1>1. TypeOK
  BY DEF PlainInv, TenureInv, MatchingInv, ElectionInv, IndInv
<1>2. UNCHANGED <<LastIncludedIndex, sending, net>>
  BY DEF Start
<1>3. \A c \in Server : State[c] = Candidate => Log'[c] = Log[c]
  BY <1>1 DEF Start, TypeOK, Leader, Candidate
<1>4. \A m \in net' : m \in net \/ PlainMsg(m) \/ PlainMsg(m)'
  BY <1>2
<1>5. QED
  BY <1>2, <1>3, <1>4, PlainStep

LEMMA MakePlain ==
  ASSUME PlainInv, TenureInv', Regular, NEW s \in Server, Make(s)
  PROVE  PlainInv'
<1>1. IndInv /\ TypeOK
  BY DEF PlainInv, TenureInv, MatchingInv, ElectionInv, IndInv
<1>2. Log \in [Server -> Log0] /\ LastIncludedIndex \in [Server -> Nat]
  BY <1>1 DEF TypeOK
<1>3. disk[s].Log = Log[s] /\ disk[s].LastIncludedIndex = LastIncludedIndex[s]
  BY <1>1 DEF IndInv, LogIndexing
<1>4. UNCHANGED <<Log, LastIncludedIndex>>
  BY <1>2, <1>3 DEF Make, readPersist
<1>5. net' \subseteq net /\ \A q \in Server : sending'[q] \subseteq sending[q]
  BY <1>1 DEF Make, TypeOK
<1>6. QED
  BY <1>4, <1>5, PlainLocal

LEMMA InitPlain == Snapshotters = {} /\ Init => PlainInv
<1> SUFFICES ASSUME Snapshotters = {}, Init PROVE PlainInv
  OBVIOUS
<1>1. TenureInv
  BY InitTenure
<1>2. Plain
  BY DEF Init, Plain
<1>3. QED
  BY <1>1, <1>2 DEF PlainInv

\* The steps that only read the log, and add nothing to what is in flight.
LEMMA ReadingPlain ==
  ASSUME PlainInv, TenureInv', Regular,
         \/ UNCHANGED vars
         \/ \E s \in Server : \/ TickerTimeout(s)
                              \/ ApplierTakeSnapshot(s) \/ ApplierTakeEntries(s)
                              \/ ApplierSend(s) \/ ApplierDone(s)
                              \/ \E m \in sending[s] : sendSnapShotNotLeader(s, m)
         \/ \E m \in net : HandleReply(m)
  PROVE  PlainInv'
<1>1. TypeOK
  BY DEF PlainInv, TenureInv, MatchingInv, ElectionInv, IndInv
<1>2. CASE UNCHANGED vars
  <2>1. UNCHANGED <<Log, LastIncludedIndex, net, sending>>
    BY <1>2 DEF vars, logVars
  <2>2. QED
    BY <2>1, PlainLocal
<1>3. ASSUME NEW s \in Server,
             \/ TickerTimeout(s)
             \/ ApplierTakeSnapshot(s) \/ ApplierTakeEntries(s)
             \/ ApplierSend(s) \/ ApplierDone(s)
      PROVE  PlainInv'
  <2>1. UNCHANGED <<Log, LastIncludedIndex, net, sending>>
    BY <1>3 DEF TickerTimeout, ApplierTakeSnapshot, ApplierTakeEntries, ApplierSend,
                ApplierDone, logVars
  <2>2. QED
    BY <2>1, PlainLocal
<1>4. ASSUME NEW s \in Server, NEW m \in sending[s], sendSnapShotNotLeader(s, m)
      PROVE  PlainInv'
  <2>1. UNCHANGED <<Log, LastIncludedIndex, net>> /\ sending' = [sending EXCEPT ![s] = @ \ {m}]
    BY <1>4 DEF sendSnapShotNotLeader, logVars
  <2>2. \A q \in Server : sending'[q] \subseteq sending[q]
    BY <1>1, <2>1 DEF TypeOK
  <2>3. QED
    BY <2>1, <2>2, PlainLocal
<1>5. ASSUME NEW m \in net, HandleReply(m) PROVE PlainInv'
  <2>1. UNCHANGED <<Log, LastIncludedIndex, sending>> /\ Consume(m)
    BY <1>5 DEF HandleReply, VoteReplyIgnored, VoteReplyHigherTerm, VoteReplyGranted,
                ReplyOutdated, EntriesReplyHigherTerm, EntriesReplySuccess,
                EntriesReplyFailure, SnapShotReplyHigherTerm, SnapShotReplySuccess, logVars
  <2>2. net' \subseteq net
    BY <2>1, ConsumeAdds
  <2>3. QED
    BY <2>1, <2>2, PlainLocal
<1>6. QED
  BY <1>2, <1>3, <1>4, <1>5

LEMMA NextPlain ==
  ASSUME Counting
  PROVE  PlainInv /\ [Next]_vars => PlainInv'
<1> SUFFICES ASSUME PlainInv, [Next]_vars PROVE PlainInv'
  OBVIOUS
<1>1. TenureInv'
  BY NextTenure DEF PlainInv
<1>2. Regular
  BY NextRegular DEF PlainInv, TenureInv, MatchingInv, ElectionInv
<1>3. CASE UNCHANGED vars
  BY <1>1, <1>2, <1>3, ReadingPlain
<1>4. CASE Next
  <2>1. ASSUME NEW s \in Server, AttemptElection(s) PROVE PlainInv'
    BY <1>1, <1>2, <2>1, AttemptPlain
  <2>2. ASSUME NEW s \in Server, Make(s) PROVE PlainInv'
    BY <1>1, <1>2, <2>2, MakePlain
  <2>3. ASSUME NEW s \in Server, NEW c \in Command, Start(s, c) PROVE PlainInv'
    BY <1>1, <1>2, <2>3, StartPlain
  <2>4. ASSUME NEW s \in Server,
               \/ \E p \in Server : BroadcastEntries(s, p) \/ PrepareSnapShot(s, p)
               \/ \E m \in sending[s] : sendSnapShot(s, m)
        PROVE  PlainInv'
    BY <1>1, <1>2, <2>4, CallPlain
  <2>5. ASSUME NEW s \in Server,
               \/ TickerTimeout(s)
               \/ ApplierTakeSnapshot(s) \/ ApplierTakeEntries(s)
               \/ ApplierSend(s) \/ ApplierDone(s)
               \/ \E m \in sending[s] : sendSnapShotNotLeader(s, m)
        PROVE  PlainInv'
    BY <1>1, <1>2, <2>5, ReadingPlain
  <2>6. ASSUME NEW m \in net, HandleRequest(m) PROVE PlainInv'
    BY <1>1, <1>2, <2>6, HandlerPlain
  <2>7. ASSUME NEW m \in net, HandleReply(m) PROVE PlainInv'
    BY <1>1, <1>2, <2>7, ReadingPlain
  <2>8. ~\E s \in Snapshotters : Snapshot(s)
    BY DEF PlainInv, Plain
  <2>9. QED
    BY <1>4, <2>1, <2>2, <2>3, <2>4, <2>5, <2>6, <2>7, <2>8, ServerAssumption DEF Next
<1>5. QED
  BY <1>3, <1>4
=============================================================================
