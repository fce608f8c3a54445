------------------------------- MODULE MCRaft -------------------------------
(***************************************************************************)
(* Raft for model checking of safety: peers that the constants do not tell *)
(* apart may be exchanged.                                                 *)
(***************************************************************************)
EXTENDS Raft, TLC

Symmetry ==
  {f \in Permutations(Server) :
     \A S \in {Candidates, Appliers, Snapshotters} : {f[s] : s \in S} = S}

\* The request that a message is or answers.
Request(m) == IF "args" \in DOMAIN m THEN m.args ELSE m

\* Two messages are in flight at once only between the leader of the last term
\* and the other candidate: replication calls and their replies overtake one
\* another there, and elections are as with one message.
Overtaking ==
  Cardinality(net) > 1 =>
    \A m \in net : /\ Request(m).type = "AppendEntries"
                   /\ Request(m).Term = MaxTerm
                   /\ Request(m).to \in Candidates

-----------------------------------------------------------------------------
(***************************************************************************)
(* Raft as one agreed log.  The mapping reads whole logs and the present   *)
(* CommitIndex of the peers: it is meant for instances without compaction  *)
(* and without restarts, which set CommitIndex back to zero.               *)
(***************************************************************************)
Committed(s) == SubSeq(Log[s], 2, CommitIndex[s] + 1)

Deliveries == [s \in Server |-> Committed(s)]

\* A peer that knows of as many committed entries as any.
Foremost == CHOOSE s \in Server : \A p \in Server : CommitIndex[p] <= CommitIndex[s]

Agreed == INSTANCE AgreedLog WITH delivered <- Deliveries, log <- Committed(Foremost)

\* "As each Raft peer becomes aware that successive log entries are committed"
\* (raftapi.go:22-23): what the peers' CommitIndex makes them deliver are
\* prefixes of one log that is only ever extended, whoever leads and whatever
\* calls are lost or overtaken.
ImplementsAgreedLog == Agreed!Spec
=============================================================================
