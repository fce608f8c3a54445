----------------------------- MODULE MCRaftLoss -----------------------------
(***************************************************************************)
(* Raft narrowed to one family of behaviours, for a search that would be   *)
(* too wide otherwise: First leads term 1; Second is elected in term 2,    *)
(* after First has committed two entries; only Second is sent snapshots    *)
(* and its Applier is slow; heartbeats without entries are lost.           *)
(***************************************************************************)
EXTENDS Raft

CONSTANTS First, Second

Narrowed ==
  /\ \A s \in Server : State[s] # Follower =>
       \/ s = First /\ CurrentTerm[s] = 1 /\ votes[s] \subseteq {First, Second}
       \/ s = Second /\ CurrentTerm[s] = 2 /\ CommitIndex[First] = 2
  /\ \A s \in Server \ {First, Second} :
       CurrentTerm[s] < 2 => GetLastLog(s).Index < 2
  /\ applier[Second].busy => State[Second] = Leader
  /\ \A m \in net \cup sending[First] :
       /\ m.type = "AppendEntries" => m.Entries # <<>>
       /\ m.type = "InstallSnapShot" => m.to = Second
=============================================================================
