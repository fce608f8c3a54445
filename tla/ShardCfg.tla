------------------------------ MODULE ShardCfg ------------------------------
(***************************************************************************)
(* shardkv1/shardcfg/shardcfg.go: a configuration assigns shards to groups *)
(* of servers.  JoinBalance and LeaveBalance change the groups and then    *)
(* rebalance; every round of the two loops of Rebalance is a step here.    *)
(* Groups are known by their gid, and have no server in common.            *)
(*                                                                         *)
(* A definition whose name ends in _Faulty is a wrong version of the one   *)
(* that follows it; no action uses it.                                     *)
(***************************************************************************)
EXTENDS Integers, Sequences, FiniteSets

CONSTANTS
  NShards,
  MaxGid,   \* bound: the groups that may join are 1 .. MaxGid
  MaxNum,   \* bound: no call is made on a configuration with this number
  MaxArgs   \* bound: groups that join or leave in one call

Shard == 0 .. NShards - 1
Gid == 1 .. MaxGid

ASSUME ShardAssumption ==
  /\ NShards \in Nat \ {0}
  /\ {MaxGid, MaxNum, MaxArgs} \subseteq Nat

VARIABLES
  Num, Shards, Groups,   \* the fields of ShardConfig
  pc,                    \* which loop of Rebalance is running, if any
  ok,                    \* what the last call returned, or will
  old                    \* Shards and Groups when that call was made, and
                         \* whether the one before it had succeeded

cfgVars == <<Num, Shards, Groups, pc, ok, old>>

-----------------------------------------------------------------------------
Count(g) == Cardinality({s \in Shard : Shards[s] = g})

\* analyze(): of several groups with as many shards, the one with the least gid.
Most ==
  CHOOSE g \in Groups : \A h \in Groups :
    Count(g) > Count(h) \/ (Count(g) = Count(h) /\ g <= h)

Least ==
  CHOOSE g \in Groups : \A h \in Groups :
    Count(g) < Count(h) \/ (Count(g) = Count(h) /\ g <= h)

First(S) == CHOOSE s \in S : \A t \in S : s <= t

\* MakeShardConfig()
CfgInit ==
  /\ Num = 0
  /\ Shards = [s \in Shard |-> 0]
  /\ Groups = {}
  /\ pc = "idle"
  /\ ok = TRUE
  /\ old = [Shards |-> Shards, Groups |-> Groups, ok |-> TRUE]

-----------------------------------------------------------------------------
Called == pc = "idle" /\ Num < MaxNum /\ old' = [Shards |-> Shards, Groups |-> Groups, ok |-> ok]

\* Join() and Leave() have changed the groups.
Changed ==
  /\ Num' = Num + 1
  /\ ok' = TRUE
  /\ pc' = "assign"
  /\ UNCHANGED Shards

\* They give up, and leave the groups as they are by then.
GivesUp ==
  /\ ok' = FALSE
  /\ UNCHANGED <<Num, pc, Shards>>

JoinBalance(S) ==
  /\ Called
  /\ S \cap Groups = {}
  /\ Groups' = Groups \cup S
  /\ Changed

\* A group has joined already: those that the range over the map has come to
\* before it stay.
ReJoin(S) ==
  /\ Called
  /\ S \cap Groups # {}
  /\ \E T \in SUBSET (S \ Groups) : Groups' = Groups \cup T
  /\ GivesUp

\* The positions of gids that name no group when Leave() comes to them.
NotIn(gids) ==
  {i \in DOMAIN gids : gids[i] \notin Groups \ {gids[j] : j \in 1 .. i - 1}}

LeaveBalance(gids) ==
  /\ Called
  /\ NotIn(gids) = {}
  /\ Groups' = Groups \ {gids[i] : i \in DOMAIN gids}
  /\ Changed

LeaveNotIn(gids) ==
  /\ Called
  /\ NotIn(gids) # {}
  /\ Groups' = Groups \ {gids[i] : i \in 1 .. First(NotIn(gids)) - 1}
  /\ GivesUp

-----------------------------------------------------------------------------
(***************************************************************************)
(* Rebalance()                                                             *)
(***************************************************************************)
\* Without groups, least() answers -1.
UnAssign_Faulty ==
  /\ pc = "assign" /\ Groups = {}
  /\ Shards' = [s \in Shard |-> -1]
  /\ pc' = "idle"
  /\ UNCHANGED <<Num, Groups, ok, old>>

UnAssign ==
  /\ pc = "assign" /\ Groups = {}
  /\ Shards' = [s \in Shard |-> 0]
  /\ pc' = "idle"
  /\ UNCHANGED <<Num, Groups, ok, old>>

Unassigned == {s \in Shard : Shards[s] \notin Groups}

\* It goes to the group with the most; the second loop makes up for it.
Assign_Faulty ==
  /\ pc = "assign" /\ Groups # {} /\ Unassigned # {}
  /\ Shards' = [Shards EXCEPT ![First(Unassigned)] = Most]
  /\ UNCHANGED <<Num, Groups, pc, ok, old>>

\* The first shard without a group goes to the group with the fewest.
Assign ==
  /\ pc = "assign" /\ Groups # {} /\ Unassigned # {}
  /\ Shards' = [Shards EXCEPT ![First(Unassigned)] = Least]
  /\ UNCHANGED <<Num, Groups, pc, ok, old>>

AllAssigned ==
  /\ pc = "assign" /\ Groups # {} /\ Unassigned = {}
  /\ pc' = "move"
  /\ UNCHANGED <<Num, Shards, Groups, ok, old>>

\* A difference of one is worked on.
Even_Faulty == Count(Most) < Count(Least) + 1

Even == Count(Most) < Count(Least) + 2

\* The first shard of the group with the most goes to the group with the fewest.
Move ==
  /\ pc = "move" /\ ~Even
  /\ Shards' = [Shards EXCEPT ![First({s \in Shard : Shards[s] = Most})] = Least]
  /\ UNCHANGED <<Num, Groups, pc, ok, old>>

\* The second loop is done as soon as every shard has a group.
Balanced_Faulty ==
  /\ pc = "move"
  /\ pc' = "idle"
  /\ UNCHANGED <<Num, Shards, Groups, ok, old>>

Balanced ==
  /\ pc = "move" /\ Even
  /\ pc' = "idle"
  /\ UNCHANGED <<Num, Shards, Groups, ok, old>>

Rebalance == UnAssign \/ Assign \/ AllAssigned \/ Move \/ Balanced

CfgNext ==
  \/ \E S \in SUBSET Gid \ {{}} :
       Cardinality(S) <= MaxArgs /\ (JoinBalance(S) \/ ReJoin(S))
  \/ \E n \in 1 .. MaxArgs : \E gids \in [1 .. n -> Gid] : LeaveBalance(gids) \/ LeaveNotIn(gids)
  \/ Rebalance

CfgSpec == CfgInit /\ [][CfgNext]_cfgVars

\* Rebalance is a loop that nothing interrupts.
FairSpec == CfgSpec /\ WF_cfgVars(Rebalance)

-----------------------------------------------------------------------------
CfgTypeOK ==
  /\ Num \in 0 .. MaxNum
  /\ Shards \in [Shard -> Gid \cup {0}]
  /\ Groups \in SUBSET Gid
  /\ pc \in {"idle", "assign", "move"}
  /\ ok \in BOOLEAN
  /\ old \in [Shards : [Shard -> Gid \cup {0}], Groups : SUBSET Gid, ok : BOOLEAN]

\* What CheckConfig() asks of a configuration: every shard has a group, and no
\* group has two shards more than another.
WellBalanced ==
  /\ Groups # {} => \A s \in Shard : Shards[s] \in Groups
  /\ \A g, h \in Groups : Count(g) <= Count(h) + 1

\* A call that returns true leaves a configuration that CheckConfig() accepts,
\* even when the calls before it gave up half way.
CheckConfig == (pc = "idle" /\ ok) => WellBalanced

\* Rebalance moves no shard needlessly: after calls that succeed, a shard has
\* changed hands only because its group left or the one that has it joined.
MovesAreNeeded ==
  (pc = "idle" /\ ok /\ old.ok) =>
    \A s \in Shard :
      Shards[s] # old.Shards[s] =>
        old.Shards[s] \notin Groups \/ Shards[s] \notin old.Groups

\* Rebalance terminates: its second loop does not move shards to and fro.
RebalanceEnds == (pc # "idle") ~> (pc = "idle")
=============================================================================
