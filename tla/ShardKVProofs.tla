--------------------------- MODULE ShardKVProofs ----------------------------
(***************************************************************************)
(* The two halves of a sharded key/value service: the replicated store     *)
(* that a group of servers runs (KVRaft) and the configurations that       *)
(* assign shards to groups (ShardCfg).  They share no variable here, as    *)
(* the code that would join them is a skeleton.                            *)
(*                                                                         *)
(* For any clerks, servers, keys, values and bounds: the replicated store  *)
(* keeps its types, its replicas agree, and with its clerks it is a        *)
(* KVService.  For any number of shards and groups: a call that succeeds   *)
(* leaves a configuration that CheckConfig() accepts, and Rebalance()      *)
(* moves no shard that could stay.                                         *)
(***************************************************************************)
EXTENDS KVRaft, ShardCfg, FiniteSetTheorems, WellFoundedInduction, TLAPS

\* A leaf that names no prover is tried with Zenon and with the SMT solver, then
\* with both once more.
USE ZenonT(5), SMTT(60), Z3T(60), ZenonT(30)

-----------------------------------------------------------------------------
(***************************************************************************)
(* Types of the replicated store (KVRaft).                                 *)
(***************************************************************************)
LEMMA PutReplyType == \A err \in Errs : PutReply(err) \in Replies
BY KVRaftAssumption DEF PutReply, Replies, Errs

LEMMA NoReplyType == NoReply \in Replies
BY PutReplyType DEF NoReply, Errs

LEMMA EmptyType == EmptyMachine \in Machines
<1>1. /\ [k \in Key |-> Absent] \in [Key -> Value \cup {Absent}]
      /\ [k \in Key |-> 0] \in [Key -> Nat]
      /\ [c \in Clerk |-> -1] \in [Clerk -> Nat \cup {-1}]
      /\ [c \in Clerk |-> NoReply] \in [Clerk -> Replies]
  BY NoReplyType
<1>2. QED
  BY <1>1 DEF EmptyMachine, Machines

LEMMA ReplyType ==
  ASSUME NEW m \in Machines, NEW req \in Requests
  PROVE  Reply(m, req) \in Replies
<1>1. /\ req.Key \in Key /\ req.ClientId \in Clerk
      /\ m.KeyValue \in [Key -> Value \cup {Absent}] /\ m.KeyVersion \in [Key -> Nat]
      /\ m.lastReply \in [Clerk -> Replies]
  BY DEF Requests, Machines
<1>2. PutReply("ErrNoKey") \in Replies /\ PutReply(PutErr(m, req)) \in Replies
  BY PutReplyType DEF Errs, PutErr
<1>3. GetReply(m, req.Key) \in Replies
  <2>1. CASE m.KeyValue[req.Key] = Absent
    BY <1>2, <2>1 DEF GetReply
  <2>2. CASE m.KeyValue[req.Key] # Absent
    <3>1. m.KeyValue[req.Key] \in Value /\ m.KeyVersion[req.Key] \in Nat
      BY <1>1, <2>2
    <3>2. QED
      BY <2>2, <3>1 DEF GetReply, Replies, Errs
  <2>3. QED
    BY <2>1, <2>2
<1>4. m.lastReply[req.ClientId] \in Replies
  BY <1>1
<1>5. QED
  BY <1>2, <1>3, <1>4 DEF Reply

LEMMA DoOpType ==
  ASSUME NEW m \in Machines, NEW req \in Requests
  PROVE  DoOp(m, req) \in Machines
<1>1. /\ req.Key \in Key /\ req.ClientId \in Clerk /\ req.Value \in Value
      /\ req.Version \in Nat /\ req.RequestId \in Nat /\ req.Version + 1 \in Nat
  BY DEF Requests
<1>2. Reply(m, req) \in Replies
  BY ReplyType
<1> DEFINE noted == [m EXCEPT !.lastRequest[req.ClientId] = req.RequestId,
                              !.lastReply[req.ClientId] = Reply(m, req)]
<1>3. noted \in Machines
  BY <1>1, <1>2 DEF Machines
<1>4. [noted EXCEPT !.KeyValue[req.Key] = req.Value,
                    !.KeyVersion[req.Key] = req.Version + 1] \in Machines
  <2> HIDE DEF noted
  <2>1. QED
    BY <1>1, <1>3 DEF Machines
<1>5. QED
  BY <1>3, <1>4 DEF DoOp

LEMMA InitTypes == Init => TypeOK
<1> SUFFICES ASSUME Init PROVE TypeOK
  OBVIOUS
<1>1. NoReply \in Replies /\ EmptyMachine \in Machines /\ 0 \in Server
  BY NoReplyType, EmptyType, KVRaftAssumption DEF Server
<1>2. log \in Seq(Operations) /\ Len(log) = 0
  BY DEF Init
<1>3. clerk \in [Clerk -> Calls] /\ \A c \in Clerk : clerk[c].at = "returned"
  BY <1>1 DEF Init, Calls
<1>4. snap \in [Server -> [index : 0 .. Len(log), machine : Machines]]
  BY <1>1, <1>2 DEF Init
<1>5. QED
  BY <1>1, <1>2, <1>3, <1>4 DEF Init, TypeOK

\* What TypeOK says of one clerk.
LEMMA ClerkType ==
  ASSUME TypeOK, NEW c \in Clerk
  PROVE  /\ clerk[c] \in Calls
         /\ clerk[c].leaderId \in Server /\ clerk[c].serverId \in Server
         /\ clerk[c].requestId \in Nat /\ clerk[c].id \in Nat /\ clerk[c].term \in Nat
         /\ clerk[c].args \in Requests \cup {NoCall} /\ clerk[c].reply \in Replies
         /\ clerk[c].at # "returned" => /\ clerk[c].args \in Requests
                                        /\ clerk[c].args.ClientId = c
BY DEF TypeOK, Calls

\* The next server a clerk turns to is one.
LEMMA TryNextType ==
  ASSUME TypeOK, NEW c \in Clerk, clerk[c].at # "returned"
  PROVE  /\ TryNext(c) \in Calls /\ TryNext(c).at = "sent"
         /\ TryNext(c).args \in Requests /\ TryNext(c).args.ClientId = c
<1>1. /\ clerk[c] \in Calls /\ clerk[c].serverId \in 0 .. N - 1
      /\ clerk[c].args \in Requests /\ clerk[c].args.ClientId = c
  BY ClerkType DEF Server
<1>2. (clerk[c].serverId + 1) % N \in Server
  <2>1. clerk[c].serverId + 1 \in Nat /\ N \in Nat /\ N > 0
    BY <1>1, KVRaftAssumption
  <2> DEFINE x == clerk[c].serverId + 1
  <2> HIDE DEF x
  <2>2. x % N \in 0 .. N - 1
    BY <2>1 DEF x
  <2>3. QED
    BY <2>2 DEF x, Server
<1>3. NoReply \in Replies
  BY NoReplyType
<1> DEFINE y == (clerk[c].serverId + 1) % N
<1>4. TryNext(c) = [clerk[c] EXCEPT !.at = "sent", !.serverId = y,
                                    !.id = 0, !.term = 0, !.reply = NoReply]
  BY DEF TryNext
<1>5. y \in Server
  BY <1>2
<1> HIDE DEF y
<1>6. [clerk[c] EXCEPT !.at = "sent", !.serverId = y, !.id = 0, !.term = 0,
                       !.reply = NoReply] \in Calls
  BY <1>1, <1>3, <1>5 DEF Calls
<1>7. TryNext(c).at = "sent" /\ TryNext(c).args = clerk[c].args
  BY <1>1, <1>4 DEF Calls
<1>8. QED
  BY <1>1, <1>4, <1>6, <1>7

\* A step that replaces one call, and hands over an operation at most.
LEMMA CallReplaced ==
  ASSUME TypeOK, NEW c \in Clerk, NEW r \in Calls,
         r.at # "returned" => r.args \in Requests /\ r.args.ClientId = c,
         clerk' = [clerk EXCEPT ![c] = r]
  PROVE  /\ clerk' \in [Clerk -> Calls]
         /\ \A d \in Clerk : clerk'[d].at # "returned" =>
              clerk'[d].args \in Requests /\ clerk'[d].args.ClientId = d
BY DEF TypeOK

LEMMA OneCall ==
  ASSUME TypeOK, NEW c \in Clerk, NEW r \in Calls,
         r.at # "returned" => r.args \in Requests /\ r.args.ClientId = c,
         clerk' = [clerk EXCEPT ![c] = r],
         UNCHANGED <<raftVars, serverVars, ops, history>>
  PROVE  TypeOK'
<1>1. /\ clerk' \in [Clerk -> Calls]
      /\ \A d \in Clerk : clerk'[d].at # "returned" =>
           clerk'[d].args \in Requests /\ clerk'[d].args.ClientId = d
  BY CallReplaced
<1>2. QED
  BY <1>1 DEF TypeOK, raftVars, serverVars, history

\* The steps of a clerk and of the Submit() that works for it.
LEMMA ClerkTypes ==
  ASSUME TypeOK, NEW c \in Clerk,
         \/ CallFails(c) \/ WrongLeader(c) \/ Return(c) \/ SubmitNotLeader(c)
         \/ SubmitLostTerm(c) \/ SubmitTimeOut(c) \/ SubmitResult(c)
  PROVE  TypeOK'
<1>1. /\ clerk[c] \in Calls /\ clerk[c].serverId \in Server
      /\ clerk[c].at # "returned" => /\ clerk[c].args \in Requests
                                     /\ clerk[c].args.ClientId = c
  BY ClerkType
<1>2. PutReply("ErrWrongLeader") \in Replies /\ PutReply("ErrTimeOut") \in Replies
  BY PutReplyType DEF Errs
<1>3. UNCHANGED <<raftVars, serverVars, ops, history>>
  BY DEF CallFails, WrongLeader, Return, SubmitNotLeader, SubmitLostTerm, SubmitTimeOut,
         SubmitResult
<1>4. CASE CallFails(c) \/ WrongLeader(c)
  <2>1. clerk[c].at # "returned" /\ clerk' = [clerk EXCEPT ![c] = TryNext(c)]
    BY <1>4 DEF CallFails, WrongLeader
  <2>2. QED
    BY <1>3, <2>1, TryNextType, OneCall
<1>5. CASE Return(c)
  <2> DEFINE r == [clerk[c] EXCEPT !.at = "returned", !.leaderId = clerk[c].serverId]
  <2>1. r \in Calls /\ r.at = "returned"
    BY <1>1 DEF Calls
  <2>2. clerk' = [clerk EXCEPT ![c] = r]
    BY <1>5 DEF Return, TypeOK
  <2> HIDE DEF r
  <2>3. QED
    BY <1>3, <2>1, <2>2, OneCall
<1>6. CASE SubmitNotLeader(c) \/ SubmitLostTerm(c) \/ SubmitTimeOut(c)
  <2>1. clerk[c].at # "returned"
    BY <1>6 DEF SubmitNotLeader, SubmitLostTerm, SubmitTimeOut
  <2>2. PICK reply \in Replies :
             clerk' = [clerk EXCEPT ![c].at = "replied", ![c].reply = reply]
    BY <1>2, <1>6 DEF SubmitNotLeader, SubmitLostTerm, SubmitTimeOut
  <2> DEFINE r == [clerk[c] EXCEPT !.at = "replied", !.reply = reply]
  <2>3. r \in Calls /\ r.args = clerk[c].args
    BY <1>1 DEF Calls
  <2>4. clerk' = [clerk EXCEPT ![c] = r]
    BY <2>2 DEF TypeOK
  <2> HIDE DEF r
  <2>5. QED
    BY <1>1, <1>3, <2>1, <2>3, <2>4, OneCall
<1>7. CASE SubmitResult(c)
  <2> DEFINE r == [clerk[c] EXCEPT !.at = "replied"]
  <2>1. r \in Calls /\ r.args = clerk[c].args
    BY <1>1 DEF Calls
  <2>2. clerk[c].at # "returned" /\ clerk' = [clerk EXCEPT ![c] = r]
    BY <1>7 DEF SubmitResult, TypeOK
  <2> HIDE DEF r
  <2>3. QED
    BY <1>1, <1>3, <2>1, <2>2, OneCall
<1>8. QED
  BY <1>4, <1>5, <1>6, <1>7

LEMMA CallTypes ==
  ASSUME TypeOK, NEW c \in Clerk, NEW op \in {"Get", "Put"}, NEW k \in Key,
         NEW v \in Value, NEW version \in Nat, Call(c, op, k, v, version)
  PROVE  TypeOK'
<1> DEFINE args == [op |-> op, Key |-> k, Value |-> v, Version |-> version,
                    ClientId |-> c, RequestId |-> clerk[c].requestId]
           r == [at |-> "sent", leaderId |-> clerk[c].leaderId,
                 serverId |-> clerk[c].leaderId, requestId |-> clerk[c].requestId + 1,
                 id |-> 0, term |-> 0, args |-> args, reply |-> NoReply]
<1>1. args \in Requests /\ args.ClientId = c
  BY ClerkType DEF Requests
<1> HIDE DEF args
<1>2. r \in Calls /\ r.args = args
  BY <1>1, ClerkType, NoReplyType DEF Calls
<1>3. clerk' = [clerk EXCEPT ![c] = r]
  BY DEF Call, TypeOK, args
<1> HIDE DEF r
<1>4. /\ clerk' \in [Clerk -> Calls]
      /\ \A d \in Clerk : clerk'[d].at # "returned" =>
           clerk'[d].args \in Requests /\ clerk'[d].args.ClientId = d
  BY <1>1, <1>2, <1>3, CallReplaced
<1>5. seen' \in [Clerk -> SUBSET Replies] /\ performed' \in [Clerk -> Nat]
  BY DEF Call, TypeOK
<1>6. QED
  BY <1>4, <1>5 DEF Call, TypeOK, raftVars, serverVars

LEMMA SubmitTypes ==
  ASSUME TypeOK, NEW c \in Clerk, Submit(c)
  PROVE  TypeOK'
<1> DEFINE s == clerk[c].serverId
           r == [clerk[c] EXCEPT !.at = "waiting", !.id = ops + 1, !.term = term[s]]
           op == [Id |-> ops + 1, Me |-> s, Req |-> clerk[c].args]
<1>1. /\ clerk[c] \in Calls /\ s \in Server /\ term[s] \in Nat /\ ops + 1 \in Nat
      /\ clerk[c].args \in Requests /\ clerk[c].args.ClientId = c
  BY ClerkType DEF Submit, TypeOK
<1> HIDE DEF s
<1>2. op \in Operations
  BY <1>1 DEF Operations
<1>3. r \in Calls /\ r.args = clerk[c].args
  BY <1>1 DEF Calls
<1>4. clerk' = [clerk EXCEPT ![c] = r] /\ pending' = pending \cup {op} /\ ops' = ops + 1
  BY DEF Submit, TypeOK, s
<1> HIDE DEF r, op
<1>5. /\ clerk' \in [Clerk -> Calls]
      /\ \A d \in Clerk : clerk'[d].at # "returned" =>
           clerk'[d].args \in Requests /\ clerk'[d].args.ClientId = d
  BY <1>1, <1>3, <1>4, CallReplaced
<1>6. QED
  BY <1>1, <1>2, <1>4, <1>5 DEF Submit, TypeOK, serverVars, history

LEMMA ReaderTypes ==
  ASSUME TypeOK, NEW s \in Server, Reader(s)
  PROVE  TypeOK'
<1> DEFINE op == log[applied[s] + 1]
           m == DoOp(kv[s], op.Req)
<1>1. applied[s] \in 0 .. Len(log) /\ applied[s] + 1 \in 1 .. Len(log) /\ Len(log) \in Nat
  <2>1. applied[s] < Len(log)
    BY DEF Reader
  <2>2. applied[s] \in 0 .. Len(log) /\ Len(log) \in Nat
    BY DEF TypeOK
  <2>3. QED
    BY <2>1, <2>2
<1>2. op \in Operations
  BY <1>1 DEF TypeOK
<1>3. op.Req \in Requests
  BY <1>2 DEF Operations
<1> HIDE DEF op
<1>4. kv[s] \in Machines
  BY DEF TypeOK
<1>5. m \in Machines /\ Reply(kv[s], op.Req) \in Replies
  BY <1>3, <1>4, DoOpType, ReplyType
<1>6. kv' = [kv EXCEPT ![s] = m] /\ applied' = [applied EXCEPT ![s] = applied[s] + 1]
  BY DEF Reader, op
<1>7. \/ snap' = snap
      \/ snap' = [snap EXCEPT ![s] = [index |-> applied[s] + 1, machine |-> m]]
  BY ZenonT(60) DEF Reader, Snapshot, op
<1>8. clerk' = [c \in Clerk |->
        IF c \in Waiting(s, op)
          THEN [clerk[c] EXCEPT !.at = "notified", !.reply = Reply(kv[s], op.Req)]
          ELSE clerk[c]]
  BY DEF Reader, op
<1>9. UNCHANGED <<raftVars, restarts, ops, history>>
  BY DEF Reader
<1> HIDE DEF m
<1>10. kv' \in [Server -> Machines] /\ applied' \in [Server -> 0 .. Len(log)]
  BY <1>1, <1>5, <1>6 DEF TypeOK
<1>11. snap' \in [Server -> [index : 0 .. Len(log), machine : Machines]]
  <2>1. [index |-> applied[s] + 1, machine |-> m] \in [index : 0 .. Len(log), machine : Machines]
    BY <1>1, <1>5
  <2>2. QED
    BY <1>7, <2>1 DEF TypeOK
<1>12. ASSUME NEW c \in Clerk
      PROVE  /\ clerk'[c] \in Calls
             /\ clerk'[c].at # "returned" => /\ clerk'[c].args \in Requests
                                             /\ clerk'[c].args.ClientId = c
  <2>1. clerk[c] \in Calls /\ (clerk[c].at # "returned" => /\ clerk[c].args \in Requests
                                                           /\ clerk[c].args.ClientId = c)
    BY ClerkType
  <2>2. CASE c \in Waiting(s, op)
    <3> DEFINE r == [clerk[c] EXCEPT !.at = "notified", !.reply = Reply(kv[s], op.Req)]
    <3>1. clerk'[c] = r /\ clerk[c].at # "returned"
      BY <1>8, <2>2 DEF Waiting
    <3>2. r \in Calls /\ r.args = clerk[c].args
      BY <1>5, <2>1 DEF Calls
    <3> HIDE DEF r
    <3>3. QED
      BY <2>1, <3>1, <3>2
  <2>3. CASE c \notin Waiting(s, op)
    BY <1>8, <2>1, <2>3
  <2>4. QED
    BY <2>2, <2>3
<1>13. clerk' \in [Clerk -> Calls]
  BY <1>8, <1>12
<1>14. QED
  BY <1>9, <1>10, <1>11, <1>12, <1>13 DEF TypeOK, raftVars, history

LEMMA RestoreTypes ==
  ASSUME TypeOK, NEW s \in Server, NEW p \in Server, Restore(s, p)
  PROVE  TypeOK'
<1>1. /\ snap[p] \in [index : 0 .. Len(log), machine : Machines]
      /\ snap[p].index \in 0 .. Len(log) /\ snap[p].machine \in Machines
  BY DEF TypeOK
<1>2. /\ kv' \in [Server -> Machines] /\ applied' \in [Server -> 0 .. Len(log)]
      /\ snap' \in [Server -> [index : 0 .. Len(log), machine : Machines]]
  BY <1>1 DEF Restore, TypeOK
<1>3. QED
  BY <1>2 DEF Restore, TypeOK, raftVars, history

LEMMA StartTypes ==
  ASSUME TypeOK, NEW s \in Server, StartKVServer(s)
  PROVE  TypeOK'
<1>1. snap[s].index \in 0 .. Len(log) /\ snap[s].machine \in Machines
  BY DEF TypeOK
<1>2. /\ kv' \in [Server -> Machines] /\ applied' \in [Server -> 0 .. Len(log)]
      /\ term' \in [Server -> Nat] /\ restarts' \in Nat
  BY <1>1 DEF StartKVServer, TypeOK
<1>3. ASSUME NEW c \in Clerk
      PROVE  /\ clerk'[c] \in Calls
             /\ clerk'[c].at # "returned" => /\ clerk'[c].args \in Requests
                                             /\ clerk'[c].args.ClientId = c
  <2>1. clerk'[c] = IF clerk[c].at \in {"waiting", "notified"} /\ clerk[c].serverId = s
                      THEN TryNext(c) ELSE clerk[c]
    BY DEF StartKVServer
  <2>2. CASE clerk[c].at \in {"waiting", "notified"} /\ clerk[c].serverId = s
    BY <2>1, <2>2, TryNextType
  <2>3. CASE ~(clerk[c].at \in {"waiting", "notified"} /\ clerk[c].serverId = s)
    BY <2>1, <2>3, ClerkType
  <2>4. QED
    BY <2>2, <2>3
<1>4. clerk' \in [Clerk -> Calls]
  BY <1>3 DEF StartKVServer
<1>5. QED
  BY <1>2, <1>3, <1>4 DEF StartKVServer, TypeOK, history

LEMMA RaftTypes ==
  ASSUME TypeOK, NEW s \in Server, Elect(s) \/ StepDown(s)
  PROVE  TypeOK'
<1>1. term \in [Server -> Nat] /\ lastTerm \in Nat /\ lastTerm + 1 \in Nat
  BY DEF TypeOK
<1>2. UNCHANGED <<clerk, pending, log, kv, applied, snap, restarts, ops, committed, seen, performed>>
  BY DEF Elect, StepDown, serverVars, history
<1>3. \E n \in Nat : term' = [term EXCEPT ![s] = n]
  BY <1>1 DEF Elect, StepDown
<1>4. term' \in [Server -> Nat]
  BY <1>1, <1>3
<1>5. lastTerm' \in Nat
  BY <1>1 DEF Elect, StepDown
<1>6. QED
  BY <1>2, <1>4, <1>5 DEF TypeOK

LEMMA CommitTypes ==
  ASSUME TypeOK, NEW op \in pending, Commit(op)
  PROVE  TypeOK'
<1>1. op \in Operations /\ op.Req \in Requests /\ op.Req.ClientId \in Clerk
  BY DEF TypeOK, Operations, Requests
<1>2. log' = Append(log, op) /\ log \in Seq(Operations)
  BY DEF Commit, TypeOK
<1>3. log' \in Seq(Operations) /\ Len(log') = Len(log) + 1 /\ Len(log) \in Nat
  BY <1>1, <1>2
<1>4. committed' \in Machines /\ Reply(committed, op.Req) \in Replies
  BY <1>1, DoOpType, ReplyType DEF Commit, TypeOK
<1>5. seen' \in [Clerk -> SUBSET Replies] /\ performed' \in [Clerk -> Nat]
  BY <1>1, <1>4 DEF Commit, TypeOK
<1>6. applied \in [Server -> 0 .. Len(log')]
  BY <1>3 DEF TypeOK
<1>7. snap \in [Server -> [index : 0 .. Len(log'), machine : Machines]]
  <2>1. 0 .. Len(log) \subseteq 0 .. Len(log')
    BY <1>3
  <2>2. QED
    BY <2>1 DEF TypeOK
<1>8. pending' \in SUBSET Operations
  BY DEF Commit, TypeOK
<1>9. UNCHANGED <<clerk, term, lastTerm, kv, applied, snap, restarts, ops>>
  BY DEF Commit, serverVars
<1>10. QED
  BY <1>3, <1>4, <1>5, <1>6, <1>7, <1>8, <1>9 DEF TypeOK

LEMMA NextTypes == TypeOK /\ [Next]_vars => TypeOK'
<1> SUFFICES ASSUME TypeOK, [Next]_vars PROVE TypeOK'
  OBVIOUS
<1>1. ASSUME NEW c \in Clerk, NEW k \in Key, Get(c, k) PROVE TypeOK'
  <2>1. Empty \in Value
    BY KVRaftAssumption
  <2>2. QED
    BY <1>1, <2>1, CallTypes DEF Get
<1>2. ASSUME NEW c \in Clerk, NEW k \in Key, NEW v \in Value,
             NEW version \in 0 .. MaxVersion - 1, Put(c, k, v, version)
      PROVE  TypeOK'
  <2>1. version \in Nat
    OBVIOUS
  <2>2. QED
    BY <1>2, <2>1, CallTypes DEF Put
<1>3. CASE UNCHANGED vars
  BY <1>3 DEF TypeOK, vars, raftVars, serverVars, history
<1>4. QED
  BY <1>1, <1>2, <1>3, ClerkTypes, SubmitTypes, ReaderTypes, RestoreTypes, StartTypes,
     RaftTypes, CommitTypes DEF Next

\* The clerks and the servers keep their types; in particular a clerk that
\* turns to the next server turns to one there is, and applied and snapshot
\* indices stay within the log.
THEOREM ServiceTypes == Spec => []TypeOK
BY InitTypes, NextTypes, PTL DEF Spec

-----------------------------------------------------------------------------
(***************************************************************************)
(* Replicas.  A server's state machine, and the one in its snapshot, is    *)
(* what the log makes of the empty one.                                    *)
(***************************************************************************)
\* H[i] is the state machine after the first i operations of the log; every
\* server and every snapshot has one of them.
Replays(H) ==
  /\ H[0] = EmptyMachine
  /\ \A i \in 1 .. Len(log) : H[i] = DoOp(H[i - 1], log[i].Req)
  /\ committed = H[Len(log)]
  /\ \A s \in Server : kv[s] = H[applied[s]] /\ snap[s].machine = H[snap[s].index]

LEMMA ReaderReplays ==
  ASSUME TypeOK, NEW H, Replays(H), NEW s \in Server, Reader(s)
  PROVE  Replays(H)'
<1>1. applied[s] \in Nat /\ applied[s] + 1 \in 1 .. Len(log)
  <2>1. applied[s] < Len(log)
    BY DEF Reader
  <2>2. applied[s] \in 0 .. Len(log) /\ Len(log) \in Nat
    BY DEF TypeOK
  <2>3. QED
    BY <2>1, <2>2
<1>2. H[applied[s] + 1] = DoOp(kv[s], log[applied[s] + 1].Req)
  <2>1. (applied[s] + 1) - 1 = applied[s]
    BY <1>1
  <2>2. QED
    BY <1>1, <2>1 DEF Replays
<1> DEFINE m == DoOp(kv[s], log[applied[s] + 1].Req)
<1>3. kv' = [kv EXCEPT ![s] = m] /\ applied' = [applied EXCEPT ![s] = applied[s] + 1]
  BY DEF Reader
<1>4. \/ snap' = snap
      \/ snap' = [snap EXCEPT ![s] = [index |-> applied[s] + 1, machine |-> m]]
  BY ZenonT(60) DEF Reader, Snapshot
<1>5. log' = log /\ committed' = committed
  BY DEF Reader, raftVars, history
<1>6. m = H[applied[s] + 1]
  BY <1>2
<1> HIDE DEF m
<1>7. ASSUME NEW p \in Server
      PROVE  kv'[p] = H[applied'[p]] /\ snap'[p].machine = H[snap'[p].index]
  <2>1. kv'[p] = H[applied'[p]]
    BY <1>3, <1>6 DEF Replays, TypeOK
  <2>2. snap'[p].machine = H[snap'[p].index]
    <3>1. CASE snap' = snap
      BY <3>1 DEF Replays
    <3>2. CASE snap' = [snap EXCEPT ![s] = [index |-> applied[s] + 1, machine |-> m]]
      <4>1. snap'[p] = IF p = s THEN [index |-> applied[s] + 1, machine |-> m] ELSE snap[p]
        BY <3>2 DEF TypeOK
      <4>2. QED
        BY <1>6, <4>1 DEF Replays
    <3>3. QED
      BY <1>4, <3>1, <3>2
  <2>3. QED
    BY <2>1, <2>2
<1>8. QED
  BY <1>5, <1>7 DEF Replays

LEMMA CommitReplays ==
  ASSUME TypeOK, NEW H, Replays(H), NEW op \in pending, Commit(op)
  PROVE  \E G : Replays(G)' /\ \A i \in 0 .. Len(log) : G[i] = H[i]
<1> DEFINE n == Len(log)
<1>1. n \in Nat /\ log \in Seq(Operations) /\ op \in Operations
  BY DEF TypeOK
<1>2. /\ log' = Append(log, op) /\ committed' = DoOp(committed, op.Req)
      /\ UNCHANGED <<kv, applied, snap>>
  BY DEF Commit, serverVars
<1>3. /\ Len(log') = n + 1 /\ log'[n + 1] = op
      /\ \A i \in 1 .. n : log'[i] = log[i]
  BY <1>1, <1>2
<1>4. PICK G : /\ \A i \in 0 .. n : G[i] = H[i]
               /\ G[n + 1] = DoOp(committed, op.Req)
  <2> DEFINE F == [i \in 0 .. n + 1 |->
                     IF i = n + 1 THEN DoOp(committed, op.Req) ELSE H[i]]
  <2>1. (\A i \in 0 .. n : F[i] = H[i]) /\ F[n + 1] = DoOp(committed, op.Req)
    BY <1>1
  <2>2. QED
    BY <2>1
<1> HIDE DEF n
<1>5. G[0] = EmptyMachine
  BY <1>1, <1>4 DEF Replays
<1>6. ASSUME NEW i \in 1 .. n + 1 PROVE G[i] = DoOp(G[i - 1], log'[i].Req)
  <2>1. CASE i = n + 1
    <3>1. i - 1 = n /\ n \in 0 .. n
      BY <1>1, <2>1
    <3>2. G[i - 1] = committed
      BY <1>4, <3>1 DEF Replays, n
    <3>3. QED
      BY <1>3, <1>4, <2>1, <3>2
  <2>2. CASE i # n + 1
    <3>1. i \in 1 .. n /\ i \in 0 .. n /\ i - 1 \in 0 .. n
      BY <1>1, <2>2
    <3>2. QED
      BY <1>3, <1>4, <3>1 DEF Replays, n
  <2>3. QED
    BY <2>1, <2>2
<1>7. ASSUME NEW s \in Server
      PROVE  kv'[s] = G[applied'[s]] /\ snap'[s].machine = G[snap'[s].index]
  <2>1. applied[s] \in 0 .. n /\ snap[s].index \in 0 .. n
    BY DEF TypeOK, n
  <2>2. QED
    BY <1>2, <1>4, <2>1 DEF Replays
<1>8. Replays(G)'
  BY <1>2, <1>3, <1>4, <1>5, <1>6, <1>7 DEF Replays
<1>9. QED
  BY <1>4, <1>8 DEF n

LEMMA OthersReplay ==
  ASSUME TypeOK, NEW H, Replays(H), NEW s \in Server,
         StartKVServer(s) \/ \E p \in Server : Restore(s, p)
  PROVE  Replays(H)'
<1>1. CASE StartKVServer(s)
  BY <1>1 DEF StartKVServer, Replays, TypeOK, history
<1>2. ASSUME NEW p \in Server, Restore(s, p) PROVE Replays(H)'
  BY <1>2 DEF Restore, Replays, TypeOK, raftVars, history
<1>3. QED
  BY <1>1, <1>2

-----------------------------------------------------------------------------
(***************************************************************************)
(* Answers are true.  The refinement needs to know that whatever answer    *)
(* reaches a clerk is one that the log gives to its current request, that  *)
(* the table of requests tells whether a Put has taken effect, and that an *)
(* operation that is committed late is a Get, a copy that the table        *)
(* refuses, or the current request of its clerk.                           *)
(***************************************************************************)
\* The request r is the one that clerk c waits for.
Current(c, r) == clerk[c].at # "returned" /\ clerk[c].args = r

\* The request of an operation is one that its clerk has made; a call that waits
\* for the operation has handed it over.
Issued(op) ==
  /\ op.Id <= ops
  /\ op.Req.RequestId < clerk[op.Req.ClientId].requestId
  /\ \A c \in Clerk :
       clerk[c].at = "waiting" /\ clerk[c].id = op.Id => clerk[c].args = op.Req

\* An operation that is still to be committed is the current request of its
\* clerk, a Get, or a Put that the table has.
Settled(op) ==
  \/ Current(op.Req.ClientId, op.Req)
  \/ op.Req.op = "Get"
  \/ op.Req.RequestId <= committed.lastRequest[op.Req.ClientId]

\* A Put that is not in the table has had no effect and no answer; one that is
\* has had the answer that the table holds, and effect if that is OK.
Tabled(c) ==
  IF committed.lastRequest[c] < clerk[c].args.RequestId
    THEN seen[c] = {} /\ performed[c] = 0
    ELSE /\ seen[c] = {committed.lastReply[c]}
         /\ committed.lastReply[c].Err = "OK" <=> performed[c] > 0

\* A result of Reader() is on its way to the clerk or has reached it.
Answered(c) ==
  \/ clerk[c].at = "notified"
  \/ clerk[c].at = "replied" /\ clerk[c].reply.Err \notin {"ErrWrongLeader", "ErrTimeOut"}

\* What is true of a call; requests are numbered, and the last one is open.
CallTrue(c) ==
  /\ committed.lastRequest[c] < clerk[c].requestId
  /\ clerk[c].id <= ops
  /\ clerk[c].at # "returned" => clerk[c].args.RequestId + 1 = clerk[c].requestId
  /\ clerk[c].at # "returned" /\ clerk[c].args.op = "Put" => Tabled(c)
  /\ Answered(c) => clerk[c].reply \in seen[c]

\* What the log answers to the current request of a clerk has been seen.
AnswersSeen(H) ==
  \A i \in 1 .. Len(log), c \in Clerk :
    Current(c, log[i].Req) => Reply(H[i - 1], log[i].Req) \in seen[c]

\* The inductive invariant.
TruthInv ==
  /\ TypeOK
  /\ \A k \in Key : committed.KeyValue[k] = Absent => committed.KeyVersion[k] = 0
  /\ \A op \in pending : Issued(op) /\ Settled(op)
  /\ \A i \in 1 .. Len(log) : Issued(log[i])
  /\ \A c \in Clerk : CallTrue(c)
  /\ \E H : Replays(H) /\ AnswersSeen(H)

\* What a step that commits nothing, makes no call and ends none does to a call.
CalmCall(c) ==
  /\ clerk'[c].args = clerk[c].args
  /\ clerk'[c].requestId = clerk[c].requestId
  /\ clerk[c].at = "returned" => clerk'[c] = clerk[c]
  /\ clerk[c].at # "returned" => clerk'[c].at # "returned"
  /\ clerk'[c].id <= ops
  /\ clerk'[c].at = "waiting" => clerk[c].at = "waiting" /\ clerk'[c].id = clerk[c].id
  /\ Answered(c)' => clerk'[c].reply \in seen[c]

Calm ==
  /\ UNCHANGED <<pending, log, ops, committed, seen, performed>>
  /\ \A c \in Clerk : CalmCall(c)

LEMMA CalmKeeps ==
  ASSUME TruthInv, Calm, TypeOK', \E H : Replays(H)' /\ AnswersSeen(H)
  PROVE  TruthInv'
<1>1. ASSUME NEW op \in Operations, Issued(op) PROVE Issued(op)'
  <2>1. op.Req.ClientId \in Clerk
    BY DEF Operations, Requests
  <2>2. QED
    BY <1>1, <2>1 DEF Issued, Calm, CalmCall
<1>2. ASSUME NEW c \in Clerk, NEW r PROVE Current(c, r)' <=> Current(c, r)
  BY DEF Current, Calm, CalmCall
<1>3. ASSUME NEW op \in pending PROVE Settled(op)'
  <2>1. Settled(op) /\ op.Req.ClientId \in Clerk
    BY DEF TruthInv, TypeOK, Operations, Requests
  <2>2. /\ Current(op.Req.ClientId, op.Req)' <=> Current(op.Req.ClientId, op.Req)
        /\ committed' = committed
    BY <1>2, <2>1 DEF Calm
  <2>3. QED
    BY <2>1, <2>2 DEF Settled
<1>4. ASSUME NEW c \in Clerk PROVE CallTrue(c)'
  <2>1. CallTrue(c)
    BY DEF TruthInv
  <2>2. Tabled(c)' <=> Tabled(c)
    BY DEF Tabled, Calm, CalmCall
  <2>3. /\ clerk'[c].args = clerk[c].args /\ clerk'[c].requestId = clerk[c].requestId
        /\ clerk'[c].at = "returned" <=> clerk[c].at = "returned"
        /\ clerk'[c].id <= ops' /\ (Answered(c)' => clerk'[c].reply \in seen'[c])
        /\ committed' = committed
    BY DEF Calm, CalmCall
  <2>4. QED
    BY <2>1, <2>2, <2>3 DEF CallTrue
<1>5. ASSUME NEW H, AnswersSeen(H) PROVE AnswersSeen(H)'
  BY <1>2, <1>5 DEF AnswersSeen, Calm
<1>6. UNCHANGED <<pending, log, committed>>
  BY DEF Calm
<1>7. pending \subseteq Operations /\ \A i \in 1 .. Len(log) : log[i] \in Operations
  BY DEF TruthInv, TypeOK
<1>8. \E H : Replays(H)' /\ AnswersSeen(H)'
  BY <1>5
<1>9. QED
  BY <1>1, <1>3, <1>4, <1>6, <1>7, <1>8 DEF TruthInv

\* The ways in which the records of the clerks change without a commit.
LEMMA CallKept ==
  ASSUME TruthInv, NEW c \in Clerk, clerk'[c] = clerk[c]
  PROVE  CalmCall(c)
<1>1. CallTrue(c)
  BY DEF TruthInv
<1>2. Answered(c)' <=> Answered(c)
  BY DEF Answered
<1>3. QED
  BY <1>1, <1>2 DEF CalmCall, CallTrue

LEMMA CallRetried ==
  ASSUME TruthInv, NEW c \in Clerk, clerk[c].at # "returned", clerk'[c] = TryNext(c)
  PROVE  CalmCall(c)
<1>1. /\ clerk'[c].args = clerk[c].args /\ clerk'[c].requestId = clerk[c].requestId
      /\ clerk'[c].at = "sent" /\ clerk'[c].id = 0
  BY ClerkType DEF TruthInv, TryNext, Calls
<1>2. 0 <= ops
  BY DEF TruthInv, TypeOK
<1>3. ~Answered(c)'
  BY <1>1 DEF Answered
<1>4. QED
  BY <1>1, <1>2, <1>3 DEF CalmCall

LEMMA CallRefused ==
  ASSUME TruthInv, NEW c \in Clerk, clerk[c].at # "returned",
         NEW err \in {"ErrWrongLeader", "ErrTimeOut"},
         clerk'[c] = [clerk[c] EXCEPT !.at = "replied", !.reply = PutReply(err)]
  PROVE  CalmCall(c)
<1>1. /\ clerk'[c].args = clerk[c].args /\ clerk'[c].requestId = clerk[c].requestId
      /\ clerk'[c].at = "replied" /\ clerk'[c].id = clerk[c].id
      /\ clerk'[c].reply = PutReply(err)
  BY ClerkType DEF TruthInv, Calls
<1>2. clerk[c].id <= ops
  BY DEF TruthInv, CallTrue
<1>3. ~Answered(c)'
  BY <1>1 DEF Answered, PutReply
<1>4. QED
  BY <1>1, <1>2, <1>3 DEF CalmCall

LEMMA CallAnswered ==
  ASSUME TruthInv, NEW c \in Clerk, clerk[c].at # "returned",
         NEW at \in {"notified", "replied"}, NEW reply \in seen[c],
         clerk'[c] = [clerk[c] EXCEPT !.at = at, !.reply = reply]
  PROVE  CalmCall(c)
<1>1. /\ clerk'[c].args = clerk[c].args /\ clerk'[c].requestId = clerk[c].requestId
      /\ clerk'[c].at = at /\ clerk'[c].id = clerk[c].id
      /\ clerk'[c].reply = reply
  BY ClerkType DEF TruthInv, Calls
<1>2. clerk[c].id <= ops
  BY DEF TruthInv, CallTrue
<1>3. QED
  BY <1>1, <1>2 DEF CalmCall

LEMMA ClerkCalm ==
  ASSUME TruthInv, NEW c \in Clerk,
         \/ CallFails(c) \/ WrongLeader(c) \/ SubmitNotLeader(c)
         \/ SubmitLostTerm(c) \/ SubmitTimeOut(c) \/ SubmitResult(c)
  PROVE  Calm
<1>1. /\ UNCHANGED <<pending, log, ops, committed, seen, performed>>
      /\ clerk[c].at # "returned"
  BY DEF CallFails, WrongLeader, SubmitNotLeader, SubmitLostTerm, SubmitTimeOut,
         SubmitResult, raftVars, history
<1>2. clerk \in [Clerk -> Calls] /\ clerk[c] \in Calls
  BY DEF TruthInv, TypeOK
<1>3. \/ clerk' = [clerk EXCEPT ![c] = TryNext(c)]
      \/ \E err \in {"ErrWrongLeader", "ErrTimeOut"} :
           clerk' = [clerk EXCEPT ![c].at = "replied", ![c].reply = PutReply(err)]
      \/ clerk[c].at = "notified" /\ clerk' = [clerk EXCEPT ![c].at = "replied"]
  BY DEF CallFails, WrongLeader, SubmitNotLeader, SubmitLostTerm, SubmitTimeOut, SubmitResult
<1>4. \A d \in Clerk : d # c => clerk'[d] = clerk[d]
  BY <1>2, <1>3
<1>5. CalmCall(c)
  <2>1. CASE clerk' = [clerk EXCEPT ![c] = TryNext(c)]
    <3>1. clerk'[c] = TryNext(c)
      BY <1>2, <2>1
    <3>2. QED
      BY <1>1, <3>1, CallRetried
  <2>2. ASSUME NEW err \in {"ErrWrongLeader", "ErrTimeOut"},
               clerk' = [clerk EXCEPT ![c].at = "replied", ![c].reply = PutReply(err)]
        PROVE  CalmCall(c)
    <3>1. clerk'[c] = [clerk[c] EXCEPT !.at = "replied", !.reply = PutReply(err)]
      BY <1>2, <2>2
    <3>2. QED
      BY <1>1, <3>1, CallRefused
  <2>3. CASE clerk[c].at = "notified" /\ clerk' = [clerk EXCEPT ![c].at = "replied"]
    <3>1. clerk[c].reply \in seen[c]
      BY <2>3 DEF TruthInv, CallTrue, Answered
    <3>2. clerk'[c] = [clerk[c] EXCEPT !.at = "replied"]
      BY <1>2, <2>3
    <3>3. [clerk[c] EXCEPT !.at = "replied"]
            = [clerk[c] EXCEPT !.at = "replied", !.reply = clerk[c].reply]
      BY <1>2 DEF Calls
    <3>4. clerk'[c] = [clerk[c] EXCEPT !.at = "replied", !.reply = clerk[c].reply]
      BY <3>2, <3>3
    <3>5. QED
      BY <1>1, <3>1, <3>4, CallAnswered
  <2>4. QED
    BY <1>3, <2>1, <2>2, <2>3
<1>6. ASSUME NEW d \in Clerk PROVE CalmCall(d)
  BY <1>4, <1>5, CallKept
<1>7. QED
  BY <1>1, <1>6 DEF Calm

\* A call that Reader() notifies waits for the operation it has applied, and
\* the answer is the one the log gives.
LEMMA ReaderCalm ==
  ASSUME TruthInv, NEW H, Replays(H), AnswersSeen(H), NEW s \in Server, Reader(s)
  PROVE  Calm
<1> DEFINE op == log[applied[s] + 1]
           reply == Reply(kv[s], op.Req)
<1>1. UNCHANGED <<pending, log, ops, committed, seen, performed>>
  BY DEF Reader, raftVars, history
<1>2. applied[s] \in Nat /\ applied[s] + 1 \in 1 .. Len(log)
  <2>1. applied[s] < Len(log)
    BY DEF Reader
  <2>2. applied[s] \in 0 .. Len(log) /\ Len(log) \in Nat
    BY DEF TruthInv, TypeOK
  <2>3. QED
    BY <2>1, <2>2
<1>3. Issued(op)
  BY <1>2 DEF TruthInv
<1>4. kv[s] = H[(applied[s] + 1) - 1]
  <2>1. (applied[s] + 1) - 1 = applied[s]
    BY <1>2
  <2>2. QED
    BY <2>1 DEF Replays
<1>5. clerk' = [c \in Clerk |->
        IF c \in Waiting(s, op) THEN [clerk[c] EXCEPT !.at = "notified", !.reply = reply]
        ELSE clerk[c]]
  BY DEF Reader
<1>6. ASSUME NEW c \in Clerk, c \in Waiting(s, op) PROVE CalmCall(c)
  <2>1. clerk[c].at = "waiting" /\ clerk[c].id = op.Id
    BY <1>6 DEF Waiting
  <2>2. clerk[c].args = op.Req
    BY <1>3, <2>1 DEF Issued
  <2>3. Current(c, op.Req)
    BY <2>1, <2>2 DEF Current
  <2>4. reply \in seen[c]
    BY <1>2, <1>4, <2>3 DEF AnswersSeen
  <2>5. clerk'[c] = [clerk[c] EXCEPT !.at = "notified", !.reply = reply]
    BY <1>5, <1>6
  <2> HIDE DEF reply, op
  <2>6. QED
    BY <2>1, <2>4, <2>5, CallAnswered
<1>7. ASSUME NEW c \in Clerk, c \notin Waiting(s, op) PROVE CalmCall(c)
  <2>1. clerk'[c] = clerk[c]
    BY <1>5, <1>7
  <2>2. QED
    BY <2>1, CallKept
<1>8. QED
  BY <1>1, <1>6, <1>7 DEF Calm

LEMMA ServerCalm ==
  ASSUME TruthInv, NEW s \in Server,
         StartKVServer(s) \/ Elect(s) \/ StepDown(s) \/ \E p \in Server : Restore(s, p)
  PROVE  Calm
<1>1. UNCHANGED <<pending, log, ops, committed, seen, performed>>
  BY DEF StartKVServer, Elect, StepDown, Restore, raftVars, history
<1>2. \A c \in Clerk : \/ clerk'[c] = clerk[c]
                       \/ clerk[c].at # "returned" /\ clerk'[c] = TryNext(c)
  BY DEF StartKVServer, Elect, StepDown, Restore
<1>3. \A c \in Clerk : CalmCall(c)
  BY <1>2, CallKept, CallRetried
<1>4. QED
  BY <1>1, <1>3 DEF Calm

\* The types of operations, pending and committed.
LEMMA OperationTypes ==
  ASSUME TypeOK
  PROVE  /\ \A op \in pending : op \in Operations
         /\ \A i \in 1 .. Len(log) : log[i] \in Operations
         /\ \A op \in Operations :
              /\ op.Id \in Nat /\ op.Req \in Requests /\ op.Req.ClientId \in Clerk
              /\ op.Req.RequestId \in Nat
<1>1. pending \subseteq Operations /\ log \in Seq(Operations)
  BY DEF TypeOK
<1>2. \A i \in 1 .. Len(log) : log[i] \in Operations
  BY <1>1
<1>3. \A op \in Operations :
        /\ op.Id \in Nat /\ op.Req \in Requests /\ op.Req.ClientId \in Clerk
        /\ op.Req.RequestId \in Nat
  BY DEF Operations, Requests
<1>4. QED
  BY <1>1, <1>2, <1>3

\* A new call has a number that no operation has, and no answer yet.
LEMMA CallKeeps ==
  ASSUME TruthInv, TypeOK', NEW c \in Clerk, NEW op \in {"Get", "Put"}, NEW k \in Key,
         NEW v \in Value, NEW version \in Nat, Call(c, op, k, v, version),
         \E H : Replays(H)' /\ AnswersSeen(H)
  PROVE  TruthInv'
<1> DEFINE q == clerk[c].requestId
<1>1. TypeOK /\ clerk \in [Clerk -> Calls] /\ q \in Nat /\ clerk[c].at = "returned"
  BY DEF TruthInv, TypeOK, Calls, Call
<1>2. /\ UNCHANGED <<pending, log, ops, committed>>
      /\ seen' = [seen EXCEPT ![c] = {}] /\ performed' = [performed EXCEPT ![c] = 0]
  BY DEF Call, raftVars
<1>3. /\ clerk'[c].at = "sent" /\ clerk'[c].requestId = q + 1 /\ clerk'[c].id = 0
      /\ clerk'[c].args.RequestId = q /\ clerk'[c].args.ClientId = c
      /\ \A d \in Clerk : d # c => clerk'[d] = clerk[d]
  BY <1>1 DEF Call
<1>4. /\ seen'[c] = {} /\ performed'[c] = 0
      /\ \A d \in Clerk : d # c => seen'[d] = seen[d] /\ performed'[d] = performed[d]
  BY <1>1, <1>2 DEF TypeOK
<1> HIDE DEF q
<1>5. ASSUME NEW o \in Operations, Issued(o) PROVE Issued(o)'
  <2>1. o.Req.ClientId \in Clerk /\ o.Req.RequestId \in Nat
    BY <1>1, OperationTypes
  <2>2. o.Req.RequestId < clerk'[o.Req.ClientId].requestId
    <3>1. o.Req.RequestId < clerk[o.Req.ClientId].requestId
      BY <1>5 DEF Issued
    <3>2. CASE o.Req.ClientId = c
      BY <1>1, <1>3, <2>1, <3>1, <3>2 DEF q
    <3>3. CASE o.Req.ClientId # c
      BY <1>3, <2>1, <3>1, <3>3
    <3>4. QED
      BY <3>2, <3>3
  <2>3. ASSUME NEW d \in Clerk, clerk'[d].at = "waiting", clerk'[d].id = o.Id
        PROVE  clerk'[d].args = o.Req
    BY <1>3, <1>5, <2>3 DEF Issued
  <2>4. o.Id <= ops'
    BY <1>2, <1>5 DEF Issued
  <2>5. QED
    BY <2>2, <2>3, <2>4 DEF Issued
<1>6. ASSUME NEW o \in pending PROVE Settled(o)'
  <2>1. Settled(o) /\ o.Req.ClientId \in Clerk
    BY <1>1, OperationTypes DEF TruthInv
  <2>2. Current(o.Req.ClientId, o.Req) => Current(o.Req.ClientId, o.Req)'
    BY <1>1, <1>3, <2>1 DEF Current
  <2>3. QED
    BY <1>2, <2>1, <2>2 DEF Settled
<1>7. ASSUME NEW d \in Clerk PROVE CallTrue(d)'
  <2>1. CallTrue(d)
    BY DEF TruthInv
  <2>2. CASE d = c
    <3>1. committed.lastRequest[c] \in Int /\ committed.lastRequest[c] < q
      BY <1>1, <2>1, <2>2 DEF TypeOK, Machines, CallTrue, q
    <3>2. committed.lastRequest[c] < q + 1 /\ 0 <= ops
      BY <1>1, <3>1 DEF TypeOK
    <3>3. Tabled(c)'
      BY <1>2, <1>3, <1>4, <3>1 DEF Tabled
    <3>4. ~Answered(c)'
      BY <1>3 DEF Answered
    <3>5. QED
      BY <1>2, <1>3, <2>2, <3>2, <3>3, <3>4 DEF CallTrue
  <2>3. CASE d # c
    <3>1. clerk'[d] = clerk[d] /\ seen'[d] = seen[d] /\ performed'[d] = performed[d]
      BY <1>3, <1>4, <2>3
    <3>2. (Tabled(d)' <=> Tabled(d)) /\ (Answered(d)' <=> Answered(d))
      BY <1>2, <3>1 DEF Tabled, Answered
    <3>3. QED
      BY <1>2, <2>1, <3>1, <3>2 DEF CallTrue
  <2>4. QED
    BY <2>2, <2>3
<1>8. ASSUME NEW H, AnswersSeen(H) PROVE AnswersSeen(H)'
  <2> SUFFICES ASSUME NEW i \in 1 .. Len(log), NEW d \in Clerk, Current(d, log[i].Req)'
               PROVE  Reply(H[i - 1], log[i].Req) \in seen'[d]
    BY <1>2 DEF AnswersSeen
  <2>1. log[i] \in Operations /\ Issued(log[i])
    BY <1>1, OperationTypes DEF TruthInv
  <2>2. d # c
    <3> SUFFICES ASSUME d = c PROVE FALSE
      OBVIOUS
    <3>1. log[i].Req.RequestId = q /\ log[i].Req.ClientId = c
      BY <1>2, <1>3 DEF Current
    <3>2. log[i].Req.RequestId < q
      BY <2>1, <3>1 DEF Issued, q
    <3>3. QED
      BY <1>1, <3>1, <3>2
  <2>3. Current(d, log[i].Req) /\ seen'[d] = seen[d]
    BY <1>2, <1>3, <1>4, <2>2 DEF Current
  <2>4. QED
    BY <1>8, <2>3 DEF AnswersSeen
<1>9. \E H : Replays(H)' /\ AnswersSeen(H)'
  BY <1>8
<1>10. \A i \in 1 .. Len(log) : Issued(log[i])'
  BY <1>1, <1>2, <1>5, OperationTypes DEF TruthInv
<1>11. \A o \in pending : Issued(o)'
  BY <1>1, <1>5, OperationTypes DEF TruthInv
<1>12. QED
  BY <1>2, <1>6, <1>7, <1>9, <1>10, <1>11 DEF TruthInv

\* An operation handed to Start() is the current request, under a new id.
LEMMA SubmitKeeps ==
  ASSUME TruthInv, TypeOK', NEW c \in Clerk, Submit(c),
         \E H : Replays(H)' /\ AnswersSeen(H)
  PROVE  TruthInv'
<1>0. PICK new : new = [Id |-> ops + 1, Me |-> clerk[c].serverId, Req |-> clerk[c].args]
  OBVIOUS
<1>1. /\ TypeOK /\ clerk \in [Clerk -> Calls] /\ clerk[c].at # "returned"
      /\ ops \in Nat
  BY DEF TruthInv, TypeOK, Submit
<1>2. /\ UNCHANGED <<log, committed, seen, performed>>
      /\ pending' = pending \cup {new} /\ ops' = ops + 1
  BY <1>0 DEF Submit, history
<1>3. /\ clerk'[c].at = "waiting" /\ clerk'[c].requestId = clerk[c].requestId
      /\ clerk'[c].id = ops + 1 /\ clerk'[c].args = clerk[c].args
      /\ \A d \in Clerk : d # c => clerk'[d] = clerk[d]
  BY <1>1 DEF Submit, Calls
<1>4. \A d \in Clerk : CallTrue(d) /\ clerk[d].id \in Nat /\ clerk[d].id <= ops
  BY <1>1, ClerkType DEF TruthInv, CallTrue
<1>5. \A d \in Clerk : clerk'[d].args = clerk[d].args /\ clerk'[d].requestId = clerk[d].requestId
  BY <1>3
<1>6. ASSUME NEW o \in Operations, Issued(o) PROVE Issued(o)'
  <2>1. o.Req.ClientId \in Clerk /\ o.Id \in Nat
    BY <1>1, OperationTypes
  <2>2. o.Id <= ops /\ o.Id <= ops' /\ o.Id # ops + 1
    BY <1>1, <1>2, <1>6, <2>1 DEF Issued
  <2>3. o.Req.RequestId < clerk'[o.Req.ClientId].requestId
    BY <1>5, <1>6, <2>1 DEF Issued
  <2>4. ASSUME NEW d \in Clerk, clerk'[d].at = "waiting", clerk'[d].id = o.Id
        PROVE  clerk'[d].args = o.Req
    <3>1. d # c
      BY <1>3, <2>2, <2>4
    <3>2. QED
      BY <1>3, <1>6, <2>4, <3>1 DEF Issued
  <2>5. QED
    BY <2>2, <2>3, <2>4 DEF Issued
<1>7. Issued(new)' /\ Settled(new)'
  <2>1. /\ new.Id = ops + 1 /\ new.Req = clerk[c].args /\ clerk[c].args.ClientId = c
        /\ clerk[c].args.RequestId \in Nat /\ clerk[c].requestId \in Nat
    BY <1>0, <1>1, ClerkType DEF Requests
  <2>2. clerk[c].args.RequestId < clerk[c].requestId
    <3>1. clerk[c].args.RequestId + 1 = clerk[c].requestId
      BY <1>1, <1>4 DEF CallTrue
    <3>2. QED
      BY <2>1, <3>1
  <2>3. ASSUME NEW d \in Clerk, clerk'[d].at = "waiting", clerk'[d].id = ops + 1
        PROVE  d = c
    BY <1>1, <1>3, <1>4, <2>3
  <2>4. ops + 1 <= ops'
    BY <1>1, <1>2
  <2>5. Issued(new)'
    BY <1>3, <2>1, <2>2, <2>3, <2>4 DEF Issued
  <2>6. Current(c, new.Req)'
    BY <1>3, <2>1 DEF Current
  <2>7. QED
    BY <2>1, <2>5, <2>6 DEF Settled
<1>8. ASSUME NEW d \in Clerk, NEW r PROVE Current(d, r)' <=> Current(d, r)
  BY <1>1, <1>3 DEF Current
<1>9. ASSUME NEW o \in pending PROVE Settled(o)'
  <2>1. Settled(o) /\ o.Req.ClientId \in Clerk
    BY <1>1, OperationTypes DEF TruthInv
  <2>2. Current(o.Req.ClientId, o.Req)' <=> Current(o.Req.ClientId, o.Req)
    BY <1>8, <2>1
  <2>3. QED
    BY <1>2, <2>1, <2>2 DEF Settled
<1>10. ASSUME NEW d \in Clerk PROVE CallTrue(d)'
  <2>1. CallTrue(d) /\ clerk'[d].id <= ops'
    BY <1>1, <1>2, <1>3, <1>4
  <2>2. Tabled(d)' <=> Tabled(d)
    BY <1>2, <1>5 DEF Tabled
  <2>3. (clerk'[d].at = "returned" <=> clerk[d].at = "returned") /\ (Answered(d)' => Answered(d))
    BY <1>1, <1>3 DEF Answered
  <2>4. Answered(d) => clerk[d].reply \in seen[d]
    BY <2>1 DEF CallTrue
  <2>5. Answered(d)' => clerk'[d].reply = clerk[d].reply
    BY <1>3 DEF Answered
  <2>6. QED
    BY <1>2, <1>5, <2>1, <2>2, <2>3, <2>4, <2>5 DEF CallTrue
<1>11. ASSUME NEW H, AnswersSeen(H) PROVE AnswersSeen(H)'
  BY <1>2, <1>8, <1>11 DEF AnswersSeen
<1>12. \E H : Replays(H)' /\ AnswersSeen(H)'
  BY <1>11
<1>13. (\A i \in 1 .. Len(log) : Issued(log[i])') /\ \A o \in pending : Issued(o)'
  BY <1>1, <1>2, <1>6, OperationTypes DEF TruthInv
<1>14. QED
  BY <1>2, <1>7, <1>9, <1>10, <1>12, <1>13 DEF TruthInv

\* When a Put returns, the table has it, so that copies still under way do
\* nothing.
LEMMA ReturnKeeps ==
  ASSUME TruthInv, TypeOK', NEW c \in Clerk, Return(c),
         \E H : Replays(H)' /\ AnswersSeen(H)
  PROVE  TruthInv'
<1>1. /\ TypeOK /\ clerk \in [Clerk -> Calls] /\ Answered(c) /\ clerk[c].at # "returned"
  BY DEF TruthInv, TypeOK, Return, Answered
<1>2. UNCHANGED <<pending, log, ops, committed, seen, performed>>
  BY DEF Return, raftVars, history
<1>3. /\ clerk'[c].at = "returned" /\ clerk'[c].requestId = clerk[c].requestId
      /\ clerk'[c].id = clerk[c].id /\ clerk'[c].args = clerk[c].args
      /\ \A d \in Clerk : d # c => clerk'[d] = clerk[d]
  BY <1>1 DEF Return, Calls
<1>4. ASSUME NEW o \in Operations, Issued(o) PROVE Issued(o)'
  <2>1. o.Req.ClientId \in Clerk
    BY <1>1, OperationTypes
  <2>2. \A d \in Clerk : clerk'[d].requestId = clerk[d].requestId
    BY <1>3
  <2>3. \A d \in Clerk : clerk'[d].at = "waiting" => clerk'[d] = clerk[d]
    BY <1>3
  <2>4. QED
    BY <1>2, <1>4, <2>1, <2>2, <2>3 DEF Issued
<1>5. CallTrue(c) /\ clerk[c].reply \in seen[c]
  BY <1>1 DEF TruthInv, CallTrue
<1>6. clerk[c].args.op = "Put" => clerk[c].args.RequestId <= committed.lastRequest[c]
  <2>1. clerk[c].args.op = "Put" => ~(committed.lastRequest[c] < clerk[c].args.RequestId)
    BY <1>1, <1>5 DEF CallTrue, Tabled
  <2>2. clerk[c].args.RequestId \in Int /\ committed.lastRequest[c] \in Int
    BY <1>1, ClerkType DEF TypeOK, Machines, Requests
  <2>3. QED
    BY <2>1, <2>2
<1>7. ASSUME NEW o \in pending PROVE Settled(o)'
  <2>1. Settled(o) /\ o.Req \in Requests /\ o.Req.ClientId \in Clerk
    BY <1>1, OperationTypes DEF TruthInv
  <2>2. CASE o.Req.ClientId = c /\ Current(c, o.Req)
    <3>1. o.Req = clerk[c].args /\ o.Req.op \in {"Get", "Put"}
      BY <2>1, <2>2 DEF Current, Requests
    <3>2. QED
      BY <1>2, <1>6, <2>2, <3>1 DEF Settled
  <2>3. CASE ~(o.Req.ClientId = c /\ Current(c, o.Req))
    <3>1. Current(o.Req.ClientId, o.Req) => Current(o.Req.ClientId, o.Req)'
      BY <1>3, <2>1, <2>3 DEF Current
    <3>2. QED
      BY <1>2, <2>1, <3>1 DEF Settled
  <2>4. QED
    BY <2>2, <2>3
<1>8. ASSUME NEW d \in Clerk PROVE CallTrue(d)'
  <2>1. CallTrue(d)
    BY DEF TruthInv
  <2>2. CASE d = c
    <3>1. ~Answered(c)'
      BY <1>3 DEF Answered
    <3>2. QED
      BY <1>2, <1>3, <2>1, <2>2, <3>1 DEF CallTrue
  <2>3. CASE d # c
    <3>1. clerk'[d] = clerk[d]
      BY <1>3, <2>3
    <3>2. (Tabled(d)' <=> Tabled(d)) /\ (Answered(d)' <=> Answered(d))
      BY <1>2, <3>1 DEF Tabled, Answered
    <3>3. QED
      BY <1>2, <2>1, <3>1, <3>2 DEF CallTrue
  <2>4. QED
    BY <2>2, <2>3
<1>9. ASSUME NEW d \in Clerk, NEW r, Current(d, r)' PROVE Current(d, r)
  BY <1>3, <1>9 DEF Current
<1>10. ASSUME NEW H, AnswersSeen(H) PROVE AnswersSeen(H)'
  BY <1>2, <1>9, <1>10 DEF AnswersSeen
<1>11. \E H : Replays(H)' /\ AnswersSeen(H)'
  BY <1>10
<1>12. (\A i \in 1 .. Len(log) : Issued(log[i])') /\ \A o \in pending : Issued(o)'
  BY <1>1, <1>2, <1>4, OperationTypes DEF TruthInv
<1>13. QED
  BY <1>2, <1>7, <1>8, <1>11, <1>12 DEF TruthInv

\* What an operation does to a state machine.
LEMMA DoOpMeans ==
  ASSUME NEW m \in Machines, NEW req \in Requests, NEW x, x = DoOp(m, req),
         NEW c, c = req.ClientId
  PROVE  \/ /\ req.op = "Get" \/ Duplicate(m, req)
            /\ x = m
         \/ /\ req.op = "Put" /\ ~Duplicate(m, req)
            /\ Reply(m, req) = PutReply(PutErr(m, req))
            /\ x.lastRequest = [m.lastRequest EXCEPT ![c] = req.RequestId]
            /\ x.lastReply = [m.lastReply EXCEPT ![c] = Reply(m, req)]
            /\ x.KeyValue = IF PutErr(m, req) = "OK"
                              THEN [m.KeyValue EXCEPT ![req.Key] = req.Value]
                              ELSE m.KeyValue
            /\ x.KeyVersion = IF PutErr(m, req) = "OK"
                                THEN [m.KeyVersion EXCEPT ![req.Key] = req.Version + 1]
                                ELSE m.KeyVersion
<1>1. CASE req.op = "Get" \/ Duplicate(m, req)
  BY <1>1 DEF DoOp
<1>2. CASE ~(req.op = "Get" \/ Duplicate(m, req))
  <2>1. req.op = "Put"
    BY <1>2 DEF Requests
  <2>2. Reply(m, req) = PutReply(PutErr(m, req))
    BY <1>2 DEF Reply
  <2> DEFINE r == Reply(m, req)
             noted == [m EXCEPT !.lastRequest[c] = req.RequestId, !.lastReply[c] = r]
             done == [noted EXCEPT !.KeyValue[req.Key] = req.Value,
                                   !.KeyVersion[req.Key] = req.Version + 1]
  <2>3. x = IF PutErr(m, req) # "OK" THEN noted ELSE done
    BY <1>2 DEF DoOp
  <2>4. r \in Replies /\ c \in Clerk /\ req.RequestId \in Nat
    BY ReplyType DEF Requests
  <2> HIDE DEF r
  <2>5. noted \in Machines
    BY <2>4 DEF Machines
  <2>6. /\ noted.lastRequest = [m.lastRequest EXCEPT ![c] = req.RequestId]
        /\ noted.lastReply = [m.lastReply EXCEPT ![c] = r]
        /\ noted.KeyValue = m.KeyValue /\ noted.KeyVersion = m.KeyVersion
    BY DEF Machines
  <2> HIDE DEF noted
  <2>7. /\ done.lastRequest = noted.lastRequest /\ done.lastReply = noted.lastReply
        /\ done.KeyValue = [noted.KeyValue EXCEPT ![req.Key] = req.Value]
        /\ done.KeyVersion = [noted.KeyVersion EXCEPT ![req.Key] = req.Version + 1]
    BY <2>5 DEF Machines
  <2> HIDE DEF done
  <2>8. x.lastRequest = noted.lastRequest /\ x.lastReply = noted.lastReply
    BY <2>3, <2>7, ZenonT(60)
  <2>9. x.KeyValue = IF PutErr(m, req) = "OK"
                      THEN [m.KeyValue EXCEPT ![req.Key] = req.Value] ELSE m.KeyValue
    BY <2>3, <2>6, <2>7
  <2>10. x.KeyVersion = IF PutErr(m, req) = "OK"
                         THEN [m.KeyVersion EXCEPT ![req.Key] = req.Version + 1]
                         ELSE m.KeyVersion
    BY <2>3, <2>6, <2>7
  <2>11. QED
    BY <1>2, <2>1, <2>2, <2>6, <2>8, <2>9, <2>10 DEF r
<1>3. QED
  BY <1>1, <1>2

\* A Put that is performed moves the version of its key.
LEMMA VersionMoves ==
  ASSUME NEW m \in Machines, NEW req \in Requests,
         \A k \in Key : m.KeyValue[k] = Absent => m.KeyVersion[k] = 0,
         PutErr(m, req) = "OK"
  PROVE  /\ m.KeyVersion[req.Key] = req.Version
         /\ [m.KeyVersion EXCEPT ![req.Key] = req.Version + 1] # m.KeyVersion
<1>1. req.Key \in Key /\ req.Version \in Nat /\ m.KeyVersion \in [Key -> Nat]
  BY DEF Requests, Machines
<1>2. m.KeyVersion[req.Key] = req.Version
  BY <1>1 DEF PutErr
<1>3. [m.KeyVersion EXCEPT ![req.Key] = req.Version + 1][req.Key] = req.Version + 1
  BY <1>1
<1>4. req.Version + 1 # req.Version
  BY <1>1
<1>5. QED
  BY <1>2, <1>3, <1>4

\* What a committed operation does to the store and to the answers.
LEMMA CommitMeans ==
  ASSUME TruthInv, NEW op \in pending, Commit(op), NEW c, c = op.Req.ClientId
  PROVE  \/ /\ op.Req.op = "Get" \/ Duplicate(committed, op.Req)
            /\ UNCHANGED <<committed, performed>>
         \/ /\ op.Req.op = "Put" /\ ~Duplicate(committed, op.Req) /\ Current(c, op.Req)
            /\ Tabled(c) /\ seen[c] = {} /\ performed[c] = 0
            /\ committed'.lastRequest = [committed.lastRequest EXCEPT ![c] = op.Req.RequestId]
            /\ committed'.lastReply = [committed.lastReply EXCEPT ![c] = Reply(committed, op.Req)]
            /\ Reply(committed, op.Req) = PutReply(PutErr(committed, op.Req))
            /\ \/ /\ PutErr(committed, op.Req) = "OK"
                  /\ committed.KeyVersion[op.Req.Key] = op.Req.Version
                  /\ committed'.KeyValue =
                       [committed.KeyValue EXCEPT ![op.Req.Key] = op.Req.Value]
                  /\ committed'.KeyVersion =
                       [committed.KeyVersion EXCEPT ![op.Req.Key] = op.Req.Version + 1]
                  /\ performed' = [performed EXCEPT ![c] = 1]
               \/ /\ PutErr(committed, op.Req) # "OK"
                  /\ committed'.KeyValue = committed.KeyValue
                  /\ committed'.KeyVersion = committed.KeyVersion
                  /\ performed' = performed
<1> DEFINE req == op.Req
<1>1. /\ TypeOK /\ committed \in Machines /\ req \in Requests /\ c \in Clerk
      /\ performed \in [Clerk -> Nat] /\ req.RequestId \in Nat
  BY OperationTypes DEF TruthInv, TypeOK
<1>2. /\ committed' = DoOp(committed, req)
      /\ performed' = IF committed'.KeyVersion # committed.KeyVersion
                        THEN [performed EXCEPT ![c] = @ + 1] ELSE performed
  BY DEF Commit
<1>3. Settled(op) /\ CallTrue(c)
  BY <1>1 DEF TruthInv
<1>4. committed.lastRequest[c] \in Int
  BY <1>1 DEF Machines
<1>5. CASE req.op = "Get" \/ Duplicate(committed, req)
  <2>1. committed' = committed
    BY <1>2, <1>5 DEF DoOp
  <2>2. QED
    BY <1>2, <1>5, <2>1
<1>6. CASE req.op = "Put" /\ ~Duplicate(committed, req)
  <2>1. Current(c, req)
    BY <1>3, <1>6 DEF Settled, Duplicate
  <2>2. Tabled(c)
    BY <1>3, <1>6, <2>1 DEF CallTrue, Current
  <2>3. committed.lastRequest[c] < clerk[c].args.RequestId
    <3>1. ~(req.RequestId <= committed.lastRequest[c])
      BY <1>6 DEF Duplicate
    <3>2. req.RequestId = clerk[c].args.RequestId
      BY <2>1 DEF Current
    <3>3. QED
      BY <1>1, <1>4, <3>1, <3>2
  <2>4. seen[c] = {} /\ performed[c] = 0
    BY <2>2, <2>3 DEF Tabled
  <2>5. /\ Reply(committed, req) = PutReply(PutErr(committed, req))
        /\ committed'.lastRequest = [committed.lastRequest EXCEPT ![c] = req.RequestId]
        /\ committed'.lastReply = [committed.lastReply EXCEPT ![c] = Reply(committed, req)]
        /\ committed'.KeyValue = IF PutErr(committed, req) = "OK"
             THEN [committed.KeyValue EXCEPT ![req.Key] = req.Value] ELSE committed.KeyValue
        /\ committed'.KeyVersion = IF PutErr(committed, req) = "OK"
             THEN [committed.KeyVersion EXCEPT ![req.Key] = req.Version + 1]
             ELSE committed.KeyVersion
    <3> HIDE DEF req
    <3>1. c = req.ClientId
      BY DEF req
    <3>2. QED
      BY <1>1, <1>2, <1>6, <3>1, DoOpMeans
  <2>6. CASE PutErr(committed, req) = "OK"
    <3>1. /\ committed.KeyVersion[req.Key] = req.Version
          /\ [committed.KeyVersion EXCEPT ![req.Key] = req.Version + 1] # committed.KeyVersion
      BY <1>1, <2>6, VersionMoves DEF TruthInv
    <3>2. committed'.KeyVersion # committed.KeyVersion
      BY <2>5, <2>6, <3>1
    <3>3. performed' = [performed EXCEPT ![c] = 1]
      <4>1. performed' = [performed EXCEPT ![c] = performed[c] + 1]
        BY <1>2, <3>2
      <4>2. performed[c] + 1 = 1
        BY <2>4
      <4>3. QED
        BY <4>1, <4>2
    <3>4. QED
      BY <1>6, <2>1, <2>2, <2>4, <2>5, <2>6, <3>1, <3>3
  <2>7. CASE PutErr(committed, req) # "OK"
    <3>1. committed'.KeyVersion = committed.KeyVersion /\ performed' = performed
      BY <1>2, <2>5, <2>7
    <3>2. QED
      BY <1>6, <2>1, <2>2, <2>4, <2>5, <2>7, <3>1
  <2>8. QED
    BY <2>6, <2>7
<1>7. QED
  BY <1>1, <1>5, <1>6 DEF Requests

\* A repeated Put gets the answer of the first copy; a call keeps the answers
\* that it has.
LEMMA CommitSeen ==
  ASSUME TruthInv, NEW op \in pending, Commit(op), NEW c, c = op.Req.ClientId
  PROVE  /\ Current(c, op.Req) => seen'[c] = seen[c] \cup {Reply(committed, op.Req)}
         /\ \A d \in Clerk : d # c => seen'[d] = seen[d]
         /\ ~Current(c, op.Req) => seen' = seen
         /\ Current(c, op.Req) /\ op.Req.op = "Put" /\ Duplicate(committed, op.Req)
              => Reply(committed, op.Req) = committed.lastReply[c] /\ seen' = seen
<1> DEFINE req == op.Req
<1>1. /\ TypeOK /\ committed \in Machines /\ req \in Requests /\ c \in Clerk
      /\ seen \in [Clerk -> SUBSET Replies] /\ req.RequestId \in Nat
  BY OperationTypes DEF TruthInv, TypeOK
<1>2. seen' = IF Current(c, req) THEN [seen EXCEPT ![c] = @ \cup {Reply(committed, req)}]
              ELSE seen
  BY DEF Commit, Current
<1>3. /\ Current(c, req) => seen'[c] = seen[c] \cup {Reply(committed, req)}
      /\ \A d \in Clerk : d # c => seen'[d] = seen[d]
      /\ ~Current(c, req) => seen' = seen
  BY <1>1, <1>2
<1>4. ASSUME Current(c, req), req.op = "Put", Duplicate(committed, req)
      PROVE  Reply(committed, req) = committed.lastReply[c] /\ seen' = seen
  <2>1. Reply(committed, req) = committed.lastReply[c]
    BY <1>4 DEF Reply
  <2>2. Tabled(c)
    BY <1>1, <1>4 DEF TruthInv, CallTrue, Current
  <2>3. ~(committed.lastRequest[c] < clerk[c].args.RequestId)
    <3>1. committed.lastRequest[c] \in Int
      BY <1>1 DEF Machines
    <3>2. req.RequestId <= committed.lastRequest[c] /\ req.RequestId = clerk[c].args.RequestId
      BY <1>4 DEF Duplicate, Current
    <3>3. QED
      BY <1>1, <3>1, <3>2
  <2>4. seen[c] = {committed.lastReply[c]}
    BY <2>2, <2>3 DEF Tabled
  <2>5. seen[c] \cup {Reply(committed, req)} = seen[c]
    BY <2>1, <2>4
  <2>6. seen' = [seen EXCEPT ![c] = seen[c]]
    BY <1>2, <1>4, <2>5
  <2>7. QED
    BY <1>1, <2>1, <2>6
<1>5. QED
  BY <1>3, <1>4

\* A commit adds the answer of the log, and with it the entry in the table.
LEMMA CommitKeeps ==
  ASSUME TruthInv, TypeOK', NEW op \in pending, Commit(op), NEW c, c = op.Req.ClientId,
         NEW H, AnswersSeen(H), Replays(H),
         NEW G, Replays(G)', \A i \in 0 .. Len(log) : G[i] = H[i]
  PROVE  TruthInv'
<1>1. /\ TypeOK /\ committed \in Machines /\ op \in Operations /\ c \in Clerk
      /\ op.Req \in Requests /\ seen \in [Clerk -> SUBSET Replies]
      /\ performed \in [Clerk -> Nat] /\ Len(log) \in Nat
      /\ op.Req.RequestId \in Nat /\ committed.lastRequest \in [Clerk -> Nat \cup {-1}]
      /\ committed.lastReply \in [Clerk -> Replies] /\ op.Req.op \in {"Get", "Put"}
  <2>1. TypeOK /\ committed \in Machines /\ log \in Seq(Operations)
    BY DEF TruthInv, TypeOK
  <2>2. Len(log) \in Nat /\ seen \in [Clerk -> SUBSET Replies] /\ performed \in [Clerk -> Nat]
    BY <2>1 DEF TypeOK
  <2>3. /\ op \in Operations /\ c \in Clerk
        /\ op.Req \in Requests /\ op.Req.RequestId \in Nat
    BY <2>1, OperationTypes
  <2>4. QED
    BY <2>1, <2>2, <2>3 DEF Machines, Requests
<1>2. /\ UNCHANGED <<clerk, ops>> /\ pending' = pending \ {op} /\ log' = Append(log, op)
  BY DEF Commit
<1>3. Issued(op) /\ CallTrue(c)
  BY <1>1 DEF TruthInv
<1>4. ASSUME NEW o PROVE Issued(o)' <=> Issued(o)
  BY <1>2 DEF Issued
<1>5. ASSUME NEW d, NEW r PROVE Current(d, r)' <=> Current(d, r)
  BY <1>2 DEF Current
<1>6. \A d \in Clerk : seen[d] \subseteq seen'[d]
  BY <1>1, CommitSeen
<1>7. ASSUME op.Req.op = "Get" \/ Duplicate(committed, op.Req)
      PROVE  /\ \A k \in Key : committed'.KeyValue[k] = Absent => committed'.KeyVersion[k] = 0
             /\ \A o \in pending : Settled(o)'
             /\ \A d \in Clerk : CallTrue(d)'
  <2>1. UNCHANGED <<committed, performed>>
    BY <1>7, CommitMeans
  <2>2. \A k \in Key : committed'.KeyValue[k] = Absent => committed'.KeyVersion[k] = 0
    BY <2>1 DEF TruthInv
  <2>3. ASSUME NEW o \in pending PROVE Settled(o)'
    <3>1. Settled(o)
      BY DEF TruthInv
    <3>2. QED
      BY <1>2, <2>1, <3>1 DEF Settled, Current
  <2>4. ASSUME NEW d \in Clerk PROVE CallTrue(d)'
    <3>1. CallTrue(d)
      BY DEF TruthInv
    <3>2. clerk[d].at # "returned" /\ clerk[d].args.op = "Put" => seen'[d] = seen[d]
      <4> SUFFICES ASSUME clerk[d].at # "returned", clerk[d].args.op = "Put"
                   PROVE  seen'[d] = seen[d]
        OBVIOUS
      <4>1. CASE d = c /\ Current(c, op.Req)
        BY <1>7, <4>1, CommitSeen DEF Current
      <4>2. CASE ~(d = c /\ Current(c, op.Req))
        BY <4>2, CommitSeen
      <4>3. QED
        BY <4>1, <4>2
    <3>3. clerk[d].at # "returned" /\ clerk[d].args.op = "Put" => Tabled(d)'
      BY <1>2, <2>1, <3>1, <3>2 DEF CallTrue, Tabled
    <3>4. Answered(d)' => clerk[d].reply \in seen'[d]
      BY <1>2, <1>6, <3>1 DEF CallTrue, Answered
    <3>5. QED
      BY <1>2, <2>1, <3>1, <3>3, <3>4 DEF CallTrue
  <2>5. QED
    BY <2>2, <2>3, <2>4
<1>8. ASSUME op.Req.op = "Put", ~Duplicate(committed, op.Req)
      PROVE  /\ \A k \in Key : committed'.KeyValue[k] = Absent => committed'.KeyVersion[k] = 0
             /\ \A o \in pending : Settled(o)'
             /\ \A d \in Clerk : CallTrue(d)'
  <2> DEFINE reply == Reply(committed, op.Req)
             err == PutErr(committed, op.Req)
  <2>1. /\ Current(c, op.Req) /\ seen[c] = {} /\ performed[c] = 0
        /\ committed'.lastRequest = [committed.lastRequest EXCEPT ![c] = op.Req.RequestId]
        /\ committed'.lastReply = [committed.lastReply EXCEPT ![c] = reply]
        /\ reply = PutReply(err)
    BY <1>8, CommitMeans
  <2>2. \/ /\ err = "OK"
           /\ committed'.KeyValue = [committed.KeyValue EXCEPT ![op.Req.Key] = op.Req.Value]
           /\ committed'.KeyVersion =
                [committed.KeyVersion EXCEPT ![op.Req.Key] = op.Req.Version + 1]
           /\ performed' = [performed EXCEPT ![c] = 1]
        \/ /\ err # "OK"
           /\ committed'.KeyValue = committed.KeyValue
           /\ committed'.KeyVersion = committed.KeyVersion
           /\ performed' = performed
    BY <1>8, CommitMeans
  <2>3. reply.Err = err
    BY <2>1 DEF PutReply
  <2> HIDE DEF reply, err
  <2>4. /\ committed'.lastRequest[c] = op.Req.RequestId /\ committed'.lastReply[c] = reply
        /\ \A d \in Clerk : d # c =>
             /\ committed'.lastRequest[d] = committed.lastRequest[d]
             /\ committed'.lastReply[d] = committed.lastReply[d]
             /\ performed'[d] = performed[d]
    BY <1>1, <2>1, <2>2
  <2>5. performed'[c] > 0 <=> err = "OK"
    BY <1>1, <2>1, <2>2
  <2>6. seen'[c] = {reply}
    <3>1. seen'[c] = seen[c] \cup {reply}
      BY <2>1, CommitSeen DEF reply
    <3>2. QED
      BY <2>1, <3>1
  <2>7. ASSUME NEW k \in Key, committed'.KeyValue[k] = Absent
        PROVE  committed'.KeyVersion[k] = 0
    <3>1. op.Req.Value # Absent /\ op.Req.Key \in Key
      BY <1>1, KVRaftAssumption DEF Requests
    <3>2. /\ committed.KeyValue \in [Key -> Value \cup {Absent}]
          /\ committed.KeyVersion \in [Key -> Nat]
      BY <1>1 DEF Machines
    <3>3. committed'.KeyValue[k] = committed.KeyValue[k]
          /\ committed'.KeyVersion[k] = committed.KeyVersion[k]
      BY <2>2, <2>7, <3>1, <3>2
    <3>4. QED
      BY <2>7, <3>3 DEF TruthInv
  <2>8. committed.lastRequest[c] <= op.Req.RequestId
    <3>1. ~(op.Req.RequestId <= committed.lastRequest[c])
      BY <1>8 DEF Duplicate
    <3>2. committed.lastRequest[c] \in Int
      BY <1>1
    <3>3. QED
      BY <1>1, <3>1, <3>2
  <2>9. ASSUME NEW o \in pending PROVE Settled(o)'
    <3>1. /\ Settled(o) /\ o.Req.ClientId \in Clerk /\ o.Req.RequestId \in Nat
          /\ Current(o.Req.ClientId, o.Req)' <=> Current(o.Req.ClientId, o.Req)
      BY <1>1, <1>5, OperationTypes DEF TruthInv
    <3>2. o.Req.RequestId <= committed.lastRequest[o.Req.ClientId]
            => o.Req.RequestId <= committed'.lastRequest[o.Req.ClientId]
      <4>1. CASE o.Req.ClientId = c
        <5>1. committed.lastRequest[c] \in Int
          BY <1>1
        <5>2. QED
          BY <1>1, <2>4, <2>8, <3>1, <4>1, <5>1
      <4>2. CASE o.Req.ClientId # c
        BY <2>4, <3>1, <4>2
      <4>3. QED
        BY <4>1, <4>2
    <3>3. QED
      BY <3>1, <3>2 DEF Settled
  <2>10. ASSUME NEW d \in Clerk PROVE CallTrue(d)'
    <3>1. CallTrue(d)
      BY DEF TruthInv
    <3>2. CASE d = c
      <4>1. op.Req.RequestId < clerk[c].requestId
        BY <1>3 DEF Issued
      <4>2. clerk[c].args.RequestId = op.Req.RequestId
        BY <2>1 DEF Current
      <4>3. Tabled(c)'
        <5>1. ~(committed'.lastRequest[c] < clerk'[c].args.RequestId)
          BY <1>1, <1>2, <2>4, <4>2
        <5>2. QED
          BY <2>3, <2>4, <2>5, <2>6, <5>1 DEF Tabled
      <4>4. Answered(c)' => clerk'[c].reply \in seen'[c]
        BY <1>1, <1>2, <1>3, <1>6 DEF CallTrue, Answered
      <4>5. QED
        BY <1>2, <2>4, <3>1, <3>2, <4>1, <4>3, <4>4 DEF CallTrue
    <3>3. CASE d # c
      <4>1. seen'[d] = seen[d]
        BY <3>3, CommitSeen
      <4>2. (Tabled(d)' <=> Tabled(d)) /\ (Answered(d)' <=> Answered(d))
        BY <1>2, <2>4, <3>3, <4>1 DEF Tabled, Answered
      <4>3. QED
        BY <1>2, <2>4, <3>1, <3>3, <4>1, <4>2 DEF CallTrue
    <3>4. QED
      BY <3>2, <3>3
  <2>11. QED
    BY <2>7, <2>9, <2>10
<1>9. AnswersSeen(G)'
  <2> SUFFICES ASSUME NEW i \in 1 .. Len(log'), NEW d \in Clerk, Current(d, log'[i].Req)
               PROVE  Reply(G[i - 1], log'[i].Req) \in seen'[d]
    BY <1>2 DEF AnswersSeen, Current
  <2>1. /\ log'[Len(log) + 1] = op /\ \A j \in 1 .. Len(log) : log'[j] = log[j]
        /\ Len(log') = Len(log) + 1
    BY <1>1, <1>2 DEF TypeOK
  <2>2. CASE i \in 1 .. Len(log)
    <3>1. i - 1 \in 0 .. Len(log)
      BY <1>1, <2>2
    <3>2. Reply(H[i - 1], log[i].Req) \in seen[d]
      BY <2>1, <2>2 DEF AnswersSeen
    <3>3. QED
      BY <1>6, <2>1, <2>2, <3>1, <3>2
  <2>3. CASE i = Len(log) + 1
    <3>1. i - 1 = Len(log) /\ Len(log) \in 0 .. Len(log)
      BY <1>1, <2>3
    <3>2. G[i - 1] = committed /\ log'[i] = op
      BY <2>1, <2>3, <3>1 DEF Replays
    <3>3. d = c
      BY <1>1, <3>2, ClerkType DEF Current
    <3>4. QED
      BY <3>2, <3>3, CommitSeen
  <2>4. i \in 1 .. Len(log) \/ i = Len(log) + 1
    BY <1>1, <2>1
  <2>5. QED
    BY <2>2, <2>3, <2>4
<1>10. \A i \in 1 .. Len(log') : Issued(log'[i])
  <2>1. \A i \in 1 .. Len(log) : Issued(log[i])
    BY DEF TruthInv
  <2>2. log \in Seq(Operations) /\ Len(log') = Len(log) + 1
    BY <1>1, <1>2 DEF TypeOK
  <2>3. \A i \in 1 .. Len(log') : IF i = Len(log) + 1 THEN log'[i] = op
                                  ELSE i \in 1 .. Len(log) /\ log'[i] = log[i]
    BY <1>1, <1>2, <2>2
  <2>4. QED
    BY <1>3, <2>1, <2>3
<1>11. \A i \in 1 .. Len(log') : Issued(log[i])'
  BY <1>2, <1>10 DEF Issued
<1>12. \A o \in pending' : o \in pending /\ Issued(o)'
  BY <1>2, <1>4 DEF TruthInv
<1>13. QED
  <2>1. /\ \A k \in Key : committed'.KeyValue[k] = Absent => committed'.KeyVersion[k] = 0
        /\ \A o \in pending : Settled(o)'
        /\ \A d \in Clerk : CallTrue(d)'
    BY <1>1, <1>7, <1>8
  <2>2. QED
    BY <1>9, <1>11, <1>12, <2>1 DEF TruthInv

LEMMA SameReplays ==
  ASSUME NEW H, Replays(H), UNCHANGED <<log, committed, kv, applied, snap>>
  PROVE  Replays(H)'
BY DEF Replays

LEMMA InitTruth == Init => TruthInv
<1> SUFFICES ASSUME Init PROVE TruthInv
  OBVIOUS
<1>1. TypeOK
  BY InitTypes
<1>2. pending = {} /\ log = <<>> /\ Len(log) = 0 /\ committed = EmptyMachine /\ ops = 0
  BY DEF Init
<1>3. \A k \in Key : committed.KeyVersion[k] = 0
  BY <1>2 DEF EmptyMachine
<1>4. ASSUME NEW c \in Clerk PROVE CallTrue(c)
  <2>1. clerk[c].at = "returned" /\ clerk[c].requestId = 0 /\ clerk[c].id = 0
    BY DEF Init
  <2>2. committed.lastRequest[c] = -1
    BY <1>2 DEF EmptyMachine
  <2>3. QED
    BY <1>2, <2>1, <2>2 DEF CallTrue, Answered
<1>5. \E H : Replays(H) /\ AnswersSeen(H)
  <2> DEFINE H == [i \in {0} |-> EmptyMachine]
  <2>1. H[0] = EmptyMachine
    OBVIOUS
  <2>2. \A s \in Server : /\ kv[s] = EmptyMachine /\ applied[s] = 0
                          /\ snap[s].machine = EmptyMachine /\ snap[s].index = 0
    BY DEF Init
  <2> HIDE DEF H
  <2>3. Replays(H)
    BY <1>2, <2>1, <2>2 DEF Replays
  <2>4. AnswersSeen(H)
    BY <1>2 DEF AnswersSeen
  <2>5. QED
    BY <2>3, <2>4
<1>6. QED
  BY <1>1, <1>2, <1>3, <1>4, <1>5 DEF TruthInv

LEMMA NextTruth == TruthInv /\ [Next]_vars => TruthInv'
<1> SUFFICES ASSUME TruthInv, [Next]_vars PROVE TruthInv'
  OBVIOUS
<1>1. TypeOK /\ TypeOK'
  BY NextTypes DEF TruthInv
<1>2. PICK H : Replays(H) /\ AnswersSeen(H)
  BY DEF TruthInv
<1>3. ASSUME NEW c \in Clerk, NEW op \in {"Get", "Put"}, NEW k \in Key, NEW v \in Value,
             NEW version \in Nat, Call(c, op, k, v, version)
      PROVE  TruthInv'
  <2>1. Replays(H)'
    BY <1>2, <1>3, SameReplays DEF Call, raftVars, serverVars
  <2>2. QED
    BY <1>1, <1>2, <1>3, <2>1, CallKeeps
<1>4. ASSUME NEW c \in Clerk, NEW k \in Key, Get(c, k) PROVE TruthInv'
  BY <1>3, <1>4, KVRaftAssumption DEF Get
<1>5. ASSUME NEW c \in Clerk, NEW k \in Key, NEW v \in Value,
             NEW version \in 0 .. MaxVersion - 1, Put(c, k, v, version)
      PROVE  TruthInv'
  <2>1. version \in Nat
    OBVIOUS
  <2>2. QED
    BY <1>3, <1>5, <2>1 DEF Put
<1>6. ASSUME NEW c \in Clerk,
             \/ CallFails(c) \/ WrongLeader(c) \/ SubmitNotLeader(c)
             \/ SubmitLostTerm(c) \/ SubmitTimeOut(c) \/ SubmitResult(c)
      PROVE  TruthInv'
  <2>1. UNCHANGED <<raftVars, serverVars, ops, history>>
    BY <1>6 DEF CallFails, WrongLeader, SubmitNotLeader, SubmitLostTerm, SubmitTimeOut,
                SubmitResult
  <2>2. Replays(H)'
    BY <1>2, <2>1, SameReplays DEF raftVars, serverVars, history
  <2>3. QED
    BY <1>1, <1>2, <1>6, <2>2, ClerkCalm, CalmKeeps
<1>7. ASSUME NEW c \in Clerk, Submit(c) PROVE TruthInv'
  <2>1. Replays(H)'
    BY <1>2, <1>7, SameReplays DEF Submit, serverVars, history
  <2>2. QED
    BY <1>1, <1>2, <1>7, <2>1, SubmitKeeps
<1>8. ASSUME NEW c \in Clerk, Return(c) PROVE TruthInv'
  <2>1. Replays(H)'
    BY <1>2, <1>8, SameReplays DEF Return, raftVars, serverVars, history
  <2>2. QED
    BY <1>1, <1>2, <1>8, <2>1, ReturnKeeps
<1>9. ASSUME NEW s \in Server, Reader(s) PROVE TruthInv'
  BY <1>1, <1>2, <1>9, ReaderReplays, ReaderCalm, CalmKeeps
<1>10. ASSUME NEW s \in Server, StartKVServer(s) \/ \E p \in Server : Restore(s, p)
       PROVE  TruthInv'
  BY <1>1, <1>2, <1>10, OthersReplay, ServerCalm, CalmKeeps
<1>11. ASSUME NEW s \in Server, Elect(s) \/ StepDown(s) PROVE TruthInv'
  <2>1. Replays(H)'
    BY <1>2, <1>11, SameReplays DEF Elect, StepDown, serverVars, history
  <2>2. QED
    BY <1>1, <1>2, <1>11, <2>1, ServerCalm, CalmKeeps
<1>12. ASSUME NEW op \in pending, Commit(op) PROVE TruthInv'
  <2>1. PICK G : Replays(G)' /\ \A i \in 0 .. Len(log) : G[i] = H[i]
    BY <1>1, <1>2, <1>12, CommitReplays
  <2>2. QED
    BY <1>1, <1>2, <1>12, <2>1, CommitKeeps
<1>13. CASE UNCHANGED vars
  <2>1. UNCHANGED <<pending, log, ops, committed, seen, performed, clerk>>
    BY <1>13 DEF vars, raftVars, history
  <2>2. Calm
    BY <2>1, CallKept DEF Calm
  <2>3. Replays(H)'
    BY <1>2, <1>13, SameReplays DEF vars, raftVars, serverVars, history
  <2>4. QED
    BY <1>1, <1>2, <2>2, <2>3, CalmKeeps
<1>14. QED
  BY <1>4, <1>5, <1>6, <1>7, <1>8, <1>9, <1>10, <1>11, <1>12, <1>13 DEF Next

LEMMA TruthHolds == Spec => []TruthInv
BY InitTruth, NextTruth, PTL DEF Spec

\* ReplicasAgree: however servers come by their state machines (Reader(),
\* Restore() or a restart), those that have applied as much of the log are equal.
THEOREM ReplicasStayEqual == Spec => []ReplicasAgree
<1>1. TruthInv => ReplicasAgree
  BY DEF TruthInv, Replays, ReplicasAgree
<1>2. QED
  BY <1>1, TruthHolds, PTL

-----------------------------------------------------------------------------
(***************************************************************************)
(* Refinement: the store of the service is the state machine after the     *)
(* whole log, and an operation takes effect when it is committed.          *)
(***************************************************************************)
callVars == <<ServiceOp, ServiceOpen, ServiceResult>>
serviceVars == <<ServiceStore, ServiceOp, ServiceOpen, ServiceApplied, seen, ServiceResult>>

\* A step that the caller of a clerk does not see.
Unmoved(c) ==
  /\ clerk'[c].args = clerk[c].args
  /\ clerk'[c].at = "returned" <=> clerk[c].at = "returned"
  /\ clerk[c].at = "returned" => clerk'[c].reply = clerk[c].reply

LEMMA UnmovedValues ==
  ASSUME NEW c \in Clerk, Unmoved(c)
  PROVE  /\ ServiceOp'[c] = ServiceOp[c] /\ ServiceOpen'[c] = ServiceOpen[c]
         /\ ServiceResult'[c] = ServiceResult[c]
<1>1. ServiceOp'[c] = ServiceOp[c]
  BY DEF Unmoved, ServiceOp
<1>2. ServiceOpen'[c] = ServiceOpen[c]
  BY DEF Unmoved, ServiceOpen
<1>3. ServiceResult'[c] = ServiceResult[c]
  BY DEF Unmoved, ServiceResult
<1>4. QED
  BY <1>1, <1>2, <1>3

LEMMA OnClerks ==
  /\ ServiceOp = [d \in Clerk |-> ServiceOp[d]]
  /\ ServiceOpen = [d \in Clerk |-> ServiceOpen[d]]
  /\ ServiceResult = [d \in Clerk |-> ServiceResult[d]]
  /\ ServiceOp' = [d \in Clerk |-> ServiceOp'[d]]
  /\ ServiceOpen' = [d \in Clerk |-> ServiceOpen'[d]]
  /\ ServiceResult' = [d \in Clerk |-> ServiceResult'[d]]
<1>1. ServiceOp = [d \in Clerk |-> ServiceOp[d]] /\ ServiceOp' = [d \in Clerk |-> ServiceOp'[d]]
  BY DEF ServiceOp
<1>2. /\ ServiceOpen = [d \in Clerk |-> ServiceOpen[d]]
      /\ ServiceOpen' = [d \in Clerk |-> ServiceOpen'[d]]
  BY DEF ServiceOpen
<1>3. /\ ServiceResult = [d \in Clerk |-> ServiceResult[d]]
      /\ ServiceResult' = [d \in Clerk |-> ServiceResult'[d]]
  BY DEF ServiceResult
<1>4. QED
  BY <1>1, <1>2, <1>3

\* A function on clerks of which a step changes one value, or none.
LEMMA OneChanged ==
  ASSUME NEW f, NEW g, NEW c \in Clerk, NEW x,
         f = [d \in Clerk |-> f[d]], g = [d \in Clerk |-> g[d]],
         g[c] = x, \A d \in Clerk : d # c => g[d] = f[d]
  PROVE  g = [f EXCEPT ![c] = x]
OBVIOUS

LEMMA NoneChanged ==
  ASSUME NEW f, NEW g, f = [d \in Clerk |-> f[d]], g = [d \in Clerk |-> g[d]],
         \A d \in Clerk : g[d] = f[d]
  PROVE  g = f
OBVIOUS

LEMMA UnmovedCalls ==
  ASSUME \A d \in Clerk : Unmoved(d)
  PROVE  UNCHANGED callVars
<1>1. \A d \in Clerk : /\ ServiceOp'[d] = ServiceOp[d] /\ ServiceOpen'[d] = ServiceOpen[d]
                       /\ ServiceResult'[d] = ServiceResult[d]
  BY UnmovedValues
<1>2. ServiceOp' = ServiceOp
  BY <1>1, OnClerks, NoneChanged, ZenonT(60)
<1>3. ServiceOpen' = ServiceOpen
  BY <1>1, OnClerks, NoneChanged, ZenonT(60)
<1>4. ServiceResult' = ServiceResult
  BY <1>1, OnClerks, NoneChanged, ZenonT(60)
<1>5. QED
  BY <1>2, <1>3, <1>4 DEF callVars

LEMMA OneMoved ==
  ASSUME NEW c \in Clerk, \A d \in Clerk : d # c => Unmoved(d)
  PROVE  /\ ServiceOp' = [ServiceOp EXCEPT ![c] = ServiceOp'[c]]
         /\ ServiceOpen' = [ServiceOpen EXCEPT ![c] = ServiceOpen'[c]]
         /\ ServiceResult' = [ServiceResult EXCEPT ![c] = ServiceResult'[c]]
<1>1. \A d \in Clerk : d # c => /\ ServiceOp'[d] = ServiceOp[d]
                                /\ ServiceOpen'[d] = ServiceOpen[d]
                                /\ ServiceResult'[d] = ServiceResult[d]
  BY UnmovedValues
<1>2. ServiceOp' = [ServiceOp EXCEPT ![c] = ServiceOp'[c]]
  BY <1>1, OnClerks, OneChanged, ZenonT(60)
<1>3. ServiceOpen' = [ServiceOpen EXCEPT ![c] = ServiceOpen'[c]]
  BY <1>1, OnClerks, OneChanged, ZenonT(60)
<1>4. ServiceResult' = [ServiceResult EXCEPT ![c] = ServiceResult'[c]]
  BY <1>1, OnClerks, OneChanged, ZenonT(60)
<1>5. QED
  BY <1>2, <1>3, <1>4

LEMMA StoreStays ==
  ASSUME UNCHANGED <<committed, performed>>
  PROVE  ServiceStore' = ServiceStore /\ ServiceApplied' = ServiceApplied
BY DEF ServiceStore, ServiceApplied

LEMMA ZeroIsNotPositive ==
  ASSUME NEW n, n = 0
  PROVE  (n > 0) = FALSE
OBVIOUS

LEMMA CalmRefines ==
  ASSUME Calm
  PROVE  UNCHANGED serviceVars
<1>1. \A d \in Clerk : Unmoved(d)
  BY DEF Calm, CalmCall, Unmoved
<1>2. UNCHANGED <<committed, performed, seen>>
  BY DEF Calm
<1>3. QED
  BY <1>1, <1>2, UnmovedCalls, StoreStays DEF serviceVars, callVars

LEMMA SubmitRefines ==
  ASSUME TruthInv, NEW c \in Clerk, Submit(c)
  PROVE  UNCHANGED serviceVars
<1>1. clerk \in [Clerk -> Calls] /\ clerk[c].at # "returned"
  BY DEF TruthInv, TypeOK, Submit
<1>2. /\ clerk'[c].at = "waiting" /\ clerk'[c].args = clerk[c].args
      /\ \A d \in Clerk : d # c => clerk'[d] = clerk[d]
  BY <1>1 DEF Submit, Calls
<1>3. \A d \in Clerk : Unmoved(d)
  BY <1>1, <1>2 DEF Unmoved
<1>4. UNCHANGED <<committed, performed, seen>>
  BY DEF Submit, history
<1>5. QED
  BY <1>3, <1>4, UnmovedCalls, StoreStays DEF serviceVars, callVars

LEMMA CallRefines ==
  ASSUME TruthInv, NEW c \in Clerk, NEW op \in {"Get", "Put"}, NEW k \in Key,
         NEW v \in Value, NEW version \in Nat, Call(c, op, k, v, version)
  PROVE  Service!Call(c, op, k, v, version)
<1>1. /\ clerk \in [Clerk -> Calls] /\ clerk[c].at = "returned"
      /\ performed \in [Clerk -> Nat]
  BY DEF TruthInv, TypeOK, Call
<1>2. /\ seen' = [seen EXCEPT ![c] = {}] /\ performed' = [performed EXCEPT ![c] = 0]
      /\ committed' = committed
  BY DEF Call
<1>3. /\ clerk'[c].at = "sent" /\ clerk'[c].args.op = op /\ clerk'[c].args.Key = k
      /\ clerk'[c].args.Value = v /\ clerk'[c].args.Version = version
      /\ \A d \in Clerk : d # c => clerk'[d] = clerk[d]
  BY <1>1 DEF Call
<1>4. \A d \in Clerk : d # c => Unmoved(d)
  BY <1>3 DEF Unmoved
<1>5. ServiceOpen[c] = FALSE /\ ServiceOpen'[c] = TRUE
  BY <1>1, <1>3 DEF ServiceOpen
<1>6. ServiceOp'[c] = [kind |-> op, key |-> k, value |-> v, version |-> version]
  BY <1>3 DEF ServiceOp
<1>7. ServiceResult'[c] = Service!NoReply
  <2>1. NoReply = Service!NoReply
    BY DEF NoReply, PutReply, Service!NoReply, Service!PutReply
  <2>2. ServiceResult'[c] = NoReply
    BY <1>3 DEF ServiceResult
  <2>3. QED
    BY <2>1, <2>2
<1>8. ServiceApplied' = [ServiceApplied EXCEPT ![c] = FALSE]
  <2>1. /\ ServiceApplied = [d \in Clerk |-> ServiceApplied[d]]
        /\ ServiceApplied' = [d \in Clerk |-> ServiceApplied'[d]]
    BY DEF ServiceApplied
  <2>2. performed'[c] = 0 /\ \A d \in Clerk : d # c => performed'[d] = performed[d]
    BY <1>1, <1>2
  <2>3. \A d \in Clerk : d # c => ServiceApplied'[d] = ServiceApplied[d]
    BY <2>2 DEF ServiceApplied
  <2>4. ServiceApplied'[c] = (performed'[c] > 0)
    BY DEF ServiceApplied
  <2>5. ServiceApplied'[c] = FALSE
    BY <2>2, <2>4, ZeroIsNotPositive
  <2>6. QED
    BY <2>1, <2>3, <2>5, OneChanged, ZenonT(60)
<1>9. ServiceStore' = ServiceStore
  BY <1>2 DEF ServiceStore
<1>10. /\ ServiceOp' = [ServiceOp EXCEPT ![c] = ServiceOp'[c]]
       /\ ServiceOpen' = [ServiceOpen EXCEPT ![c] = ServiceOpen'[c]]
       /\ ServiceResult' = [ServiceResult EXCEPT ![c] = ServiceResult'[c]]
  BY <1>4, OneMoved
<1>11. QED
  BY <1>2, <1>5, <1>6, <1>7, <1>8, <1>9, <1>10, ZenonT(60) DEF Service!Call

\* The answer is true: for a Put, it is the one in the table.
LEMMA ReturnRefines ==
  ASSUME TruthInv, NEW c \in Clerk, Return(c)
  PROVE  Service!Return(c)
<1>1. /\ TypeOK /\ clerk \in [Clerk -> Calls] /\ clerk[c].at = "replied"
      /\ Answered(c) /\ CallTrue(c)
  BY DEF TruthInv, TypeOK, Return, Answered
<1>2. UNCHANGED <<committed, seen, performed>>
  BY DEF Return, history
<1>3. /\ clerk'[c].at = "returned" /\ clerk'[c].args = clerk[c].args
      /\ clerk'[c].reply = clerk[c].reply
      /\ \A d \in Clerk : d # c => clerk'[d] = clerk[d]
  BY <1>1 DEF Return, Calls
<1>4. \A d \in Clerk : d # c => Unmoved(d)
  BY <1>3 DEF Unmoved
<1>5. ServiceOpen[c] /\ ServiceOpen'[c] = FALSE
  BY <1>1, <1>3 DEF ServiceOpen
<1>6. ServiceOp' = ServiceOp
  <2>1. \A d \in Clerk : clerk'[d].args = clerk[d].args
    BY <1>3
  <2>2. QED
    BY <2>1 DEF ServiceOp
<1>7. ServiceResult'[c] = clerk[c].reply
  BY <1>3 DEF ServiceResult
<1>8. clerk[c].reply \in Service!Truthful(c)
  <2>1. clerk[c].args \in Requests /\ clerk[c].args.op \in {"Get", "Put"}
    BY <1>1, ClerkType DEF Requests
  <2>2. ServiceOp[c].kind = clerk[c].args.op
    BY <2>1 DEF ServiceOp
  <2>3. clerk[c].reply \in seen[c]
    BY <1>1 DEF CallTrue
  <2>4. CASE clerk[c].args.op = "Get"
    BY <2>2, <2>3, <2>4 DEF Service!Truthful
  <2>5. CASE clerk[c].args.op = "Put"
    <3>1. Tabled(c)
      BY <1>1, <2>5 DEF CallTrue
    <3>2. clerk[c].reply.Err = "OK" <=> performed[c] > 0
      BY <2>3, <3>1 DEF Tabled
    <3>3. clerk[c].reply.Err = "OK" <=> ServiceApplied[c]
      BY <3>2 DEF ServiceApplied
    <3>4. QED
      BY <2>2, <2>3, <2>5, <3>3 DEF Service!Truthful
  <2>6. QED
    BY <2>1, <2>4, <2>5
<1>9. /\ ServiceOpen' = [ServiceOpen EXCEPT ![c] = ServiceOpen'[c]]
      /\ ServiceResult' = [ServiceResult EXCEPT ![c] = ServiceResult'[c]]
  BY <1>4, OneMoved
<1>10. ServiceStore' = ServiceStore /\ ServiceApplied' = ServiceApplied
  BY <1>2, StoreStays
<1>11. QED
  BY <1>2, <1>5, <1>6, <1>7, <1>8, <1>9, <1>10, ZenonT(60) DEF Service!Return

\* The operation of a call that is open reaches the store when it is committed,
\* unless it is a copy of a Put that the table has.
LEMMA CommitRefines ==
  ASSUME TruthInv, NEW op \in pending, Commit(op), NEW c, c = op.Req.ClientId
  PROVE  \/ Service!Look(c) \/ Service!Apply(c) \/ Service!Refuse(c)
         \/ UNCHANGED serviceVars
<1> DEFINE req == op.Req
           reply == Reply(committed, req)
           err == PutErr(committed, req)
<1>1. /\ TypeOK /\ committed \in Machines /\ req \in Requests /\ c \in Clerk
      /\ seen \in [Clerk -> SUBSET Replies] /\ performed \in [Clerk -> Nat]
  BY OperationTypes DEF TruthInv, TypeOK
<1>2. /\ req.Key \in Key /\ req.op \in {"Get", "Put"}
      /\ committed.KeyValue \in [Key -> Value \cup {Absent}]
      /\ committed.KeyVersion \in [Key -> Nat]
  BY <1>1 DEF Requests, Machines
<1>3. UNCHANGED callVars
  <2>1. clerk' = clerk
    BY DEF Commit
  <2>2. QED
    BY <2>1, UnmovedCalls DEF Unmoved
<1>4. /\ ServiceStore[req.Key].value = committed.KeyValue[req.Key]
      /\ ServiceStore[req.Key].version = committed.KeyVersion[req.Key]
  BY <1>2 DEF ServiceStore
<1>5. CASE ~Current(c, req)
  <2>1. UNCHANGED <<committed, performed>> /\ seen' = seen
    BY <1>5, CommitMeans, CommitSeen
  <2>2. QED
    BY <1>3, <2>1, StoreStays DEF serviceVars, callVars
<1>6. CASE Current(c, req)
  <2>1. /\ ServiceOpen[c] /\ ServiceOp[c].kind = req.op /\ ServiceOp[c].key = req.Key
        /\ ServiceOp[c].value = req.Value /\ ServiceOp[c].version = req.Version
    <3>1. ServiceOpen[c]
      BY <1>1, <1>6 DEF ServiceOpen, Current
    <3>2. clerk[c].args = req /\ clerk[c].args.op # "none"
      BY <1>2, <1>6 DEF Current
    <3> HIDE DEF req
    <3>3. QED
      BY <1>1, <3>1, <3>2 DEF ServiceOp
  <2>2. Service!Note(c, reply)
    <3>1. seen' = [seen EXCEPT ![c] = seen[c] \cup {reply}]
      <4>1. seen'[c] = seen[c] \cup {reply} /\ \A d \in Clerk : d # c => seen'[d] = seen[d]
        BY <1>6, CommitSeen
      <4>2. seen' = [d \in Clerk |-> seen'[d]] /\ seen = [d \in Clerk |-> seen[d]]
        BY <1>1 DEF Commit
      <4> HIDE DEF reply
      <4>3. QED
        BY <1>1, <4>1, <4>2, OneChanged, ZenonT(60)
    <3>2. QED
      BY <3>1, ZenonT(60) DEF Service!Note
  <2>3. CASE req.op = "Get"
    <3>1. UNCHANGED <<committed, performed>>
      BY <2>3, CommitMeans
    <3>2. reply = GetReply(committed, req.Key)
      BY <2>3 DEF Reply
    <3>3. Service!Lookup(req.Key) = reply
      <4> HIDE DEF reply, req
      <4>1. QED
        BY <1>4, <3>2 DEF GetReply, PutReply, Service!Lookup
    <3> HIDE DEF reply, req
    <3>4. Service!Look(c)
      BY <1>3, <2>1, <2>2, <2>3, <3>1, <3>3, StoreStays DEF Service!Look, callVars
    <3>5. QED
      BY <3>4
  <2>4. CASE req.op = "Put" /\ Duplicate(committed, req)
    <3>1. UNCHANGED <<committed, performed>> /\ seen' = seen
      BY <1>6, <2>4, CommitMeans, CommitSeen
    <3>2. QED
      BY <1>3, <3>1, StoreStays DEF serviceVars, callVars
  <2>5. ASSUME req.op = "Put", ~Duplicate(committed, req)
        PROVE  Service!Apply(c) \/ Service!Refuse(c)
    <3>1. performed[c] = 0 /\ reply = PutReply(err)
      BY <2>5, CommitMeans
    <3>2. \/ /\ err = "OK"
             /\ committed'.KeyValue = [committed.KeyValue EXCEPT ![req.Key] = req.Value]
             /\ committed'.KeyVersion =
                  [committed.KeyVersion EXCEPT ![req.Key] = req.Version + 1]
             /\ performed' = [performed EXCEPT ![c] = 1]
          \/ /\ err # "OK"
             /\ committed'.KeyValue = committed.KeyValue
             /\ committed'.KeyVersion = committed.KeyVersion
             /\ performed' = performed
      BY <2>5, CommitMeans
    <3>3. Service!Verdict(req.Key, req.Version) = err
      <4> HIDE DEF req
      <4>1. QED
        BY <1>4 DEF PutErr, Service!Verdict
    <3>4. PutReply(err) = Service!PutReply(err)
      BY DEF PutReply, Service!PutReply
    <3>5. Service!Note(c, Service!PutReply(err))
      BY <2>2, <3>1, <3>4
    <3> HIDE DEF req, err, reply
    <3>6. CASE err = "OK"
      <4>1. /\ committed'.KeyValue = [committed.KeyValue EXCEPT ![req.Key] = req.Value]
            /\ committed'.KeyVersion =
                 [committed.KeyVersion EXCEPT ![req.Key] = req.Version + 1]
            /\ performed' = [performed EXCEPT ![c] = 1]
        BY <3>2, <3>6
      <4>2. ServiceApplied' = [ServiceApplied EXCEPT ![c] = TRUE] /\ ~ServiceApplied[c]
        <5>1. /\ ServiceApplied = [d \in Clerk |-> ServiceApplied[d]]
              /\ ServiceApplied' = [d \in Clerk |-> ServiceApplied'[d]]
          BY DEF ServiceApplied
        <5>2. performed'[c] = 1 /\ \A d \in Clerk : d # c => performed'[d] = performed[d]
          BY <1>1, <4>1
        <5>3. \A d \in Clerk : d # c => ServiceApplied'[d] = ServiceApplied[d]
          BY <5>2 DEF ServiceApplied
        <5>4. ServiceApplied'[c] = TRUE
          <6>1. performed'[c] > 0
            BY <5>2
          <6>2. QED
            BY <1>1, <6>1 DEF ServiceApplied
        <5>5. ~ServiceApplied[c]
          <6>1. ~(performed[c] > 0)
            BY <3>1
          <6>2. QED
            BY <1>1, <6>1 DEF ServiceApplied
        <5>6. ServiceApplied' = [ServiceApplied EXCEPT ![c] = TRUE]
          BY <1>1, <5>1, <5>3, <5>4, OneChanged, ZenonT(60)
        <5>7. QED
          BY <5>5, <5>6
      <4>3. ServiceStore' = [ServiceStore EXCEPT ![req.Key] =
              [value |-> req.Value, version |-> req.Version + 1]]
        <5>1. /\ committed'.KeyValue[req.Key] = req.Value
              /\ committed'.KeyVersion[req.Key] = req.Version + 1
              /\ \A j \in Key : j # req.Key =>
                   /\ committed'.KeyValue[j] = committed.KeyValue[j]
                   /\ committed'.KeyVersion[j] = committed.KeyVersion[j]
          BY <1>2, <4>1
        <5> DEFINE new == [value |-> req.Value, version |-> req.Version + 1]
        <5>2. ServiceStore'[req.Key] = new
          BY <1>2, <5>1 DEF ServiceStore
        <5>3. \A j \in Key : j # req.Key => ServiceStore'[j] = ServiceStore[j]
          BY <5>1 DEF ServiceStore
        <5>4. /\ ServiceStore' = [j \in Key |-> ServiceStore'[j]]
              /\ ServiceStore = [j \in Key |-> ServiceStore[j]]
          BY DEF ServiceStore
        <5> HIDE DEF new
        <5>5. ServiceStore' = [ServiceStore EXCEPT ![req.Key] = new]
          BY <1>2, <5>2, <5>3, <5>4
        <5>6. QED
          BY <5>5 DEF new
      <4>4. Service!Apply(c)
        BY <1>3, <2>1, <2>5, <3>3, <3>5, <3>6, <4>2, <4>3, ZenonT(60) DEF Service!Apply, callVars
      <4>5. QED
        BY <4>4
    <3>7. CASE err # "OK"
      <4>1. UNCHANGED <<committed.KeyValue, committed.KeyVersion, performed>>
        BY <3>2, <3>7
      <4>2. ServiceStore' = ServiceStore /\ ServiceApplied' = ServiceApplied
        BY <4>1 DEF ServiceStore, ServiceApplied
      <4>3. Service!Refuse(c)
        BY <1>3, <2>1, <2>5, <3>3, <3>5, <3>7, <4>2 DEF Service!Refuse, callVars
      <4>4. QED
        BY <4>3
    <3>8. QED
      BY <3>6, <3>7
  <2>6. QED
    BY <1>2, <2>3, <2>4, <2>5
<1>7. QED
  BY <1>5, <1>6

\* The replicated servers and their clerks are a KVService: whatever is
\* committed twice, answered by another server, restored from a snapshot or
\* restarted, a Put takes effect at most once, where the log first has it, and
\* a clerk returns what the log answered.
THEOREM ReplicatedIsService == Spec => ImplementsService
<1>1. Init => Service!Init
  <2> SUFFICES ASSUME Init PROVE Service!Init
    OBVIOUS
  <2>1. ServiceStore = [k \in Key |-> [value |-> Absent, version |-> 0]]
    BY DEF Init, ServiceStore, EmptyMachine
  <2>2. \A c \in Clerk :
          /\ clerk[c].args.op = "none" /\ clerk[c].at = "returned" /\ clerk[c].reply = NoReply
          /\ performed[c] = 0
    BY DEF Init, NoCall
  <2>3. ServiceOp = [c \in Clerk |-> [kind |-> "none"]]
    BY <2>2 DEF ServiceOp
  <2>4. ServiceOpen = [c \in Clerk |-> FALSE]
    BY <2>2 DEF ServiceOpen
  <2>5. ServiceApplied = [c \in Clerk |-> FALSE]
    <3>1. \A c \in Clerk : (performed[c] > 0) = FALSE
      BY <2>2, ZeroIsNotPositive
    <3>2. QED
      BY <3>1, ZenonT(60) DEF ServiceApplied
  <2>6. ServiceResult = [c \in Clerk |-> Service!NoReply]
    <3>1. NoReply = Service!NoReply
      BY DEF NoReply, PutReply, Service!NoReply, Service!PutReply
    <3>2. ServiceResult = [c \in Clerk |-> NoReply]
      BY <2>2 DEF ServiceResult
    <3>3. QED
      BY <3>1, <3>2
  <2>7. seen = [c \in Clerk |-> {}]
    BY DEF Init
  <2>8. QED
    BY <2>1, <2>3, <2>4, <2>5, <2>6, <2>7 DEF Service!Init
<1>2. TruthInv /\ [Next]_vars => [Service!Next]_serviceVars
  <2> SUFFICES ASSUME TruthInv, [Next]_vars
               PROVE  Service!Next \/ UNCHANGED serviceVars
    OBVIOUS
  <2>1. PICK H : Replays(H) /\ AnswersSeen(H)
    BY DEF TruthInv
  <2>2. ASSUME NEW c \in Clerk, NEW k \in Key, Get(c, k) PROVE Service!Next
    <3>1. Service!Call(c, "Get", k, Empty, 0)
      BY <2>2, CallRefines, KVRaftAssumption DEF Get
    <3>2. QED
      BY <3>1 DEF Service!Next
  <2>3. ASSUME NEW c \in Clerk, NEW k \in Key, NEW v \in Value,
               NEW version \in 0 .. MaxVersion - 1, Put(c, k, v, version)
        PROVE  Service!Next
    <3>1. version \in Nat
      OBVIOUS
    <3>2. Service!Call(c, "Put", k, v, version)
      BY <2>3, <3>1, CallRefines DEF Put
    <3>3. QED
      BY <3>2 DEF Service!Next
  <2>4. ASSUME NEW c \in Clerk, Return(c) PROVE Service!Next
    BY <2>4, ReturnRefines DEF Service!Next
  <2>5. ASSUME NEW c \in Clerk,
               \/ CallFails(c) \/ WrongLeader(c) \/ SubmitNotLeader(c)
               \/ SubmitLostTerm(c) \/ SubmitTimeOut(c) \/ SubmitResult(c)
        PROVE  UNCHANGED serviceVars
    BY <2>5, ClerkCalm, CalmRefines
  <2>6. ASSUME NEW c \in Clerk, Submit(c) PROVE UNCHANGED serviceVars
    BY <2>6, SubmitRefines
  <2>7. ASSUME NEW s \in Server, Reader(s) PROVE UNCHANGED serviceVars
    BY <2>1, <2>7, ReaderCalm, CalmRefines
  <2>8. ASSUME NEW s \in Server,
               StartKVServer(s) \/ Elect(s) \/ StepDown(s) \/ \E p \in Server : Restore(s, p)
        PROVE  UNCHANGED serviceVars
    BY <2>8, ServerCalm, CalmRefines
  <2>9. ASSUME NEW op \in pending, Commit(op) PROVE Service!Next \/ UNCHANGED serviceVars
    <3>1. op.Req.ClientId \in Clerk
      BY OperationTypes DEF TruthInv
    <3>2. QED
      BY <2>9, <3>1, CommitRefines DEF Service!Next
  <2>10. CASE UNCHANGED vars
    BY <2>10 DEF vars, raftVars, history, serviceVars, ServiceStore, ServiceOp, ServiceOpen,
                 ServiceApplied, ServiceResult
  <2>11. QED
    BY <2>2, <2>3, <2>4, <2>5, <2>6, <2>7, <2>8, <2>9, <2>10 DEF Next
<1>3. QED
  BY <1>1, <1>2, TruthHolds, PTL
     DEF Spec, ImplementsService, Service!Spec, Service!svars, serviceVars

-----------------------------------------------------------------------------
(***************************************************************************)
(* Shard configurations (ShardCfg).                                        *)
(*                                                                         *)
(* analyze(): the group with the fewest shards, and the one with the most. *)
(***************************************************************************)
LEMMA FirstIsLeast ==
  ASSUME NEW S \in SUBSET Nat, S # {}
  PROVE  First(S) \in S /\ \A t \in S : First(S) <= t
<1>1. PICK x \in S : \A y \in S : ~ (<<y, x>> \in OpToRel(<, Nat))
  BY NatLessThanWellFounded, WFMin, ZenonT(60)
<1>2. \A y \in S : x <= y
  <2> SUFFICES ASSUME NEW y \in S, ~ (x <= y) PROVE FALSE
    OBVIOUS
  <2>1. y \in Nat /\ x \in Nat /\ y < x
    OBVIOUS
  <2>2. <<y, x>> \in OpToRel(<, Nat)
    BY <2>1 DEF OpToRel
  <2>3. QED
    BY <1>1, <2>2
<1>3. QED
  BY <1>2 DEF First

\* The shards of g, in the assignment f.
Owned(f, g) == {s \in Shard : f[s] = g}

LEMMA OwnedIsFinite ==
  ASSUME NEW f, NEW g
  PROVE  /\ IsFiniteSet(Owned(f, g))
         /\ Cardinality(Owned(f, g)) \in 0 .. NShards
<1>1. IsFiniteSet(Shard) /\ Cardinality(Shard) = NShards
  <2>1. NShards \in Nat /\ 0 \in Int /\ NShards - 1 \in Int
    BY ShardAssumption
  <2>2. /\ IsFiniteSet(0 .. NShards - 1)
        /\ Cardinality(0 .. NShards - 1) = IF 0 > NShards - 1 THEN 0 ELSE NShards - 1 - 0 + 1
    BY <2>1, FS_Interval, ZenonT(60)
  <2>3. QED
    BY <2>1, <2>2, ShardAssumption DEF Shard
<1>2. Owned(f, g) \in SUBSET Shard
  BY DEF Owned
<1>3. IsFiniteSet(Owned(f, g)) /\ Cardinality(Owned(f, g)) <= Cardinality(Shard)
  BY <1>1, <1>2, FS_Subset, ZenonT(60)
<1>4. Cardinality(Owned(f, g)) \in Nat
  BY <1>3, FS_CardinalityType, ZenonT(60)
<1>5. QED
  BY <1>1, <1>3, <1>4, ShardAssumption

LEMMA CountType ==
  ASSUME NEW g
  PROVE  Count(g) \in 0 .. NShards /\ Count(g) = Cardinality(Owned(Shards, g))
<1>1. Count(g) = Cardinality(Owned(Shards, g))
  BY DEF Count, Owned
<1>2. QED
  BY <1>1, OwnedIsFinite, ZenonT(60)

LEMMA LeastHasFewest ==
  ASSUME Groups \in SUBSET Gid, Groups # {}
  PROVE  Least \in Groups /\ \A h \in Groups : Count(Least) <= Count(h)
<1> DEFINE Counts == {Count(g) : g \in Groups}
           Few == {g \in Groups : Count(g) = First(Counts)}
<1>1. \A g : Count(g) \in Nat
  BY CountType
<1>2. First(Counts) \in Counts /\ \A t \in Counts : First(Counts) <= t
  <2>1. Counts \in SUBSET Nat /\ Counts # {}
    BY <1>1, ZenonT(60)
  <2>2. QED
    BY <2>1, FirstIsLeast, ZenonT(60)
<1>3. First(Few) \in Few /\ \A t \in Few : First(Few) <= t
  <2>1. Few \in SUBSET Nat
    <3>1. Few \subseteq Groups
      BY ZenonT(60)
    <3>2. Gid \subseteq Nat
      BY ShardAssumption, SMTT(60), Z3T(60) DEF Gid
    <3>3. QED
      BY <3>1, <3>2, ZenonT(60)
  <2>2. PICK g \in Groups : First(Counts) = Count(g)
    BY <1>2, ZenonT(60)
  <2>3. Few # {}
    BY <2>2, ZenonT(60)
  <2>4. QED
    BY <2>1, <2>3, FirstIsLeast, ZenonT(60)
<1>4. \E g \in Groups : \A h \in Groups :
        Count(g) < Count(h) \/ (Count(g) = Count(h) /\ g <= h)
  <2>1. ASSUME NEW h \in Groups
        PROVE  \/ Count(First(Few)) < Count(h)
               \/ Count(First(Few)) = Count(h) /\ First(Few) <= h
    <3>1. Count(First(Few)) <= Count(h)
      BY <1>2, <1>3
    <3>2. Count(First(Few)) = Count(h) => First(Few) <= h
      BY <1>3
    <3> HIDE DEF Few
    <3>3. QED
      BY <1>1, <3>1, <3>2
  <2>2. QED
    BY <1>3, <2>1
<1>5. /\ Least \in Groups
      /\ \A h \in Groups : Count(Least) < Count(h) \/ (Count(Least) = Count(h) /\ Least <= h)
  BY <1>4, ZenonT(60) DEF Least
<1>6. QED
  BY <1>1, <1>5

LEMMA MostHasMost ==
  ASSUME Groups \in SUBSET Gid, Groups # {}
  PROVE  Most \in Groups /\ \A h \in Groups : Count(h) <= Count(Most)
<1> DEFINE Lacks == {NShards - Count(g) : g \in Groups}
           Many == {g \in Groups : NShards - Count(g) = First(Lacks)}
<1>1. \A g : Count(g) \in Nat /\ NShards - Count(g) \in Nat
  BY CountType, ShardAssumption
<1>2. First(Lacks) \in Lacks /\ \A t \in Lacks : First(Lacks) <= t
  <2>1. \A g \in Groups : NShards - Count(g) \in Nat
    BY <1>1
  <2>2. Lacks \in SUBSET Nat /\ Lacks # {}
    BY <2>1, ZenonT(60)
  <2>3. QED
    BY <2>2, FirstIsLeast, ZenonT(60)
<1>3. First(Many) \in Many /\ \A t \in Many : First(Many) <= t
  <2>1. Many \in SUBSET Nat
    <3>1. Many \subseteq Groups
      BY ZenonT(60)
    <3>2. Gid \subseteq Nat
      BY ShardAssumption, SMTT(60), Z3T(60) DEF Gid
    <3>3. QED
      BY <3>1, <3>2, ZenonT(60)
  <2>2. PICK g \in Groups : First(Lacks) = NShards - Count(g)
    BY <1>2, ZenonT(60)
  <2>3. Many # {}
    BY <2>2, ZenonT(60)
  <2>4. QED
    BY <2>1, <2>3, FirstIsLeast, ZenonT(60)
<1>4. \E g \in Groups : \A h \in Groups :
        Count(g) > Count(h) \/ (Count(g) = Count(h) /\ g <= h)
  <2>1. ASSUME NEW h \in Groups
        PROVE  \/ Count(First(Many)) > Count(h)
               \/ Count(First(Many)) = Count(h) /\ First(Many) <= h
    <3>1. First(Lacks) <= NShards - Count(h)
      BY <1>2
    <3>2. NShards - Count(First(Many)) = First(Lacks)
      BY <1>3
    <3>3. Count(First(Many)) = Count(h) => First(Many) <= h
      BY <1>3
    <3> HIDE DEF Many, Lacks
    <3>4. QED
      BY <1>1, <3>1, <3>2, <3>3, ShardAssumption
  <2>2. QED
    BY <1>3, <2>1
<1>5. /\ Most \in Groups
      /\ \A h \in Groups : Count(Most) > Count(h) \/ (Count(Most) = Count(h) /\ Most <= h)
  BY <1>4, ZenonT(60) DEF Most
<1>6. QED
  BY <1>1, <1>5

\* What one shard that changes hands does to the counts.
LEMMA ShardMoves ==
  ASSUME NEW f, NEW e, NEW s \in Shard, NEW x, NEW g, x # g,
         f[s] = x, e[s] = g, \A t \in Shard \ {s} : e[t] = f[t]
  PROVE  /\ Cardinality(Owned(e, g)) = Cardinality(Owned(f, g)) + 1
         /\ Cardinality(Owned(e, x)) = Cardinality(Owned(f, x)) - 1
         /\ \A h : h # g /\ h # x => Owned(e, h) = Owned(f, h)
<1>1. \A h : IsFiniteSet(Owned(f, h)) /\ Cardinality(Owned(f, h)) \in Nat
  BY OwnedIsFinite
<1>2. Owned(e, g) = Owned(f, g) \cup {s} /\ s \notin Owned(f, g)
  BY ZenonT(60) DEF Owned
<1>3. Owned(e, x) = Owned(f, x) \ {s} /\ s \in Owned(f, x)
  BY SMTT(60) DEF Owned
<1>4. \A h : h # g /\ h # x => Owned(e, h) = Owned(f, h)
  BY ZenonT(60) DEF Owned
<1>5. Cardinality(Owned(e, g)) = Cardinality(Owned(f, g)) + 1
  BY <1>1, <1>2, FS_AddElement, ZenonT(60)
<1>6. Cardinality(Owned(e, x)) = Cardinality(Owned(f, x)) - 1
  BY <1>1, <1>3, FS_RemoveElement, ZenonT(60)
<1>7. QED
  BY <1>4, <1>5, <1>6, ZenonT(60)

LEMMA CountsOwned ==
  ASSUME NEW h
  PROVE  Count(h) = Cardinality(Owned(Shards, h)) /\ Count(h)' = Cardinality(Owned(Shards', h))
BY DEF Count, Owned

-----------------------------------------------------------------------------
(***************************************************************************)
(* The inductive invariant.  Close says why the second loop only ever      *)
(* takes shards from groups that were there before the call and gives them *)
(* to groups that joined in it: only between two such groups can the       *)
(* counts differ by more than one.                                         *)
(***************************************************************************)
Close ==
  \A g, h \in Groups :
    Count(g) <= Count(h) + 1 \/ (g \in old.Groups /\ h \notin old.Groups)

Stays(s) ==
  Shards[s] # old.Shards[s] => old.Shards[s] \notin Groups \/ Shards[s] \notin old.Groups

\* A shard that is yet to be assigned is where it was.
Untouched(s) == Shards[s] \in Groups \/ Shards[s] = old.Shards[s]

Loops ==
  /\ pc # "idle" => ok
  /\ pc = "move" => Groups # {} /\ \A s \in Shard : Shards[s] \in Groups
  /\ (pc = "idle" /\ ok) => WellBalanced
  /\ (pc = "idle" /\ ok /\ Groups = {}) => \A s \in Shard : Shards[s] = 0

CfgInv ==
  /\ CfgTypeOK
  /\ Loops
  /\ (ok /\ old.ok) =>
       \A s \in Shard : Stays(s) /\ (pc = "assign" => Untouched(s))
  /\ (pc # "idle" /\ old.ok) => Close

LEMMA OldTypes ==
  ASSUME CfgTypeOK
  PROVE  [Shards |-> Shards, Groups |-> Groups, ok |-> ok]
           \in [Shards : [Shard -> Gid \cup {0}], Groups : SUBSET Gid, ok : BOOLEAN]
BY DEF CfgTypeOK

\* What a call finds: with the last one a success, groups that are within one
\* shard of each other, and no shard with a group that is not there.
LEMMA CallStarts ==
  ASSUME CfgInv, Called
  PROVE  /\ old'.Shards = Shards /\ old'.Groups = Groups /\ old'.ok = ok
         /\ pc = "idle" /\ Num \in 0 .. MaxNum - 1
         /\ old' \in [Shards : [Shard -> Gid \cup {0}], Groups : SUBSET Gid, ok : BOOLEAN]
         /\ ok => /\ \A g, h \in Groups : Count(g) <= Count(h) + 1
                  /\ \A s \in Shard : Shards[s] \in Groups \cup {0}
<1>1. old' = [Shards |-> Shards, Groups |-> Groups, ok |-> ok] /\ pc = "idle" /\ Num < MaxNum
  BY DEF Called
<1>2. CfgTypeOK /\ Loops
  BY DEF CfgInv
<1>3. Num \in 0 .. MaxNum - 1
  BY <1>1, <1>2, ShardAssumption DEF CfgTypeOK
<1>4. ok => WellBalanced /\ (Groups = {} => \A s \in Shard : Shards[s] = 0)
  BY <1>1, <1>2 DEF Loops
<1>5. QED
  BY <1>1, <1>2, <1>3, <1>4, OldTypes DEF WellBalanced

LEMMA GiveUpHolds ==
  ASSUME CfgInv, Called, GivesUp, Groups' \in SUBSET Gid
  PROVE  CfgInv'
<1>1. ok' = FALSE /\ Num' = Num /\ pc' = "idle" /\ Shards' = Shards
  BY CallStarts DEF GivesUp
<1>2. CfgTypeOK'
  BY <1>1, CallStarts DEF CfgInv, CfgTypeOK
<1>3. Loops'
  BY <1>1 DEF Loops
<1>4. QED
  BY <1>1, <1>2, <1>3 DEF CfgInv

\* The groups have changed and Rebalance() begins.
LEMMA ChangeHolds ==
  ASSUME CfgInv, Called, Changed, Groups' \in SUBSET Gid
  PROVE  CfgInv'
<1>1. ok' = TRUE /\ Num' = Num + 1 /\ pc' = "assign" /\ Shards' = Shards
  BY DEF Changed
<1>2. Num' \in 0 .. MaxNum
  BY <1>1, CallStarts, ShardAssumption
<1>3. CfgTypeOK'
  BY <1>1, <1>2, CallStarts DEF CfgInv, CfgTypeOK
<1>4. Loops'
  BY <1>1 DEF Loops
<1>5. \A s \in Shard : Stays(s)' /\ Untouched(s)'
  BY <1>1, CallStarts DEF Stays, Untouched
<1>6. ASSUME old'.ok, NEW g \in Groups', NEW h \in Groups'
      PROVE  Count(g)' <= Count(h)' + 1 \/ (g \in old'.Groups /\ h \notin old'.Groups)
  <2>1. Count(g)' = Count(g) /\ Count(h)' = Count(h)
    BY <1>1 DEF Count
  <2>2. Count(g) \in Nat /\ Count(h) \in Nat
    BY CountType
  <2>3. ok /\ old'.Groups = Groups
    BY <1>6, CallStarts
  <2>4. CASE g \in Groups
    BY <2>1, <2>2, <2>3, <2>4, CallStarts
  <2>5. CASE g \notin Groups
    <3>1. Owned(Shards, g) = {}
      BY <2>3, <2>5, CallStarts DEF Owned, Gid
    <3>2. Count(g) = 0
      BY <3>1, CountType, FS_EmptySet
    <3>3. QED
      BY <2>1, <2>2, <3>2
  <2>6. QED
    BY <2>4, <2>5
<1>7. old'.ok => Close'
  BY <1>6 DEF Close
<1>8. QED
  BY <1>1, <1>3, <1>4, <1>5, <1>7 DEF CfgInv

LEMMA UnAssignHolds ==
  ASSUME CfgInv, UnAssign
  PROVE  CfgInv'
<1>1. /\ Groups' = {} /\ pc' = "idle" /\ Shards' = [s \in Shard |-> 0]
      /\ Num' = Num /\ ok' = ok /\ old' = old
  BY DEF UnAssign
<1>2. CfgTypeOK'
  BY <1>1 DEF CfgInv, CfgTypeOK
<1>3. Loops'
  BY <1>1 DEF Loops, WellBalanced
<1>4. \A s \in Shard : Stays(s)'
  BY <1>1 DEF Stays
<1>5. QED
  BY <1>1, <1>2, <1>3, <1>4 DEF CfgInv

LEMMA AssignHolds ==
  ASSUME CfgInv, Assign
  PROVE  CfgInv'
<1>0. PICK u, x, l : u = First(Unassigned) /\ x = Shards[u] /\ l = Least
  OBVIOUS
<1>1. /\ Groups' = Groups /\ pc' = pc /\ Shards' = [Shards EXCEPT ![u] = l]
      /\ Num' = Num /\ ok' = ok /\ old' = old /\ pc = "assign" /\ Groups # {} /\ Unassigned # {}
  BY <1>0 DEF Assign
<1>2. CfgTypeOK /\ Groups \in SUBSET Gid /\ Shards \in [Shard -> Gid \cup {0}]
  BY DEF CfgInv, CfgTypeOK
<1>3. l \in Groups /\ \A h \in Groups : Count(l) <= Count(h)
  BY <1>0, <1>1, <1>2, LeastHasFewest
<1>4. u \in Shard /\ x \notin Groups
  <2>1. Unassigned \in SUBSET Nat
    BY ShardAssumption DEF Unassigned, Shard
  <2>2. u \in Unassigned
    BY <1>0, <1>1, <2>1, FirstIsLeast, ZenonT(60)
  <2>3. QED
    BY <1>0, <2>2 DEF Unassigned
<1>5. /\ Shards' \in [Shard -> Gid \cup {0}] /\ Shards'[u] = l
      /\ \A s \in Shard \ {u} : Shards'[s] = Shards[s]
  BY <1>1, <1>2, <1>3, <1>4
<1>6. CfgTypeOK'
  BY <1>1, <1>2, <1>5 DEF CfgTypeOK
<1>7. Loops'
  BY <1>1 DEF CfgInv, Loops
<1>8. ASSUME ok, old.ok, NEW s \in Shard PROVE Stays(s)' /\ Untouched(s)'
  <2>1. Stays(s) /\ Untouched(s) /\ Untouched(u)
    BY <1>1, <1>4, <1>8 DEF CfgInv
  <2>2. old.Shards[u] \notin Groups
    BY <1>0, <1>4, <2>1 DEF Untouched
  <2>3. CASE s = u
    BY <1>1, <1>3, <1>5, <2>2, <2>3 DEF Stays, Untouched
  <2>4. CASE s # u
    BY <1>1, <1>5, <2>1, <2>4 DEF Stays, Untouched
  <2>5. QED
    BY <2>3, <2>4
<1>9. ASSUME old.ok, NEW g \in Groups, NEW h \in Groups
      PROVE  Count(g)' <= Count(h)' + 1 \/ (g \in old.Groups /\ h \notin old.Groups)
  <2>1. Count(g) <= Count(h) + 1 \/ (g \in old.Groups /\ h \notin old.Groups)
    BY <1>1, <1>9 DEF CfgInv, Close
  <2>2. Count(g) \in Nat /\ Count(h) \in Nat /\ Count(l) \in Nat
    BY CountType
  <2>3. Count(l)' = Count(l) + 1 /\ \A k : k # l /\ k # x => Count(k)' = Count(k)
    <3>1. x # l
      BY <1>3, <1>4
    <3>2. /\ Cardinality(Owned(Shards', l)) = Cardinality(Owned(Shards, l)) + 1
          /\ \A k : k # l /\ k # x => Owned(Shards', k) = Owned(Shards, k)
      BY <1>0, <1>4, <1>5, <3>1, ShardMoves
    <3>3. QED
      BY <3>2, CountsOwned, ZenonT(60)
  <2>4. g # x /\ h # x
    BY <1>4
  <2>5. /\ g = l => Count(g)' = Count(l) + 1
        /\ g # l => Count(g)' = Count(g)
        /\ h = l => Count(h)' = Count(l) + 1
        /\ h # l => Count(h)' = Count(h)
    BY <2>3, <2>4
  <2>6. Count(l) <= Count(h)
    BY <1>3
  <2>7. QED
    BY <2>1, <2>2, <2>5, <2>6
<1>10. old.ok => Close'
  BY <1>1, <1>9 DEF Close
<1>11. QED
  BY <1>1, <1>6, <1>7, <1>8, <1>10 DEF CfgInv

LEMMA AllAssignedHolds ==
  ASSUME CfgInv, AllAssigned
  PROVE  CfgInv'
<1>1. /\ Groups' = Groups /\ pc' = "move" /\ Shards' = Shards
      /\ Num' = Num /\ ok' = ok /\ old' = old /\ pc = "assign" /\ Groups # {} /\ Unassigned = {}
  BY DEF AllAssigned
<1>2. CfgTypeOK'
  BY <1>1 DEF CfgInv, CfgTypeOK
<1>3. \A s \in Shard : Shards[s] \in Groups
  BY <1>1 DEF Unassigned
<1>4. Loops'
  BY <1>1, <1>3 DEF CfgInv, Loops
<1>5. (ok /\ old.ok) => \A s \in Shard : Stays(s)'
  BY <1>1 DEF CfgInv, Stays
<1>6. old.ok => Close'
  BY <1>1 DEF CfgInv, Close, Count
<1>7. QED
  BY <1>1, <1>2, <1>4, <1>5, <1>6 DEF CfgInv

LEMMA BalancedHolds ==
  ASSUME CfgInv, Balanced
  PROVE  CfgInv'
<1>1. /\ Groups' = Groups /\ pc' = "idle" /\ Shards' = Shards
      /\ Num' = Num /\ ok' = ok /\ old' = old /\ pc = "move" /\ Even
  BY DEF Balanced
<1>2. CfgTypeOK'
  BY <1>1 DEF CfgInv, CfgTypeOK
<1>3. Groups # {} /\ \A s \in Shard : Shards[s] \in Groups
  BY <1>1 DEF CfgInv, Loops
<1>4. \A g, h \in Groups : Count(g) <= Count(h) + 1
  <2> SUFFICES ASSUME NEW g \in Groups, NEW h \in Groups PROVE Count(g) <= Count(h) + 1
    OBVIOUS
  <2>1. Count(g) <= Count(Most) /\ Count(Least) <= Count(h)
    BY <1>3, MostHasMost, LeastHasFewest DEF CfgInv, CfgTypeOK
  <2>2. {Count(g), Count(h), Count(Most), Count(Least)} \subseteq Nat
    BY CountType
  <2>3. QED
    BY <1>1, <2>1, <2>2 DEF Even
<1>5. WellBalanced'
  BY <1>1, <1>3, <1>4 DEF WellBalanced, Count
<1>6. Loops'
  BY <1>1, <1>3, <1>5 DEF CfgInv, Loops
<1>7. (ok /\ old.ok) => \A s \in Shard : Stays(s)'
  BY <1>1 DEF CfgInv, Stays
<1>8. QED
  BY <1>1, <1>2, <1>6, <1>7 DEF CfgInv

LEMMA MoveHolds ==
  ASSUME CfgInv, Move
  PROVE  CfgInv'
<1>0. PICK m, l, u : m = Most /\ l = Least /\ u = First(Owned(Shards, m))
  OBVIOUS
<1>1. /\ Groups' = Groups /\ pc' = pc /\ Shards' = [Shards EXCEPT ![u] = l]
      /\ Num' = Num /\ ok' = ok /\ old' = old /\ pc = "move"
      /\ ~(Count(m) < Count(l) + 2)
  BY <1>0 DEF Move, Even, Owned
<1>2. CfgTypeOK /\ Groups \in SUBSET Gid /\ Shards \in [Shard -> Gid \cup {0}]
  BY DEF CfgInv, CfgTypeOK
<1>3. Groups # {} /\ \A s \in Shard : Shards[s] \in Groups
  BY <1>1 DEF CfgInv, Loops
<1>4. l \in Groups /\ \A h \in Groups : Count(l) <= Count(h)
  BY <1>0, <1>2, <1>3, LeastHasFewest
<1>5. m \in Groups /\ \A h \in Groups : Count(h) <= Count(m)
  BY <1>0, <1>2, <1>3, MostHasMost
<1>6. \A g : Count(g) \in Nat
  BY CountType
<1>7. Count(m) >= Count(l) + 2 /\ Count(m) # 0 /\ m # l
  BY <1>1, <1>6
<1>8. u \in Shard /\ Shards[u] = m
  <2>1. Owned(Shards, m) # {}
    BY <1>7, CountType, FS_EmptySet
  <2>2. Owned(Shards, m) \in SUBSET Nat
    BY ShardAssumption DEF Owned, Shard
  <2>3. u \in Owned(Shards, m)
    BY <1>0, <2>1, <2>2, FirstIsLeast, ZenonT(60)
  <2>4. QED
    BY <2>3 DEF Owned
<1>9. /\ Shards' \in [Shard -> Gid \cup {0}] /\ Shards'[u] = l
      /\ \A s \in Shard \ {u} : Shards'[s] = Shards[s]
  BY <1>1, <1>2, <1>4, <1>8
<1>10. CfgTypeOK'
  BY <1>1, <1>2, <1>9 DEF CfgTypeOK
<1>11. Loops'
  <2>1. \A s \in Shard : Shards'[s] \in Groups
    BY <1>3, <1>4, <1>9
  <2>2. QED
    BY <1>1, <1>3, <2>1 DEF CfgInv, Loops
<1>12. ASSUME old.ok
       PROVE  m \in old.Groups /\ l \notin old.Groups
  <2>1. Count(m) <= Count(l) + 1 \/ (m \in old.Groups /\ l \notin old.Groups)
    BY <1>1, <1>4, <1>5, <1>12 DEF CfgInv, Close
  <2>2. QED
    BY <1>6, <1>7, <2>1
<1>13. ASSUME ok, old.ok, NEW s \in Shard PROVE Stays(s)'
  <2>1. Stays(s)
    BY <1>13 DEF CfgInv
  <2>2. CASE s = u
    BY <1>1, <1>9, <1>12, <1>13, <2>2 DEF Stays
  <2>3. CASE s # u
    BY <1>1, <1>9, <2>1, <2>3 DEF Stays
  <2>4. QED
    BY <2>2, <2>3
<1>14. /\ Count(l)' = Count(l) + 1 /\ Count(m)' = Count(m) - 1
       /\ \A k : k # l /\ k # m => Count(k)' = Count(k)
  <2>1. /\ Cardinality(Owned(Shards', l)) = Cardinality(Owned(Shards, l)) + 1
        /\ Cardinality(Owned(Shards', m)) = Cardinality(Owned(Shards, m)) - 1
        /\ \A k : k # l /\ k # m => Owned(Shards', k) = Owned(Shards, k)
    BY <1>7, <1>8, <1>9, ShardMoves
  <2>2. QED
    BY <2>1, CountsOwned, ZenonT(60)
<1>15. ASSUME old.ok, NEW g \in Groups, NEW h \in Groups
       PROVE  Count(g)' <= Count(h)' + 1 \/ (g \in old.Groups /\ h \notin old.Groups)
  <2>1. Count(g) <= Count(h) + 1 \/ (g \in old.Groups /\ h \notin old.Groups)
    BY <1>1, <1>15 DEF CfgInv, Close
  <2>2. /\ g = l => Count(g)' = Count(l) + 1
        /\ g = m => Count(g)' = Count(m) - 1
        /\ g # l /\ g # m => Count(g)' = Count(g)
        /\ h = l => Count(h)' = Count(l) + 1
        /\ h = m => Count(h)' = Count(m) - 1
        /\ h # l /\ h # m => Count(h)' = Count(h)
    BY <1>14
  <2>3. Count(l) <= Count(h) /\ Count(g) <= Count(m)
    BY <1>4, <1>5
  <2>4. QED
    BY <1>6, <1>7, <2>1, <2>2, <2>3
<1>16. old.ok => Close'
  BY <1>1, <1>15 DEF Close
<1>17. QED
  BY <1>1, <1>10, <1>11, <1>13, <1>16 DEF CfgInv

LEMMA CfgInvHolds == CfgSpec => []CfgInv
<1>1. CfgInit => CfgInv
  <2> SUFFICES ASSUME CfgInit PROVE CfgInv
    OBVIOUS
  <2>1. CfgTypeOK
    BY OldTypes, ShardAssumption DEF CfgInit, CfgTypeOK
  <2>2. Loops
    BY DEF CfgInit, Loops, WellBalanced
  <2>3. \A s \in Shard : Stays(s)
    BY DEF CfgInit, Stays
  <2>4. QED
    BY <2>1, <2>2, <2>3 DEF CfgInv, CfgInit
<1>2. CfgInv /\ [CfgNext]_cfgVars => CfgInv'
  <2> SUFFICES ASSUME CfgInv, [CfgNext]_cfgVars PROVE CfgInv'
    OBVIOUS
  <2>1. Groups \in SUBSET Gid
    BY DEF CfgInv, CfgTypeOK
  <2>2. ASSUME NEW S \in SUBSET Gid, JoinBalance(S) \/ ReJoin(S) PROVE CfgInv'
    <3>1. Groups' \in SUBSET Gid
      BY <2>1, <2>2 DEF JoinBalance, ReJoin
    <3>2. QED
      BY <2>2, <3>1, ChangeHolds, GiveUpHolds DEF JoinBalance, ReJoin
  <2>3. ASSUME NEW gids, LeaveBalance(gids) \/ LeaveNotIn(gids) PROVE CfgInv'
    <3>1. Groups' \in SUBSET Gid
      BY <2>1, <2>3 DEF LeaveBalance, LeaveNotIn
    <3>2. QED
      BY <2>3, <3>1, ChangeHolds, GiveUpHolds DEF LeaveBalance, LeaveNotIn
  <2>4. CASE UNCHANGED cfgVars
    BY <2>4 DEF cfgVars, CfgInv, CfgTypeOK, Loops, WellBalanced, Stays, Untouched, Close, Count
  <2>5. QED
    BY <2>2, <2>3, <2>4, UnAssignHolds, AssignHolds, AllAssignedHolds, BalancedHolds, MoveHolds
       DEF CfgNext, Rebalance
<1>3. QED
  BY <1>1, <1>2, PTL DEF CfgSpec

\* A configuration's fields keep their types, in the middle of Rebalance() too:
\* no shard is ever given to a group that never joined.
THEOREM ConfigTypes == CfgSpec => []CfgTypeOK
<1>1. CfgInv => CfgTypeOK
  BY DEF CfgInv
<1>2. QED
  BY <1>1, CfgInvHolds, PTL

\* JoinBalance() and LeaveBalance() leave, when they return true, a
\* configuration that passes CheckConfig(): every shard assigned to a group
\* that is there, no group two shards ahead of another.
THEOREM BalanceReached == CfgSpec => []CheckConfig
<1>1. CfgInv => CheckConfig
  BY DEF CfgInv, Loops, CheckConfig
<1>2. QED
  BY <1>1, CfgInvHolds, PTL

\* Rebalance() takes no shard from a group that stays to give it to one that
\* was there already.
THEOREM NoNeedlessMoves == CfgSpec => []MovesAreNeeded
<1>1. CfgInv => MovesAreNeeded
  BY DEF CfgInv, Stays, MovesAreNeeded
<1>2. QED
  BY <1>1, CfgInvHolds, PTL
=============================================================================
