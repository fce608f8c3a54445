------------------------------- MODULE KVRaft -------------------------------
(***************************************************************************)
(* The replicated key/value service: the clerks of kvraft1/client.go, the  *)
(* state machine of kvraft1/server.go and the replication layer of         *)
(* kvraft1/rsm/rsm.go, over what Raft promises them: one sequence of       *)
(* committed operations, which every server applies in order.  A server    *)
(* may believe that it leads when it no longer does, an operation handed   *)
(* to Start() may be committed at any later time or never, and a server    *)
(* may restart from its snapshot or be sent the snapshot of another.       *)
(*                                                                         *)
(* A definition whose name ends in _Faulty is a wrong version of the one   *)
(* that follows it; no action uses it.                                     *)
(***************************************************************************)
EXTENDS Integers, Sequences, FiniteSets

CONSTANTS
  Clerk,
  N,             \* the servers are 0 .. N - 1
  Key, Value,
  Empty,         \* the empty string, zero value of a reply
  Absent,        \* in place of the value of a key that is not in KeyValue
  MaxVersion,    \* bound: no Put names a version from here on
  MaxRequests,   \* bound: requests of one clerk
  MaxOps,        \* bound: operations handed to Start()
  MaxTerm,       \* bound: elections
  MaxRestarts,   \* bound: restarts
  Snapshotting   \* whether maxraftstate is set

Server == 0 .. N - 1

ASSUME KVRaftAssumption ==
  /\ N \in Nat \ {0}
  /\ Empty \in Value
  /\ Absent \notin Value
  /\ Snapshotting \in BOOLEAN
  /\ {MaxVersion, MaxRequests, MaxOps, MaxTerm, MaxRestarts} \subseteq Nat

VARIABLES
  clerk,      \* leaderId and requestId of a clerk, and its current call
  term,       \* the term a server believes it leads, or 0 (GetState)
  lastTerm,   \* the last term with a leader
  pending,    \* operations handed to Start() and not committed
  log,        \* the committed operations
  kv,         \* the state machine of each server
  applied,    \* how much of the log it has applied
  snap,       \* its last snapshot: the state machine and the index it covers
  restarts,   \* how many restarts there have been
  ops,        \* how many operations have been handed to Start()
  committed,  \* the state machine after the whole log
  seen,       \* the answers the log holds for a clerk's current request
  performed   \* how often the log applies a clerk's current Put

raftVars == <<term, lastTerm, pending, log>>
serverVars == <<kv, applied, snap, restarts>>
history == <<committed, seen, performed>>
vars == <<clerk, raftVars, serverVars, ops, history>>

-----------------------------------------------------------------------------
(***************************************************************************)
(* The state machine (server.go).                                          *)
(***************************************************************************)
PutReply(err) == [Err |-> err, Value |-> Empty, Version |-> 0]
NoReply == PutReply("unset")

\* lastRequest is -1 for a client that is not in the table.
EmptyMachine ==
  [KeyValue |-> [k \in Key |-> Absent], KeyVersion |-> [k \in Key |-> 0],
   lastRequest |-> [c \in Clerk |-> -1], lastReply |-> [c \in Clerk |-> NoReply]]

GetReply(m, k) ==
  IF m.KeyValue[k] = Absent THEN PutReply("ErrNoKey")
  ELSE [Err |-> "OK", Value |-> m.KeyValue[k], Version |-> m.KeyVersion[k]]

PutErr(m, req) ==
  IF m.KeyValue[req.Key] = Absent
    THEN IF req.Version = 0 THEN "OK" ELSE "ErrNoKey"
    ELSE IF m.KeyVersion[req.Key] = req.Version THEN "OK" ELSE "ErrVersion"

\* A copy of the last request is taken for a new one.
Duplicate_Faulty(m, req) == req.RequestId < m.lastRequest[req.ClientId]

Duplicate(m, req) == req.RequestId <= m.lastRequest[req.ClientId]

\* What DoOp() returns.
Reply(m, req) ==
  IF req.op = "Get" THEN GetReply(m, req.Key)
  ELSE IF Duplicate(m, req) THEN m.lastReply[req.ClientId]
  ELSE PutReply(PutErr(m, req))

\* The state machine DoOp() leaves behind.
DoOp(m, req) ==
  IF req.op = "Get" \/ Duplicate(m, req) THEN m
  ELSE LET noted == [m EXCEPT !.lastRequest[req.ClientId] = req.RequestId,
                              !.lastReply[req.ClientId] = Reply(m, req)]
       IN IF PutErr(m, req) # "OK" THEN noted
          ELSE [noted EXCEPT !.KeyValue[req.Key] = req.Value,
                             !.KeyVersion[req.Key] = req.Version + 1]

\* The table of requests is left out of the snapshot.
Snapshot_Faulty(m) ==
  [m EXCEPT !.lastRequest = [c \in Clerk |-> -1], !.lastReply = [c \in Clerk |-> NoReply]]

\* The state machine that Restore() makes of a Snapshot().
Snapshot(m) == m

-----------------------------------------------------------------------------
(***************************************************************************)
(* The clerk (client.go).                                                  *)
(***************************************************************************)
Call(c, op, k, v, version) ==
  /\ clerk[c].at = "returned"
  /\ clerk[c].requestId < MaxRequests
  /\ clerk' = [clerk EXCEPT ![c] =
       [at |-> "sent", leaderId |-> @.leaderId, serverId |-> @.leaderId,
        requestId |-> @.requestId + 1, id |-> 0, term |-> 0,
        args |-> [op |-> op, Key |-> k, Value |-> v, Version |-> version,
                  ClientId |-> c, RequestId |-> @.requestId],
        reply |-> NoReply]]
  /\ seen' = [seen EXCEPT ![c] = {}]
  /\ performed' = [performed EXCEPT ![c] = 0]
  /\ UNCHANGED <<raftVars, serverVars, ops, committed>>

Get(c, k) == Call(c, "Get", k, Empty, 0)
Put(c, k, v, version) == Call(c, "Put", k, v, version)

\* The clerk forgets to start again after the last server.
TryNext_Faulty(c) ==
  [clerk[c] EXCEPT !.at = "sent", !.serverId = @ + 1,
                   !.id = 0, !.term = 0, !.reply = NoReply]

\* The clerk turns to the next server.
TryNext(c) ==
  [clerk[c] EXCEPT !.at = "sent", !.serverId = (@ + 1) % N,
                   !.id = 0, !.term = 0, !.reply = NoReply]

\* Call() returns false: the request or the reply is lost, or the server is
\* out of reach while it works on the request, which it goes on doing.
CallFails(c) ==
  /\ clerk[c].at # "returned"
  /\ clerk' = [clerk EXCEPT ![c] = TryNext(c)]
  /\ UNCHANGED <<raftVars, serverVars, ops, history>>

WrongLeader(c) ==
  /\ clerk[c].at = "replied"
  /\ clerk[c].reply.Err \in {"ErrWrongLeader", "ErrTimeOut"}
  /\ clerk' = [clerk EXCEPT ![c] = TryNext(c)]
  /\ UNCHANGED <<raftVars, serverVars, ops, history>>

Return(c) ==
  /\ clerk[c].at = "replied"
  /\ clerk[c].reply.Err \notin {"ErrWrongLeader", "ErrTimeOut"}
  /\ clerk' = [clerk EXCEPT ![c].at = "returned", ![c].leaderId = clerk[c].serverId]
  /\ UNCHANGED <<raftVars, serverVars, ops, history>>

-----------------------------------------------------------------------------
(***************************************************************************)
(* Submit() and Reader() (rsm.go).  Operation ids are taken to be unique.  *)
(***************************************************************************)
SubmitNotLeader(c) ==
  /\ clerk[c].at = "sent"
  /\ term[clerk[c].serverId] = 0
  /\ clerk' = [clerk EXCEPT ![c].at = "replied", ![c].reply = PutReply("ErrWrongLeader")]
  /\ UNCHANGED <<raftVars, serverVars, ops, history>>

Submit(c) ==
  LET s == clerk[c].serverId IN
  /\ clerk[c].at = "sent"
  /\ term[s] # 0
  /\ ops < MaxOps
  /\ ops' = ops + 1
  /\ pending' = pending \cup {[Id |-> ops + 1, Me |-> s, Req |-> clerk[c].args]}
  /\ clerk' = [clerk EXCEPT ![c].at = "waiting", ![c].id = ops + 1, ![c].term = term[s]]
  /\ UNCHANGED <<term, lastTerm, log, serverVars, history>>

\* The ticker of Submit() finds that the server has lost the term, whether or
\* not a result has reached the channel.
SubmitLostTerm(c) ==
  /\ clerk[c].at \in {"waiting", "notified"}
  /\ term[clerk[c].serverId] # clerk[c].term
  /\ clerk' = [clerk EXCEPT ![c].at = "replied", ![c].reply = PutReply("ErrWrongLeader")]
  /\ UNCHANGED <<raftVars, serverVars, ops, history>>

\* The two seconds are counted anew with every tick, so they pass only when
\* Submit() is not scheduled for as long.
SubmitTimeOut(c) ==
  /\ clerk[c].at \in {"waiting", "notified"}
  /\ clerk' = [clerk EXCEPT ![c].at = "replied", ![c].reply = PutReply("ErrTimeOut")]
  /\ UNCHANGED <<raftVars, serverVars, ops, history>>

SubmitResult(c) ==
  /\ clerk[c].at = "notified"
  /\ clerk' = [clerk EXCEPT ![c].at = "replied"]
  /\ UNCHANGED <<raftVars, serverVars, ops, history>>

\* The calls on server s that wait for an operation.
Waiting(s, op) ==
  {c \in Clerk : clerk[c].at = "waiting" /\ clerk[c].serverId = s /\ clerk[c].id = op.Id}

\* Reader() takes the next committed operation off applyCh.
Reader(s) ==
  LET op == log[applied[s] + 1]
      m == DoOp(kv[s], op.Req) IN
  /\ applied[s] < Len(log)
  /\ kv' = [kv EXCEPT ![s] = m]
  /\ applied' = [applied EXCEPT ![s] = @ + 1]
  /\ \/ UNCHANGED snap
     \/ /\ Snapshotting
        /\ snap' = [snap EXCEPT ![s] = [index |-> applied[s] + 1, machine |-> Snapshot(m)]]
  /\ clerk' = [c \in Clerk |->
       IF c \in Waiting(s, op)
         THEN [clerk[c] EXCEPT !.at = "notified", !.reply = Reply(kv[s], op.Req)]
         ELSE clerk[c]]
  /\ UNCHANGED <<raftVars, restarts, ops, history>>

\* Reader() is handed a snapshot that another server has sent, possibly some
\* time after the one sent it and the other took it.  It restores whatever it is
\* handed; that this goes beyond what has been applied is the condition under
\* which Raft's Applier hands it over (raft.go:859).
Restore(s, p) ==
  /\ snap[p].index > applied[s]
  /\ kv' = [kv EXCEPT ![s] = snap[p].machine]
  /\ applied' = [applied EXCEPT ![s] = snap[p].index]
  /\ snap' = [snap EXCEPT ![s] = snap[p]]
  /\ UNCHANGED <<clerk, raftVars, restarts, ops, history>>

\* StartKVServer() after a crash.  Calls on the server fail.
StartKVServer(s) ==
  /\ restarts < MaxRestarts
  /\ restarts' = restarts + 1
  /\ kv' = [kv EXCEPT ![s] = snap[s].machine]
  /\ applied' = [applied EXCEPT ![s] = snap[s].index]
  /\ term' = [term EXCEPT ![s] = 0]
  /\ clerk' = [c \in Clerk |->
       IF clerk[c].at \in {"waiting", "notified"} /\ clerk[c].serverId = s
         THEN TryNext(c) ELSE clerk[c]]
  /\ UNCHANGED <<lastTerm, pending, log, snap, ops, history>>

-----------------------------------------------------------------------------
(***************************************************************************)
(* Raft, as the service sees it.                                           *)
(***************************************************************************)
Elect(s) ==
  /\ lastTerm < MaxTerm
  /\ lastTerm' = lastTerm + 1
  /\ term' = [term EXCEPT ![s] = lastTerm + 1]
  /\ UNCHANGED <<clerk, pending, log, serverVars, ops, history>>

\* A server learns of a later term.
StepDown(s) ==
  /\ term[s] \notin {0, lastTerm}
  /\ term' = [term EXCEPT ![s] = 0]
  /\ UNCHANGED <<clerk, lastTerm, pending, log, serverVars, ops, history>>

Commit(op) ==
  LET c == op.Req.ClientId
      current == clerk[c].at # "returned" /\ clerk[c].args = op.Req IN
  /\ pending' = pending \ {op}
  /\ log' = Append(log, op)
  /\ committed' = DoOp(committed, op.Req)
  /\ seen' = IF current THEN [seen EXCEPT ![c] = @ \cup {Reply(committed, op.Req)}] ELSE seen
  /\ performed' = IF committed'.KeyVersion # committed.KeyVersion
                    THEN [performed EXCEPT ![c] = @ + 1] ELSE performed
  /\ UNCHANGED <<clerk, term, lastTerm, serverVars, ops>>

-----------------------------------------------------------------------------
NoCall == [op |-> "none", Key |-> Absent, Value |-> Empty, Version |-> 0,
           ClientId |-> Absent, RequestId |-> -1]

Init ==
  /\ clerk = [c \in Clerk |->
       [at |-> "returned", leaderId |-> 0, serverId |-> 0, requestId |-> 0, id |-> 0,
        term |-> 0, args |-> NoCall, reply |-> NoReply]]
  /\ term = [s \in Server |-> 0]
  /\ lastTerm = 0
  /\ pending = {}
  /\ log = <<>>
  /\ kv = [s \in Server |-> EmptyMachine]
  /\ applied = [s \in Server |-> 0]
  /\ snap = [s \in Server |-> [index |-> 0, machine |-> EmptyMachine]]
  /\ restarts = 0
  /\ ops = 0
  /\ committed = EmptyMachine
  /\ seen = [c \in Clerk |-> {}]
  /\ performed = [c \in Clerk |-> 0]

Next ==
  \/ \E c \in Clerk :
       \/ \E k \in Key : Get(c, k)
       \/ \E k \in Key, v \in Value, version \in 0 .. MaxVersion - 1 : Put(c, k, v, version)
       \/ CallFails(c) \/ WrongLeader(c) \/ Return(c)
       \/ SubmitNotLeader(c) \/ Submit(c) \/ SubmitLostTerm(c)
       \/ SubmitTimeOut(c) \/ SubmitResult(c)
  \/ \E s \in Server : Reader(s) \/ StartKVServer(s) \/ Elect(s) \/ StepDown(s)
  \/ \E s, p \in Server : Restore(s, p)
  \/ \E op \in pending : Commit(op)

Spec == Init /\ [][Next]_vars

-----------------------------------------------------------------------------
(***************************************************************************)
(* Types.                                                                  *)
(***************************************************************************)
Errs == {"unset", "OK", "ErrNoKey", "ErrVersion", "ErrWrongLeader", "ErrTimeOut"}
Replies == [Err : Errs, Value : Value, Version : Nat]
Requests ==
  [op : {"Get", "Put"}, Key : Key, Value : Value, Version : Nat,
   ClientId : Clerk, RequestId : Nat]
Operations == [Id : Nat, Me : Server, Req : Requests]
Machines ==
  [KeyValue : [Key -> Value \cup {Absent}], KeyVersion : [Key -> Nat],
   lastRequest : [Clerk -> Nat \cup {-1}], lastReply : [Clerk -> Replies]]
Calls ==
  [at : {"sent", "waiting", "notified", "replied", "returned"},
   leaderId : Server, serverId : Server, requestId : Nat, id : Nat, term : Nat,
   args : Requests \cup {NoCall}, reply : Replies]

\* The clerks always turn to a server there is, Reader() and snapshots stay
\* within the log, and a call that is open is one that its clerk has made.
TypeOK ==
  /\ clerk \in [Clerk -> Calls]
  /\ \A c \in Clerk : clerk[c].at # "returned" =>
       clerk[c].args \in Requests /\ clerk[c].args.ClientId = c
  /\ term \in [Server -> Nat] /\ lastTerm \in Nat
  /\ pending \in SUBSET Operations /\ log \in Seq(Operations)
  /\ kv \in [Server -> Machines] /\ applied \in [Server -> 0 .. Len(log)]
  /\ snap \in [Server -> [index : 0 .. Len(log), machine : Machines]]
  /\ restarts \in Nat /\ ops \in Nat
  /\ committed \in Machines
  /\ seen \in [Clerk -> SUBSET Replies] /\ performed \in [Clerk -> Nat]

-----------------------------------------------------------------------------
(***************************************************************************)
(* What the callers of the clerks see.                                     *)
(***************************************************************************)
ServiceStore == [k \in Key |-> [value |-> committed.KeyValue[k],
                                version |-> committed.KeyVersion[k]]]
ServiceOp == [c \in Clerk |->
  IF clerk[c].args.op = "none" THEN [kind |-> "none"]
  ELSE [kind |-> clerk[c].args.op, key |-> clerk[c].args.Key,
        value |-> clerk[c].args.Value, version |-> clerk[c].args.Version]]
ServiceOpen == [c \in Clerk |-> clerk[c].at # "returned"]
ServiceApplied == [c \in Clerk |-> performed[c] > 0]
ServiceResult == [c \in Clerk |->
  IF clerk[c].at = "returned" THEN clerk[c].reply ELSE NoReply]

\* The servers and the clerks together are a KVService: an operation takes
\* effect when it is committed, a Put at most once however many copies of it
\* the log holds, and the answer a clerk gets is the one the log gives, from
\* whichever server, after whichever restart or restored snapshot.
Service == INSTANCE KVService WITH
  Version <- 0 .. MaxVersion - 1,
  store <- ServiceStore, op <- ServiceOp, open <- ServiceOpen,
  applied <- ServiceApplied, result <- ServiceResult

ImplementsService == Service!Spec

\* A server's state machine is the committed log up to what it has applied, so
\* two servers that have applied as much are equal, tables of requests
\* included, however they got there.
ReplicasAgree ==
  \A s \in Server :
    /\ applied[s] = Len(log) => kv[s] = committed
    /\ \A p \in Server : applied[s] = applied[p] => kv[s] = kv[p]

\* "If the server returns ErrVersion on a resend RPC, then Put must return
\* ErrMaybe" (client.go:79-83).
ResentPutIsMaybe ==
  \A c \in Clerk :
    (clerk[c].at = "returned" /\ \E i, j \in DOMAIN log :
       i # j /\ {log[i].Req, log[j].Req} = {clerk[c].args})
      => clerk[c].reply.Err # "ErrVersion"
=============================================================================
