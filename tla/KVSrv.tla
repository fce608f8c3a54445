------------------------------- MODULE KVSrv --------------------------------
(***************************************************************************)
(* The single key/value server of kvsrv1/server.go and the clerks of       *)
(* kvsrv1/client.go over an unreliable network.  A clerk's Call returns    *)
(* false when the request or the reply is lost, never before the server    *)
(* has finished with the request, and the clerk then sends it again.       *)
(*                                                                         *)
(* A definition whose name ends in _Faulty is a wrong version of the one   *)
(* that follows it; no action uses it.                                     *)
(***************************************************************************)
EXTENDS Integers

CONSTANTS
  Clerk,
  Key, Value,
  Empty,        \* the empty string, zero value of a reply
  Absent,       \* in place of the value of a key that is not in KeyValue
  MaxVersion    \* bound: no Put names a version from here on

ASSUME KVAssumption ==
  /\ Empty \in Value
  /\ Absent \notin Value
  /\ MaxVersion \in Nat

VARIABLES
  KeyValue, KeyVersion,   \* server.go:25-27; a version of 0 is a missing entry
  call,                   \* the arguments, progress and reply of a clerk's call
  performed               \* how often the server has applied that call's Put

kvVars == <<KeyValue, KeyVersion, call, performed>>

\* A reply as declared, before the server has filled it in.
NoReply == [Err |-> "unset", Value |-> Empty, Version |-> 0]

Idle == [at |-> "returned", op |-> "none", key |-> Absent, value |-> Empty, version |-> 0,
         first |-> TRUE, reply |-> NoReply, result |-> "unset"]

KVInit ==
  /\ KeyValue = [k \in Key |-> Absent]
  /\ KeyVersion = [k \in Key |-> 0]
  /\ call = [c \in Clerk |-> Idle]
  /\ performed = [c \in Clerk |-> 0]

-----------------------------------------------------------------------------
(***************************************************************************)
(* The clerk.                                                              *)
(***************************************************************************)
Call(c, op, k, v, version) ==
  /\ call[c].at = "returned"
  /\ call' = [call EXCEPT ![c] =
       [at |-> "sent", op |-> op, key |-> k, value |-> v, version |-> version,
        first |-> TRUE, reply |-> NoReply, result |-> "unset"]]
  /\ performed' = [performed EXCEPT ![c] = 0]
  /\ UNCHANGED <<KeyValue, KeyVersion>>

ClerkGet(c, k) == Call(c, "Get", k, Empty, 0)
ClerkPut(c, k, v, version) == Call(c, "Put", k, v, version)

\* Call() returns false: the clerk goes round its loop once more.
CallFails(c) ==
  /\ call' = [call EXCEPT ![c].at = "sent", ![c].first = FALSE]
  /\ UNCHANGED <<KeyValue, KeyVersion, performed>>

RequestLost(c) == call[c].at = "sent" /\ CallFails(c)
ReplyLost(c) == call[c].at = "replied" /\ CallFails(c)

\* An ErrVersion is passed on even when an earlier request may have got through.
Result_Faulty(c) == call[c].reply.Err

\* What Put() returns for the server's answer; Get() returns it as it is.
Result(c) ==
  IF call[c].op = "Put" /\ call[c].reply.Err = "ErrVersion" /\ ~call[c].first
    THEN "ErrMaybe" ELSE call[c].reply.Err

\* Get() goes round again for a key that does not exist.
Return_Faulty(c) ==
  /\ call[c].at = "replied"
  /\ call[c].op = "Get" => call[c].reply.Err = "OK"
  /\ call' = [call EXCEPT ![c].at = "returned", ![c].result = Result(c)]
  /\ UNCHANGED <<KeyValue, KeyVersion, performed>>

Return(c) ==
  /\ call[c].at = "replied"
  /\ call' = [call EXCEPT ![c].at = "returned", ![c].result = Result(c)]
  /\ UNCHANGED <<KeyValue, KeyVersion, performed>>

-----------------------------------------------------------------------------
(***************************************************************************)
(* The server, one critical section per request.                           *)
(***************************************************************************)
GetReply(k) ==
  IF KeyValue[k] = Absent \/ KeyVersion[k] = 0
    THEN [Err |-> "ErrNoKey", Value |-> Empty, Version |-> 0]
    ELSE [Err |-> "OK", Value |-> KeyValue[k], Version |-> KeyVersion[k]]

Get(c) ==
  /\ call[c].at = "sent"
  /\ call[c].op = "Get"
  /\ call' = [call EXCEPT ![c].at = "replied", ![c].reply = GetReply(call[c].key)]
  /\ UNCHANGED <<KeyValue, KeyVersion, performed>>

PutErr(k, version) ==
  IF KeyValue[k] = Absent THEN IF version = 0 THEN "OK" ELSE "ErrNoKey"
  ELSE IF KeyVersion[k] = 0 THEN "ErrNoKey"
  ELSE IF KeyVersion[k] = version THEN "OK" ELSE "ErrVersion"

PutReply(err) == [Err |-> err, Value |-> Empty, Version |-> 0]

\* The version is stored as it came.
Put_Faulty(c) ==
  LET k == call[c].key
      err == PutErr(k, call[c].version) IN
  /\ call[c].at = "sent"
  /\ call[c].op = "Put"
  /\ call' = [call EXCEPT ![c].at = "replied", ![c].reply = PutReply(err)]
  /\ IF err = "OK"
       THEN /\ KeyValue' = [KeyValue EXCEPT ![k] = call[c].value]
            /\ KeyVersion' = [KeyVersion EXCEPT ![k] = call[c].version]
            /\ performed' = [performed EXCEPT ![c] = @ + 1]
       ELSE UNCHANGED <<KeyValue, KeyVersion, performed>>

\* A new key starts at version 1, which is where version 0 is put.
Put(c) ==
  LET k == call[c].key
      err == PutErr(k, call[c].version) IN
  /\ call[c].at = "sent"
  /\ call[c].op = "Put"
  /\ call' = [call EXCEPT ![c].at = "replied", ![c].reply = PutReply(err)]
  /\ IF err = "OK"
       THEN /\ KeyValue' = [KeyValue EXCEPT ![k] = call[c].value]
            /\ KeyVersion' = [KeyVersion EXCEPT ![k] = call[c].version + 1]
            /\ performed' = [performed EXCEPT ![c] = @ + 1]
       ELSE UNCHANGED <<KeyValue, KeyVersion, performed>>

-----------------------------------------------------------------------------
\* What the network and the server do for the calls of clerk c.
Served(c) == Get(c) \/ Put(c) \/ Return(c)
Lost(c) == RequestLost(c) \/ ReplyLost(c)

\* Callers that name any key and version.
KVNext ==
  \E c \in Clerk :
    \/ \E k \in Key : ClerkGet(c, k)
    \/ \E k \in Key, v \in Value, version \in 0 .. MaxVersion - 1 : ClerkPut(c, k, v, version)
    \/ Served(c)
    \/ Lost(c)

KVSpec == KVInit /\ [][KVNext]_kvVars

\* A request and its reply both get through every so often, and the server
\* and the clerk keep running.
KVFairness ==
  \A c \in Clerk : WF_kvVars(Get(c)) /\ WF_kvVars(Put(c)) /\ SF_kvVars(Return(c))

KVFairSpec == KVSpec /\ KVFairness

-----------------------------------------------------------------------------
\* The types, and KeyValue and KeyVersion have the same keys, so that the
\* second ErrNoKey of Get() and Put() is never given.
KVTypeOK ==
  /\ KeyValue \in [Key -> Value \cup {Absent}]
  /\ KeyVersion \in [Key -> Nat]
  /\ \A k \in Key : KeyVersion[k] = 0 <=> KeyValue[k] = Absent
  /\ call \in [Clerk ->
       [at : {"sent", "replied", "returned"}, op : {"none", "Get", "Put"},
        key : Key \cup {Absent}, value : Value, version : Nat, first : BOOLEAN,
        reply : [Err : {"unset", "OK", "ErrNoKey", "ErrVersion"}, Value : Value, Version : Nat],
        result : {"unset", "OK", "ErrNoKey", "ErrVersion", "ErrMaybe"}]]
  /\ \A c \in Clerk : call[c].op # "none" => call[c].key \in Key
  /\ performed \in [Clerk -> Nat]

\* What the state says of the service: its store, and of each call the request
\* and what the clerk has returned.
ServiceStore == [k \in Key |-> [value |-> KeyValue[k], version |-> KeyVersion[k]]]

ServiceOp ==
  [c \in Clerk |->
    IF call[c].op = "none" THEN [kind |-> "none"]
    ELSE [kind |-> call[c].op, key |-> call[c].key, value |-> call[c].value,
          version |-> call[c].version]]

ServiceOpen == [c \in Clerk |-> call[c].at # "returned"]
ServiceApplied == [c \in Clerk |-> performed[c] > 0]
ServiceSeen == [c \in Clerk |-> {call[c].reply} \ {NoReply}]

ServiceResult ==
  [c \in Clerk |->
    IF call[c].at # "returned" \/ call[c].op = "none" THEN NoReply
    ELSE [Err |-> call[c].result, Value |-> call[c].reply.Value,
          Version |-> call[c].reply.Version]]

\* The server and its clerks are a KVService: a Put is applied at most once
\* however often it is sent, its answer is true, and a Get returns a value and
\* the version that belongs to it.
Service == INSTANCE KVService WITH
  Version <- 0 .. MaxVersion - 1,
  store <- ServiceStore, op <- ServiceOp, open <- ServiceOpen,
  applied <- ServiceApplied, seen <- ServiceSeen, result <- ServiceResult

ImplementsService == Service!Spec

\* A call that has been made returns, however many requests and replies are
\* lost before one gets through.
CallsReturn == \A c \in Clerk : call[c].at # "returned" ~> call[c].at = "returned"
=============================================================================
