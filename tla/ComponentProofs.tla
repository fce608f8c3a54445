-------------------------- MODULE ComponentProofs ---------------------------
(***************************************************************************)
(* The parts of the repository that do not use Raft: the key/value server  *)
(* with its clerks and its lock, the simulated network, and MapReduce.     *)
(***************************************************************************)
EXTENDS Lock, LabRPC, MapReduce, TLAPS

\* A leaf that names no prover is tried with Zenon and with the SMT solver, then
\* with both once more.
USE ZenonT(5), SMTT(60), Z3T(60), ZenonT(30)

-----------------------------------------------------------------------------
(***************************************************************************)
(* For every set of clerks, keys and values: the server and its clerks     *)
(* keep their types and are a KVService; and for every set of clients of   *)
(* the lock no two of them have it.                                        *)
(*                                                                         *)
(* The refinement needs to know that an answer is true of what happened to *)
(* the call: a Put that was performed has pushed the version of its key    *)
(* past its own, so that a repeated request is refused, and the clerk then *)
(* knows that it has repeated it.                                          *)
(***************************************************************************)

Reply == [Err : {"unset", "OK", "ErrNoKey", "ErrVersion"}, Value : Value, Version : Nat]

Result0 == {"unset", "OK", "ErrNoKey", "ErrVersion", "ErrMaybe"}

CallRecord ==
  [at : {"sent", "replied", "returned"}, op : {"none", "Get", "Put"},
   key : Key \cup {Absent}, value : Value, version : Nat, first : BOOLEAN,
   reply : Reply, result : Result0]

\* A step that leaves the request of a call as it is.
SameRequest(c) ==
  /\ call'[c].op = call[c].op
  /\ call'[c].key = call[c].key
  /\ call'[c].value = call[c].value
  /\ call'[c].version = call[c].version

-----------------------------------------------------------------------------
(***************************************************************************)
(* Types.                                                                  *)
(***************************************************************************)
LEMMA CallType ==
  ASSUME KVTypeOK, NEW c \in Clerk
  PROVE  /\ call[c] \in CallRecord
         /\ call[c].at \in {"sent", "replied", "returned"}
         /\ call[c].op \in {"none", "Get", "Put"}
         /\ call[c].value \in Value /\ call[c].version \in Nat
         /\ call[c].first \in BOOLEAN /\ call[c].reply \in Reply
         /\ call[c].op # "none" => call[c].key \in Key
<1>1. call[c] \in CallRecord /\ (call[c].op # "none" => call[c].key \in Key)
  BY DEF KVTypeOK, CallRecord, Reply, Result0
<1>2. QED
  BY <1>1 DEF CallRecord

LEMMA NoReplyType == NoReply \in Reply /\ NoReply.Err = "unset"
BY KVAssumption DEF NoReply, Reply

\* A step that replaces the record of one call.
LEMMA CallReplaced ==
  ASSUME KVTypeOK, NEW c \in Clerk, NEW r \in CallRecord,
         r.op # "none" => r.key \in Key,
         call' = [call EXCEPT ![c] = r]
  PROVE  /\ call' \in [Clerk -> CallRecord]
         /\ call'[c] = r /\ \A d \in Clerk \ {c} : call'[d] = call[d]
         /\ \A d \in Clerk : call'[d].op # "none" => call'[d].key \in Key
<1>1. call \in [Clerk -> CallRecord]
  BY DEF KVTypeOK, CallRecord, Reply, Result0
<1>2. /\ call' \in [Clerk -> CallRecord]
      /\ call'[c] = r /\ \A d \in Clerk \ {c} : call'[d] = call[d]
  BY <1>1
<1>3. \A d \in Clerk : call[d].op # "none" => call[d].key \in Key
  BY DEF KVTypeOK
<1>4. QED
  BY <1>2, <1>3

\* What each operation puts in the place of the record.
LEMMA CallMade ==
  ASSUME KVTypeOK, NEW c \in Clerk, NEW op \in {"Get", "Put"}, NEW k \in Key,
         NEW v \in Value, NEW version \in Nat, Call(c, op, k, v, version)
  PROVE  /\ KVTypeOK'
         /\ call'[c] = [at |-> "sent", op |-> op, key |-> k, value |-> v, version |-> version,
                        first |-> TRUE, reply |-> NoReply, result |-> "unset"]
         /\ \A d \in Clerk \ {c} : call'[d] = call[d]
<1> DEFINE r == [at |-> "sent", op |-> op, key |-> k, value |-> v, version |-> version,
                 first |-> TRUE, reply |-> NoReply, result |-> "unset"]
<1>1. r \in CallRecord /\ r.key \in Key
  BY NoReplyType DEF CallRecord, Result0
<1>2. /\ call' = [call EXCEPT ![c] = r] /\ performed' = [performed EXCEPT ![c] = 0]
      /\ UNCHANGED <<KeyValue, KeyVersion>>
  BY DEF Call
<1> HIDE DEF r
<1>3. /\ call' \in [Clerk -> CallRecord]
      /\ call'[c] = r /\ \A d \in Clerk \ {c} : call'[d] = call[d]
      /\ \A d \in Clerk : call'[d].op # "none" => call'[d].key \in Key
  BY <1>1, <1>2, CallReplaced
<1>4. performed' \in [Clerk -> Nat]
  BY <1>2 DEF KVTypeOK
<1>5. KVTypeOK'
  BY <1>2, <1>3, <1>4 DEF KVTypeOK, CallRecord, Reply, Result0
<1>6. QED
  BY <1>3, <1>5 DEF r

LEMMA CallResent ==
  ASSUME KVTypeOK, NEW c \in Clerk, CallFails(c), call[c].op # "none"
  PROVE  /\ KVTypeOK'
         /\ SameRequest(c) /\ call'[c].reply = call[c].reply
         /\ call'[c].at = "sent" /\ ~call'[c].first
         /\ \A d \in Clerk \ {c} : call'[d] = call[d]
<1> DEFINE r == [call[c] EXCEPT !.at = "sent", !.first = FALSE]
<1>1. call[c] \in CallRecord /\ call[c].key \in Key
  BY CallType
<1>2. /\ r \in CallRecord
      /\ r.op = call[c].op /\ r.key = call[c].key /\ r.value = call[c].value
      /\ r.version = call[c].version /\ r.reply = call[c].reply /\ r.at = "sent" /\ r.first = FALSE
  BY <1>1 DEF CallRecord
<1>3. call' = [call EXCEPT ![c] = r] /\ UNCHANGED <<KeyValue, KeyVersion, performed>>
  BY DEF CallFails
<1> HIDE DEF r
<1>4. /\ call' \in [Clerk -> CallRecord]
      /\ call'[c] = r /\ \A d \in Clerk \ {c} : call'[d] = call[d]
      /\ \A d \in Clerk : call'[d].op # "none" => call'[d].key \in Key
  BY <1>1, <1>2, <1>3, CallReplaced
<1>5. KVTypeOK'
  BY <1>3, <1>4 DEF KVTypeOK, CallRecord, Reply, Result0
<1>6. QED
  BY <1>2, <1>4, <1>5 DEF SameRequest

LEMMA CallReturned ==
  ASSUME KVTypeOK, NEW c \in Clerk, Return(c), call[c].op # "none"
  PROVE  /\ KVTypeOK'
         /\ SameRequest(c) /\ call'[c].reply = call[c].reply
         /\ call'[c].at = "returned" /\ call'[c].result = Result(c)
         /\ \A d \in Clerk \ {c} : call'[d] = call[d]
<1> DEFINE r == [call[c] EXCEPT !.at = "returned", !.result = Result(c)]
<1>1. call[c] \in CallRecord /\ call[c].key \in Key /\ call[c].reply \in Reply
  BY CallType
<1>2. Result(c) \in Result0
  <2>1. call[c].reply.Err \in {"unset", "OK", "ErrNoKey", "ErrVersion"}
    BY <1>1 DEF Reply
  <2>2. QED
    BY <2>1 DEF Result, Result0
<1>3. /\ r \in CallRecord
      /\ r.op = call[c].op /\ r.key = call[c].key /\ r.value = call[c].value
      /\ r.version = call[c].version /\ r.reply = call[c].reply /\ r.at = "returned"
      /\ r.result = Result(c)
  BY <1>1, <1>2 DEF CallRecord
<1>4. call' = [call EXCEPT ![c] = r] /\ UNCHANGED <<KeyValue, KeyVersion, performed>>
  BY DEF Return
<1> HIDE DEF r
<1>5. /\ call' \in [Clerk -> CallRecord]
      /\ call'[c] = r /\ \A d \in Clerk \ {c} : call'[d] = call[d]
      /\ \A d \in Clerk : call'[d].op # "none" => call'[d].key \in Key
  BY <1>1, <1>3, <1>4, CallReplaced
<1>6. KVTypeOK'
  BY <1>4, <1>5 DEF KVTypeOK, CallRecord, Reply, Result0
<1>7. QED
  BY <1>3, <1>5, <1>6 DEF SameRequest

\* The server answers: what Get() and Put() have in common.
LEMMA Answered ==
  ASSUME KVTypeOK, NEW c \in Clerk, call[c].op # "none", NEW reply \in Reply,
         call' = [call EXCEPT ![c].at = "replied", ![c].reply = reply]
  PROVE  /\ call' \in [Clerk -> CallRecord]
         /\ SameRequest(c) /\ call'[c].first = call[c].first
         /\ call'[c].at = "replied" /\ call'[c].reply = reply
         /\ \A d \in Clerk \ {c} : call'[d] = call[d]
         /\ \A d \in Clerk : call'[d].op # "none" => call'[d].key \in Key
<1> DEFINE r == [call[c] EXCEPT !.at = "replied", !.reply = reply]
<1>1. call[c] \in CallRecord /\ call[c].key \in Key
  BY CallType
<1>2. /\ r \in CallRecord
      /\ r.op = call[c].op /\ r.key = call[c].key /\ r.value = call[c].value
      /\ r.version = call[c].version /\ r.reply = reply /\ r.at = "replied"
      /\ r.first = call[c].first
  BY <1>1 DEF CallRecord
<1>3. call' = [call EXCEPT ![c] = r]
  OBVIOUS
<1> HIDE DEF r
<1>4. /\ call' \in [Clerk -> CallRecord]
      /\ call'[c] = r /\ \A d \in Clerk \ {c} : call'[d] = call[d]
      /\ \A d \in Clerk : call'[d].op # "none" => call'[d].key \in Key
  BY <1>1, <1>2, <1>3, CallReplaced
<1>5. QED
  BY <1>2, <1>4 DEF SameRequest

LEMMA GetAnswered ==
  ASSUME KVTypeOK, NEW c \in Clerk, Get(c)
  PROVE  /\ KVTypeOK'
         /\ call[c].key \in Key /\ GetReply(call[c].key) \in Reply
         /\ SameRequest(c) /\ call'[c].first = call[c].first
         /\ call'[c].at = "replied" /\ call'[c].reply = GetReply(call[c].key)
         /\ \A d \in Clerk \ {c} : call'[d] = call[d]
<1>1. call[c].op # "none" /\ call[c].key \in Key
  BY CallType DEF Get
<1>2. GetReply(call[c].key) \in Reply
  <2> DEFINE k == call[c].key
  <2>1. KeyValue[k] \in Value \cup {Absent} /\ KeyVersion[k] \in Nat
    BY <1>1 DEF KVTypeOK
  <2> HIDE DEF k
  <2>2. GetReply(k) \in Reply
    BY <2>1, KVAssumption DEF GetReply, Reply
  <2>3. QED
    BY <2>2 DEF k
<1>3. /\ call' = [call EXCEPT ![c].at = "replied", ![c].reply = GetReply(call[c].key)]
      /\ UNCHANGED <<KeyValue, KeyVersion, performed>>
  BY DEF Get
<1>4. /\ call' \in [Clerk -> CallRecord]
      /\ SameRequest(c) /\ call'[c].first = call[c].first
      /\ call'[c].at = "replied" /\ call'[c].reply = GetReply(call[c].key)
      /\ \A d \in Clerk \ {c} : call'[d] = call[d]
      /\ \A d \in Clerk : call'[d].op # "none" => call'[d].key \in Key
  BY <1>1, <1>2, <1>3, Answered
<1>5. KVTypeOK'
  BY <1>3, <1>4 DEF KVTypeOK, CallRecord, Reply, Result0
<1>6. QED
  BY <1>1, <1>2, <1>4, <1>5

\* A Put is performed exactly when it names the version that the key has.
LEMMA PutErrMeans ==
  ASSUME KVTypeOK, NEW k \in Key, NEW version \in Nat
  PROVE  /\ PutErr(k, version) \in {"OK", "ErrNoKey", "ErrVersion"}
         /\ PutErr(k, version) = "OK" <=> version = KeyVersion[k]
         /\ PutErr(k, version) = "ErrNoKey" => KeyVersion[k] = 0
<1>1. KeyVersion[k] = 0 <=> KeyValue[k] = Absent
  BY DEF KVTypeOK
<1>2. QED
  BY <1>1 DEF PutErr

LEMMA PutAnswered ==
  ASSUME KVTypeOK, NEW c \in Clerk, Put(c),
         NEW k, k = call[c].key, NEW err, err = PutErr(k, call[c].version)
  PROVE  /\ KVTypeOK' /\ k \in Key /\ err \in {"OK", "ErrNoKey", "ErrVersion"}
         /\ SameRequest(c) /\ call'[c].first = call[c].first
         /\ call'[c].at = "replied" /\ call'[c].reply = PutReply(err)
         /\ \A d \in Clerk \ {c} : call'[d] = call[d]
         /\ \/ /\ err = "OK" /\ call[c].version = KeyVersion[k]
               /\ KeyValue' = [KeyValue EXCEPT ![k] = call[c].value]
               /\ KeyVersion' = [KeyVersion EXCEPT ![k] = call[c].version + 1]
               /\ performed' = [performed EXCEPT ![c] = @ + 1]
            \/ /\ err # "OK" /\ call[c].version # KeyVersion[k]
               /\ UNCHANGED <<KeyValue, KeyVersion, performed>>
<1> DEFINE reply == PutReply(err)
<1>1. /\ call[c].op # "none" /\ k \in Key
      /\ call[c].version \in Nat /\ call[c].value \in Value
  BY CallType DEF Put
<1>2. /\ err \in {"OK", "ErrNoKey", "ErrVersion"}
      /\ err = "OK" <=> call[c].version = KeyVersion[k]
  BY <1>1, PutErrMeans
<1>3. reply \in Reply
  BY <1>2, KVAssumption DEF Reply, PutReply
<1>4. /\ call' = [call EXCEPT ![c].at = "replied", ![c].reply = reply]
      /\ IF err = "OK"
           THEN /\ KeyValue' = [KeyValue EXCEPT ![k] = call[c].value]
                /\ KeyVersion' = [KeyVersion EXCEPT ![k] = call[c].version + 1]
                /\ performed' = [performed EXCEPT ![c] = @ + 1]
           ELSE UNCHANGED <<KeyValue, KeyVersion, performed>>
  BY ZenonT(60) DEF Put
<1> HIDE DEF reply
<1>5. /\ call' \in [Clerk -> CallRecord]
      /\ SameRequest(c) /\ call'[c].first = call[c].first
      /\ call'[c].at = "replied" /\ call'[c].reply = reply
      /\ \A d \in Clerk \ {c} : call'[d] = call[d]
      /\ \A d \in Clerk : call'[d].op # "none" => call'[d].key \in Key
  BY <1>1, <1>3, <1>4, Answered
<1>6. KVTypeOK'
  <2>1. CASE err = "OK"
    <3> DEFINE version == call[c].version + 1
    <3>1. version \in Nat /\ version # 0 /\ call[c].value # Absent
      BY <1>1, KVAssumption
    <3>2. /\ KeyValue' = [KeyValue EXCEPT ![k] = call[c].value]
          /\ KeyVersion' = [KeyVersion EXCEPT ![k] = version]
          /\ performed' = [performed EXCEPT ![c] = @ + 1]
      BY <1>4, <2>1
    <3> HIDE DEF version
    <3>3. KeyValue' \in [Key -> Value \cup {Absent}] /\ KeyVersion' \in [Key -> Nat]
      BY <1>1, <3>1, <3>2 DEF KVTypeOK
    <3>4. \A j \in Key : KeyVersion'[j] = 0 <=> KeyValue'[j] = Absent
      BY <1>1, <3>1, <3>2 DEF KVTypeOK
    <3>5. performed' \in [Clerk -> Nat]
      <4>1. performed \in [Clerk -> Nat]
        BY DEF KVTypeOK
      <4>2. performed[c] \in Nat
        BY <4>1
      <4>3. performed[c] + 1 \in Nat
        BY <4>2
      <4>4. QED
        BY <3>2, <4>1, <4>3
    <3>6. QED
      BY <1>5, <3>3, <3>4, <3>5 DEF KVTypeOK, CallRecord, Reply, Result0
  <2>2. CASE err # "OK"
    <3>1. UNCHANGED <<KeyValue, KeyVersion, performed>>
      BY <1>4, <2>2
    <3>2. call' \in [Clerk -> CallRecord]
          /\ \A d \in Clerk : call'[d].op # "none" => call'[d].key \in Key
      BY <1>5
    <3>3. QED
      BY <3>1, <3>2 DEF KVTypeOK, CallRecord, Reply, Result0
  <2>3. QED
    BY <2>1, <2>2
<1>7. QED
  BY <1>1, <1>2, <1>4, <1>5, <1>6 DEF reply

-----------------------------------------------------------------------------
(***************************************************************************)
(* The answers are true.                                                   *)
(***************************************************************************)
\* What the clerk's call, the server's count and the versions have to do with
\* one another.  A Put that was performed is behind the version of its key.
Truth(c) ==
  /\ call[c].op = "none" => call[c].at = "returned"
  /\ call[c].at = "replied" => call[c].reply.Err # "unset"
  /\ call[c].op = "Put" =>
       /\ performed[c] > 0 => call[c].version < KeyVersion[call[c].key]
       /\ (call[c].at = "sent" /\ call[c].first) => performed[c] = 0
       /\ call[c].reply.Value = Empty /\ call[c].reply.Version = 0
       /\ call[c].at = "replied" =>
            \/ call[c].reply.Err = "OK" <=> performed[c] > 0
            \/ call[c].reply.Err = "ErrVersion" /\ ~call[c].first

KVInv == KVTypeOK /\ \A c \in Clerk : Truth(c)

\* The calls of the other clerks: versions only grow.
LEMMA TruthStays ==
  ASSUME KVInv, KVTypeOK', NEW d \in Clerk, call'[d] = call[d], performed'[d] = performed[d],
         \A k \in Key : KeyVersion[k] <= KeyVersion'[k]
  PROVE  Truth(d)'
<1>1. Truth(d)
  BY DEF KVInv
<1>2. call[d].op = "Put" =>
        /\ call[d].version \in Nat /\ KeyVersion[call[d].key] \in Nat
        /\ KeyVersion'[call[d].key] \in Nat
        /\ KeyVersion[call[d].key] <= KeyVersion'[call[d].key]
  <2>1. call[d].version \in Nat /\ (call[d].op = "Put" => call[d].key \in Key)
    BY CallType DEF KVInv
  <2>2. KeyVersion \in [Key -> Nat] /\ KeyVersion' \in [Key -> Nat]
    BY DEF KVInv, KVTypeOK
  <2>3. QED
    BY <2>1, <2>2
<1>3. QED
  BY <1>1, <1>2 DEF Truth

LEMMA CallTrue ==
  ASSUME KVInv, NEW c \in Clerk, NEW op \in {"Get", "Put"}, NEW k \in Key,
         NEW v \in Value, NEW version \in Nat, Call(c, op, k, v, version)
  PROVE  KVInv'
<1>1. KVTypeOK
  BY DEF KVInv
<1>2. /\ KVTypeOK'
      /\ call'[c] = [at |-> "sent", op |-> op, key |-> k, value |-> v, version |-> version,
                     first |-> TRUE, reply |-> NoReply, result |-> "unset"]
      /\ \A d \in Clerk \ {c} : call'[d] = call[d]
  BY <1>1, CallMade
<1>3. performed \in [Clerk -> Nat] /\ KeyVersion \in [Key -> Nat]
  BY <1>1 DEF KVTypeOK
<1>4. performed' = [performed EXCEPT ![c] = 0] /\ KeyVersion' = KeyVersion
  BY DEF Call
<1>5. performed'[c] = 0 /\ \A d \in Clerk \ {c} : performed'[d] = performed[d]
  BY <1>3, <1>4
<1>6. Truth(c)'
  <2>1. /\ call'[c].op # "none" /\ call'[c].at = "sent" /\ call'[c].reply = NoReply
    BY <1>2
  <2>2. NoReply.Value = Empty /\ NoReply.Version = 0
    BY DEF NoReply
  <2>3. ~(performed'[c] > 0)
    BY <1>5
  <2>4. QED
    BY <1>5, <2>1, <2>2, <2>3 DEF Truth
<1>7. \A j \in Key : KeyVersion[j] <= KeyVersion'[j]
  BY <1>3, <1>4
<1>8. ASSUME NEW d \in Clerk, d # c PROVE Truth(d)'
  BY <1>2, <1>5, <1>7, <1>8, TruthStays
<1>9. QED
  BY <1>2, <1>6, <1>8 DEF KVInv

LEMMA LostTrue ==
  ASSUME KVInv, NEW c \in Clerk, Lost(c)
  PROVE  /\ KVInv' /\ call[c].op # "none" /\ call[c].at # "returned"
         /\ SameRequest(c) /\ call'[c].reply = call[c].reply
         /\ call'[c].at = "sent" /\ ~call'[c].first
         /\ \A d \in Clerk \ {c} : call'[d] = call[d]
<1>1. KVTypeOK /\ Truth(c)
  BY DEF KVInv
<1>2. CallFails(c) /\ call[c].at \in {"sent", "replied"}
  BY DEF Lost, RequestLost, ReplyLost
<1>3. call[c].op # "none"
  BY <1>1, <1>2 DEF Truth
<1>4. /\ KVTypeOK'
      /\ SameRequest(c) /\ call'[c].reply = call[c].reply
      /\ call'[c].at = "sent" /\ ~call'[c].first
      /\ \A d \in Clerk \ {c} : call'[d] = call[d]
  BY <1>1, <1>2, <1>3, CallResent
<1>5. UNCHANGED <<KeyVersion, performed>>
  BY <1>2 DEF CallFails
<1>6. Truth(c)'
  <2>2. /\ call'[c].at = "sent" /\ ~call'[c].first /\ call'[c].op = call[c].op
        /\ call'[c].version = call[c].version /\ call'[c].key = call[c].key
        /\ call'[c].reply = call[c].reply
    BY <1>4 DEF SameRequest
  <2>3. QED
    BY <1>1, <1>3, <1>5, <2>2 DEF Truth
<1>7. \A j \in Key : KeyVersion[j] <= KeyVersion'[j]
  BY <1>1, <1>5 DEF KVTypeOK
<1>8. ASSUME NEW d \in Clerk, d # c PROVE Truth(d)'
  BY <1>4, <1>5, <1>7, <1>8, TruthStays
<1>9. QED
  BY <1>2, <1>3, <1>4, <1>6, <1>8 DEF KVInv

LEMMA ReturnTrue ==
  ASSUME KVInv, NEW c \in Clerk, Return(c)
  PROVE  /\ KVInv' /\ call[c].op # "none"
         /\ SameRequest(c) /\ call'[c].reply = call[c].reply
         /\ call'[c].at = "returned" /\ call'[c].result = Result(c)
         /\ \A d \in Clerk \ {c} : call'[d] = call[d]
<1>1. KVTypeOK /\ Truth(c)
  BY DEF KVInv
<1>2. call[c].op # "none"
  BY <1>1 DEF Truth, Return
<1>3. /\ KVTypeOK'
      /\ SameRequest(c) /\ call'[c].reply = call[c].reply
      /\ call'[c].at = "returned" /\ call'[c].result = Result(c)
      /\ \A d \in Clerk \ {c} : call'[d] = call[d]
  BY <1>1, <1>2, CallReturned
<1>4. UNCHANGED <<KeyVersion, performed>>
  BY DEF Return
<1>5. Truth(c)'
  <2>2. /\ call'[c].at = "returned" /\ call'[c].op = call[c].op
        /\ call'[c].version = call[c].version /\ call'[c].key = call[c].key
        /\ call'[c].reply = call[c].reply
    BY <1>3 DEF SameRequest
  <2>3. QED
    BY <1>1, <1>4, <2>2 DEF Truth
<1>6. \A j \in Key : KeyVersion[j] <= KeyVersion'[j]
  BY <1>1, <1>4 DEF KVTypeOK
<1>7. ASSUME NEW d \in Clerk, d # c PROVE Truth(d)'
  BY <1>3, <1>4, <1>6, <1>7, TruthStays
<1>8. QED
  BY <1>2, <1>3, <1>5, <1>7 DEF KVInv

LEMMA GetTrue ==
  ASSUME KVInv, NEW c \in Clerk, Get(c)
  PROVE  KVInv'
<1>1. KVTypeOK /\ Truth(c) /\ call[c].op = "Get"
  BY DEF KVInv, Get
<1>2. /\ KVTypeOK' /\ GetReply(call[c].key) \in Reply
      /\ SameRequest(c) /\ call'[c].first = call[c].first
      /\ call'[c].at = "replied" /\ call'[c].reply = GetReply(call[c].key)
      /\ \A d \in Clerk \ {c} : call'[d] = call[d]
  BY <1>1, GetAnswered
<1>3. UNCHANGED <<KeyVersion, performed>>
  BY DEF Get
<1>4. Truth(c)'
  <2>2. /\ call'[c].at = "replied" /\ call'[c].op = "Get"
        /\ call'[c].reply = GetReply(call[c].key)
    BY <1>1, <1>2 DEF SameRequest
  <2>3. GetReply(call[c].key).Err # "unset"
    BY DEF GetReply
  <2>4. QED
    BY <2>2, <2>3 DEF Truth
<1>5. \A j \in Key : KeyVersion[j] <= KeyVersion'[j]
  BY <1>1, <1>3 DEF KVTypeOK
<1>6. ASSUME NEW d \in Clerk, d # c PROVE Truth(d)'
  BY <1>2, <1>3, <1>5, <1>6, TruthStays
<1>7. QED
  BY <1>2, <1>4, <1>6 DEF KVInv

LEMMA PutTrue ==
  ASSUME KVInv, NEW c \in Clerk, Put(c),
         NEW k, k = call[c].key, NEW err, err = PutErr(k, call[c].version)
  PROVE  /\ KVInv' /\ (err = "OK" => performed[c] = 0)
<1>1. /\ KVTypeOK /\ Truth(c) /\ call[c].op = "Put" /\ call[c].at = "sent"
  BY DEF KVInv, Put
<1>2. /\ KVTypeOK' /\ k \in Key /\ err \in {"OK", "ErrNoKey", "ErrVersion"}
      /\ SameRequest(c) /\ call'[c].first = call[c].first
      /\ call'[c].at = "replied" /\ call'[c].reply = PutReply(err)
      /\ \A d \in Clerk \ {c} : call'[d] = call[d]
  BY <1>1, PutAnswered
<1>3. \/ /\ err = "OK" /\ call[c].version = KeyVersion[k]
         /\ KeyValue' = [KeyValue EXCEPT ![k] = call[c].value]
         /\ KeyVersion' = [KeyVersion EXCEPT ![k] = call[c].version + 1]
         /\ performed' = [performed EXCEPT ![c] = @ + 1]
      \/ /\ err # "OK" /\ call[c].version # KeyVersion[k]
         /\ UNCHANGED <<KeyValue, KeyVersion, performed>>
  BY <1>1, PutAnswered
<1>4. /\ performed \in [Clerk -> Nat] /\ KeyVersion \in [Key -> Nat] /\ call[c].version \in Nat
      /\ call[c].first \in BOOLEAN
  BY <1>1, CallType DEF KVTypeOK
<1>5. performed[c] > 0 => call[c].version < KeyVersion[k]
  BY <1>1 DEF Truth
<1>6. performed[c] \in Nat /\ KeyVersion[k] \in Nat
  BY <1>2, <1>4
<1>7. err = "OK" => performed[c] = 0
  BY <1>3, <1>4, <1>5, <1>6
<1>8. err = "ErrNoKey" => KeyVersion[k] = 0
  BY <1>1, <1>2, <1>4, PutErrMeans
<1>9. \A d \in Clerk \ {c} : performed'[d] = performed[d]
  BY <1>3, <1>4
<1>10. \A j \in Key : KeyVersion[j] <= KeyVersion'[j]
  <2>1. CASE err = "OK"
    <3>1. KeyVersion' = [KeyVersion EXCEPT ![k] = KeyVersion[k] + 1]
      BY <1>3, <2>1
    <3>2. QED
      BY <1>4, <3>1
  <2>2. CASE err # "OK"
    BY <1>3, <1>4, <2>2
  <2>3. QED
    BY <2>1, <2>2
<1>11. Truth(c)'
  <2> DEFINE r == PutReply(err)
  <2>2. /\ call'[c].at = "replied" /\ call'[c].op = "Put" /\ call'[c].key = k
        /\ call'[c].version = call[c].version /\ call'[c].first = call[c].first
        /\ call'[c].reply = r
    BY <1>1, <1>2 DEF SameRequest
  <2>3. r.Err = err /\ r.Value = Empty /\ r.Version = 0 /\ err # "unset"
    BY <1>2 DEF PutReply
  <2>4. CASE err = "OK"
    <3>1. performed'[c] = 1 /\ KeyVersion'[k] = call[c].version + 1
      BY <1>2, <1>3, <1>4, <1>7, <2>4
    <3>2. performed'[c] > 0 /\ call[c].version < KeyVersion'[k]
      BY <1>4, <3>1
    <3> HIDE DEF r
    <3>3. QED
      BY <2>2, <2>3, <2>4, <3>2 DEF Truth
  <2>5. CASE err # "OK"
    <3>1. performed' = performed /\ KeyVersion' = KeyVersion
      BY <1>3, <2>5
    <3>2. performed[c] > 0 => err = "ErrVersion" /\ ~call[c].first
      <4>1. performed[c] > 0 => KeyVersion[k] # 0
        BY <1>4, <1>5, <1>6
      <4>2. performed[c] > 0 => ~call[c].first
        BY <1>1, <1>6 DEF Truth
      <4>3. QED
        BY <1>2, <1>8, <2>5, <4>1, <4>2
    <3> HIDE DEF r
    <3>3. (r.Err = "OK" <=> performed[c] > 0) \/ (r.Err = "ErrVersion" /\ ~call[c].first)
      BY <2>3, <2>5, <3>2
    <3>4. QED
      BY <1>5, <2>2, <2>3, <3>1, <3>3 DEF Truth
  <2>6. QED
    BY <2>4, <2>5
<1>12. ASSUME NEW d \in Clerk, d # c PROVE Truth(d)'
  BY <1>2, <1>9, <1>10, <1>12, TruthStays
<1>13. QED
  BY <1>2, <1>7, <1>11, <1>12 DEF KVInv

LEMMA InvStarts ==
  ASSUME KVInit
  PROVE  KVInv
<1>1. Idle \in CallRecord /\ Idle.op = "none" /\ Idle.at = "returned"
  BY KVAssumption, NoReplyType DEF Idle, CallRecord, Result0
<1>2. call \in [Clerk -> CallRecord] /\ \A c \in Clerk : call[c] = Idle
  BY <1>1 DEF KVInit
<1>3. KVTypeOK
  BY <1>1, <1>2 DEF KVTypeOK, KVInit, CallRecord, Reply, Result0
<1>4. \A c \in Clerk : Truth(c)
  BY <1>1, <1>2 DEF Truth
<1>5. QED
  BY <1>3, <1>4 DEF KVInv

LEMMA InvHolds == KVSpec => []KVInv
<1>1. KVInit => KVInv
  BY InvStarts
<1>2. KVInv /\ [KVNext]_kvVars => KVInv'
  <2> SUFFICES ASSUME KVInv, [KVNext]_kvVars PROVE KVInv'
    OBVIOUS
  <2>1. ASSUME NEW c \in Clerk, NEW k \in Key, ClerkGet(c, k) PROVE KVInv'
    BY <2>1, CallTrue, KVAssumption DEF ClerkGet
  <2>2. ASSUME NEW c \in Clerk, NEW k \in Key, NEW v \in Value,
               NEW version \in 0 .. MaxVersion - 1, ClerkPut(c, k, v, version)
        PROVE  KVInv'
    <3>1. version \in Nat
      OBVIOUS
    <3>2. QED
      BY <2>2, <3>1, CallTrue DEF ClerkPut
  <2>3. ASSUME NEW c \in Clerk, Served(c) PROVE KVInv'
    BY <2>3, GetTrue, PutTrue, ReturnTrue DEF Served
  <2>4. ASSUME NEW c \in Clerk, Lost(c) PROVE KVInv'
    BY <2>4, LostTrue
  <2>5. CASE UNCHANGED kvVars
    BY <2>5 DEF KVInv, KVTypeOK, Truth, kvVars
  <2>6. QED
    BY <2>1, <2>2, <2>3, <2>4, <2>5 DEF KVNext
<1>3. QED
  BY <1>1, <1>2, PTL DEF KVSpec

\* The server and the clerks keep their types, and KeyValue and KeyVersion
\* always have the same keys, so that the second ErrNoKey of the server's
\* Get() and Put() is never given.
THEOREM ServerTypes == KVSpec => []KVTypeOK
<1>1. KVInv => KVTypeOK
  BY DEF KVInv
<1>2. QED
  BY <1>1, InvHolds, PTL

-----------------------------------------------------------------------------
(***************************************************************************)
(* Refinement.                                                             *)
(***************************************************************************)
serviceVars ==
  <<ServiceStore, ServiceOp, ServiceOpen, ServiceApplied, ServiceSeen, ServiceResult>>

\* A function on clerks of which a step changes one value.
LEMMA OneChanged ==
  ASSUME NEW f, NEW g, NEW c \in Clerk, NEW x,
         f = [d \in Clerk |-> f[d]], g = [d \in Clerk |-> g[d]],
         g[c] = x, \A d \in Clerk \ {c} : g[d] = f[d]
  PROVE  g = [f EXCEPT ![c] = x]
OBVIOUS

LEMMA NoneChanged ==
  ASSUME NEW f, NEW g, f = [d \in Clerk |-> f[d]], g = [d \in Clerk |-> g[d]],
         \A d \in Clerk : g[d] = f[d]
  PROVE  g = f
OBVIOUS

LEMMA ServiceFunctions ==
  /\ ServiceOp = [d \in Clerk |-> ServiceOp[d]]
  /\ ServiceOpen = [d \in Clerk |-> ServiceOpen[d]]
  /\ ServiceApplied = [d \in Clerk |-> ServiceApplied[d]]
  /\ ServiceSeen = [d \in Clerk |-> ServiceSeen[d]]
  /\ ServiceResult = [d \in Clerk |-> ServiceResult[d]]
<1>1. ServiceOp = [d \in Clerk |-> ServiceOp[d]]
  BY DEF ServiceOp
<1>2. ServiceOpen = [d \in Clerk |-> ServiceOpen[d]]
  BY DEF ServiceOpen
<1>3. ServiceApplied = [d \in Clerk |-> ServiceApplied[d]]
  BY DEF ServiceApplied
<1>4. ServiceSeen = [d \in Clerk |-> ServiceSeen[d]]
  BY DEF ServiceSeen
<1>5. ServiceResult = [d \in Clerk |-> ServiceResult[d]]
  BY DEF ServiceResult
<1>6. QED
  BY <1>1, <1>2, <1>3, <1>4, <1>5

\* The same of the state after a step.
LEMMA ServiceFunctionsPrime ==
  /\ ServiceOp' = [d \in Clerk |-> ServiceOp'[d]]
  /\ ServiceOpen' = [d \in Clerk |-> ServiceOpen'[d]]
  /\ ServiceApplied' = [d \in Clerk |-> ServiceApplied'[d]]
  /\ ServiceSeen' = [d \in Clerk |-> ServiceSeen'[d]]
  /\ ServiceResult' = [d \in Clerk |-> ServiceResult'[d]]
<1>1. ServiceOp' = [d \in Clerk |-> ServiceOp'[d]]
  BY DEF ServiceOp
<1>2. ServiceOpen' = [d \in Clerk |-> ServiceOpen'[d]]
  BY DEF ServiceOpen
<1>3. ServiceApplied' = [d \in Clerk |-> ServiceApplied'[d]]
  BY DEF ServiceApplied
<1>4. ServiceSeen' = [d \in Clerk |-> ServiceSeen'[d]]
  BY DEF ServiceSeen
<1>5. ServiceResult' = [d \in Clerk |-> ServiceResult'[d]]
  BY DEF ServiceResult
<1>6. QED
  BY <1>1, <1>2, <1>3, <1>4, <1>5

\* What the service knows of a call is what the call's record says.
LEMMA OtherCalls ==
  ASSUME NEW d \in Clerk, call'[d] = call[d], performed'[d] = performed[d]
  PROVE  /\ ServiceOp'[d] = ServiceOp[d] /\ ServiceOpen'[d] = ServiceOpen[d]
         /\ ServiceApplied'[d] = ServiceApplied[d] /\ ServiceSeen'[d] = ServiceSeen[d]
         /\ ServiceResult'[d] = ServiceResult[d]
<1>1. ServiceOp'[d] = ServiceOp[d]
  BY DEF ServiceOp
<1>2. ServiceOpen'[d] = ServiceOpen[d]
  BY DEF ServiceOpen
<1>3. ServiceApplied'[d] = ServiceApplied[d]
  BY DEF ServiceApplied
<1>4. ServiceSeen'[d] = ServiceSeen[d]
  BY DEF ServiceSeen
<1>5. ServiceResult'[d] = ServiceResult[d]
  BY DEF ServiceResult
<1>6. QED
  BY <1>1, <1>2, <1>3, <1>4, <1>5

\* A step of one call, in terms of that call.
LEMMA CallChanges ==
  ASSUME NEW c \in Clerk,
         \A d \in Clerk \ {c} : call'[d] = call[d] /\ performed'[d] = performed[d]
  PROVE  /\ ServiceOp' = [ServiceOp EXCEPT ![c] = ServiceOp'[c]]
         /\ ServiceOpen' = [ServiceOpen EXCEPT ![c] = ServiceOpen'[c]]
         /\ ServiceApplied' = [ServiceApplied EXCEPT ![c] = ServiceApplied'[c]]
         /\ ServiceSeen' = [ServiceSeen EXCEPT ![c] = ServiceSeen'[c]]
         /\ ServiceResult' = [ServiceResult EXCEPT ![c] = ServiceResult'[c]]
<1>1. ASSUME NEW d \in Clerk \ {c}
      PROVE  /\ ServiceOp'[d] = ServiceOp[d] /\ ServiceOpen'[d] = ServiceOpen[d]
             /\ ServiceApplied'[d] = ServiceApplied[d] /\ ServiceSeen'[d] = ServiceSeen[d]
             /\ ServiceResult'[d] = ServiceResult[d]
  BY OtherCalls
<1>2. ServiceOp' = [ServiceOp EXCEPT ![c] = ServiceOp'[c]]
  BY <1>1, OneChanged, ServiceFunctions, ServiceFunctionsPrime, ZenonT(60)
<1>3. ServiceOpen' = [ServiceOpen EXCEPT ![c] = ServiceOpen'[c]]
  BY <1>1, OneChanged, ServiceFunctions, ServiceFunctionsPrime, ZenonT(60)
<1>4. ServiceApplied' = [ServiceApplied EXCEPT ![c] = ServiceApplied'[c]]
  BY <1>1, OneChanged, ServiceFunctions, ServiceFunctionsPrime, ZenonT(60)
<1>5. ServiceSeen' = [ServiceSeen EXCEPT ![c] = ServiceSeen'[c]]
  BY <1>1, OneChanged, ServiceFunctions, ServiceFunctionsPrime, ZenonT(60)
<1>6. ServiceResult' = [ServiceResult EXCEPT ![c] = ServiceResult'[c]]
  BY <1>1, OneChanged, ServiceFunctions, ServiceFunctionsPrime, ZenonT(60)
<1>7. QED
  BY <1>2, <1>3, <1>4, <1>5, <1>6

\* Setting a value to what it is changes nothing.
LEMMA CallStays ==
  ASSUME NEW c \in Clerk
  PROVE  /\ ServiceOp = [ServiceOp EXCEPT ![c] = ServiceOp[c]]
         /\ ServiceOpen = [ServiceOpen EXCEPT ![c] = ServiceOpen[c]]
         /\ ServiceApplied = [ServiceApplied EXCEPT ![c] = ServiceApplied[c]]
         /\ ServiceSeen = [ServiceSeen EXCEPT ![c] = ServiceSeen[c]]
         /\ ServiceResult = [ServiceResult EXCEPT ![c] = ServiceResult[c]]
BY OneChanged, ServiceFunctions

LEMMA StoreStays ==
  ASSUME UNCHANGED <<KeyValue, KeyVersion>>
  PROVE  ServiceStore' = ServiceStore
BY DEF ServiceStore

\* A step that leaves the request of a call leaves what the service knows of it.
LEMMA OpStays ==
  ASSUME NEW c \in Clerk, SameRequest(c)
  PROVE  ServiceOp'[c] = ServiceOp[c]
BY DEF SameRequest, ServiceOp

LEMMA ZeroIsNotPositive ==
  ASSUME NEW n, n = 0
  PROVE  (n > 0) = FALSE
OBVIOUS

LEMMA CallRefines ==
  ASSUME KVInv, NEW c \in Clerk, NEW op \in {"Get", "Put"}, NEW k \in Key,
         NEW v \in Value, NEW version \in Nat, Call(c, op, k, v, version)
  PROVE  Service!Call(c, op, k, v, version)
<1>1. KVTypeOK
  BY DEF KVInv
<1>2. /\ call'[c] = [at |-> "sent", op |-> op, key |-> k, value |-> v, version |-> version,
                     first |-> TRUE, reply |-> NoReply, result |-> "unset"]
      /\ \A d \in Clerk \ {c} : call'[d] = call[d]
  BY <1>1, CallMade
<1>3. /\ performed'[c] = 0 /\ \A d \in Clerk \ {c} : performed'[d] = performed[d]
      /\ UNCHANGED <<KeyValue, KeyVersion>> /\ call[c].at = "returned"
  BY <1>1 DEF Call, KVTypeOK
<1>4. /\ call'[c].op = op /\ call'[c].op # "none" /\ call'[c].key = k /\ call'[c].value = v
      /\ call'[c].version = version /\ call'[c].at = "sent" /\ call'[c].reply = NoReply
  BY <1>2
<1>5. ServiceOpen[c] = FALSE /\ ServiceOpen'[c] = TRUE
  BY <1>3, <1>4 DEF ServiceOpen
<1>6. ServiceOp'[c] = [kind |-> op, key |-> k, value |-> v, version |-> version]
  BY <1>4 DEF ServiceOp
<1>7. ServiceApplied'[c] = FALSE
  <2>1. ServiceApplied'[c] = (performed'[c] > 0)
    BY DEF ServiceApplied
  <2>2. QED
    BY <1>3, <2>1, ZeroIsNotPositive
<1>8. ServiceSeen'[c] = {}
  BY <1>4 DEF ServiceSeen
<1>9. ServiceResult'[c] = Service!NoReply
  <2>1. NoReply = Service!NoReply
    BY DEF NoReply, Service!NoReply, Service!PutReply
  <2>2. ServiceResult'[c] = NoReply
    BY <1>4 DEF ServiceResult
  <2>3. QED
    BY <2>1, <2>2
<1>10. ServiceStore' = ServiceStore
  BY <1>3, StoreStays
<1>11. /\ ServiceOp' = [ServiceOp EXCEPT ![c] = ServiceOp'[c]]
       /\ ServiceOpen' = [ServiceOpen EXCEPT ![c] = ServiceOpen'[c]]
       /\ ServiceApplied' = [ServiceApplied EXCEPT ![c] = ServiceApplied'[c]]
       /\ ServiceSeen' = [ServiceSeen EXCEPT ![c] = ServiceSeen'[c]]
       /\ ServiceResult' = [ServiceResult EXCEPT ![c] = ServiceResult'[c]]
  BY <1>2, <1>3, CallChanges
<1>12. QED
  BY <1>5, <1>6, <1>7, <1>8, <1>9, <1>10, <1>11, ZenonT(60) DEF Service!Call

LEMMA LostRefines ==
  ASSUME KVInv, NEW c \in Clerk, Lost(c)
  PROVE  UNCHANGED serviceVars
<1>1. /\ call[c].op # "none" /\ call[c].at # "returned"
      /\ SameRequest(c) /\ call'[c].reply = call[c].reply /\ call'[c].at = "sent"
      /\ \A d \in Clerk \ {c} : call'[d] = call[d]
  BY LostTrue
<1>2. UNCHANGED <<KeyValue, KeyVersion, performed>>
  BY DEF Lost, RequestLost, ReplyLost, CallFails
<1>3. /\ ServiceOp'[c] = ServiceOp[c] /\ ServiceOpen'[c] = ServiceOpen[c]
      /\ ServiceApplied'[c] = ServiceApplied[c] /\ ServiceSeen'[c] = ServiceSeen[c]
      /\ ServiceResult'[c] = ServiceResult[c]
  <2>1. ServiceOp'[c] = ServiceOp[c]
    BY <1>1, OpStays
  <2>2. ServiceOpen'[c] = ServiceOpen[c]
    BY <1>1 DEF ServiceOpen
  <2>3. ServiceApplied'[c] = ServiceApplied[c]
    BY <1>2 DEF ServiceApplied
  <2>4. ServiceSeen'[c] = ServiceSeen[c]
    BY <1>1 DEF ServiceSeen
  <2>5. ServiceResult'[c] = ServiceResult[c]
    BY <1>1 DEF ServiceResult
  <2>6. QED
    BY <2>1, <2>2, <2>3, <2>4, <2>5
<1>4. /\ ServiceOp' = ServiceOp /\ ServiceOpen' = ServiceOpen
      /\ ServiceApplied' = ServiceApplied /\ ServiceSeen' = ServiceSeen
      /\ ServiceResult' = ServiceResult
  BY <1>1, <1>2, <1>3, CallChanges, CallStays
<1>5. QED
  BY <1>2, <1>4, StoreStays DEF serviceVars

\* The server's answer to the request of c: the service notes it.
LEMMA AnswerNoted ==
  ASSUME NEW c \in Clerk, NEW reply, reply.Err # "unset",
         call[c].op # "none", call[c].at = "sent",
         SameRequest(c), call'[c].at = "replied", call'[c].reply = reply,
         \A d \in Clerk \ {c} : call'[d] = call[d] /\ performed'[d] = performed[d]
  PROVE  /\ ServiceOpen[c] /\ Service!Note(c, reply)
         /\ ServiceOp' = ServiceOp /\ ServiceOpen' = ServiceOpen
         /\ ServiceResult' = ServiceResult
         /\ ServiceApplied' = [ServiceApplied EXCEPT ![c] = performed'[c] > 0]
<1>1. /\ ServiceOp' = [ServiceOp EXCEPT ![c] = ServiceOp'[c]]
      /\ ServiceOpen' = [ServiceOpen EXCEPT ![c] = ServiceOpen'[c]]
      /\ ServiceApplied' = [ServiceApplied EXCEPT ![c] = ServiceApplied'[c]]
      /\ ServiceSeen' = [ServiceSeen EXCEPT ![c] = ServiceSeen'[c]]
      /\ ServiceResult' = [ServiceResult EXCEPT ![c] = ServiceResult'[c]]
  BY CallChanges
<1>2. ServiceOp'[c] = ServiceOp[c]
  BY OpStays
<1>3. ServiceOpen'[c] = ServiceOpen[c] /\ ServiceOpen[c]
  BY DEF ServiceOpen
<1>4. ServiceResult'[c] = ServiceResult[c]
  BY DEF ServiceResult
<1>5. ServiceApplied'[c] = (performed'[c] > 0)
  BY DEF ServiceApplied
<1>6. ServiceSeen'[c] = {} \cup {reply}
  <2>1. reply # NoReply
    BY DEF NoReply
  <2>2. QED
    BY <2>1 DEF ServiceSeen
<1>7. Service!Note(c, reply)
  <2>1. {} \in SUBSET ServiceSeen[c]
    OBVIOUS
  <2>2. ServiceSeen' = [ServiceSeen EXCEPT ![c] = {} \cup {reply}]
    BY <1>1, <1>6, ZenonT(60)
  <2>3. QED
    BY <2>1, <2>2, ZenonT(60) DEF Service!Note
<1>8. QED
  BY <1>1, <1>2, <1>3, <1>4, <1>5, <1>7, CallStays, ZenonT(60)

LEMMA GetRefines ==
  ASSUME KVInv, NEW c \in Clerk, Get(c)
  PROVE  Service!Look(c)
<1> DEFINE k == call[c].key
           reply == GetReply(k)
<1>1. KVTypeOK /\ call[c].op = "Get" /\ call[c].at = "sent"
  BY DEF KVInv, Get
<1>2. /\ k \in Key /\ SameRequest(c) /\ call'[c].at = "replied" /\ call'[c].reply = reply
      /\ \A d \in Clerk \ {c} : call'[d] = call[d]
  BY <1>1, GetAnswered
<1>3. UNCHANGED <<KeyValue, KeyVersion, performed>>
  BY DEF Get
<1>4. reply.Err # "unset"
  BY DEF GetReply
<1>5. ServiceOp[c].kind = "Get" /\ ServiceOp[c].key = k
  BY <1>1 DEF ServiceOp
<1>6. Service!Lookup(k) = reply
  <2>1. /\ ServiceStore[k].value = KeyValue[k] /\ ServiceStore[k].version = KeyVersion[k]
        /\ KeyVersion[k] = 0 <=> KeyValue[k] = Absent
    BY <1>1, <1>2 DEF ServiceStore, KVTypeOK
  <2> HIDE DEF k
  <2>2. QED
    BY <2>1 DEF Service!Lookup, GetReply
<1> HIDE DEF k, reply
<1>7. /\ ServiceOpen[c] /\ Service!Note(c, reply)
      /\ ServiceOp' = ServiceOp /\ ServiceOpen' = ServiceOpen
      /\ ServiceResult' = ServiceResult
  BY <1>1, <1>2, <1>3, <1>4, AnswerNoted
<1>8. ServiceApplied' = ServiceApplied
  BY <1>3 DEF ServiceApplied
<1>9. ServiceStore' = ServiceStore
  BY <1>3, StoreStays
<1>10. QED
  BY <1>5, <1>6, <1>7, <1>8, <1>9 DEF Service!Look

LEMMA PutRefines ==
  ASSUME KVInv, NEW c \in Clerk, Put(c),
         NEW k, k = call[c].key, NEW err, err = PutErr(k, call[c].version)
  PROVE  Service!Apply(c) \/ Service!Refuse(c)
<1>1. KVTypeOK /\ call[c].op = "Put" /\ call[c].at = "sent"
  BY DEF KVInv, Put
<1>2. /\ k \in Key /\ err \in {"OK", "ErrNoKey", "ErrVersion"} /\ SameRequest(c)
      /\ call'[c].at = "replied" /\ call'[c].reply = PutReply(err)
      /\ \A d \in Clerk \ {c} : call'[d] = call[d]
  BY <1>1, PutAnswered
<1>3. \/ /\ err = "OK" /\ call[c].version = KeyVersion[k]
         /\ KeyValue' = [KeyValue EXCEPT ![k] = call[c].value]
         /\ KeyVersion' = [KeyVersion EXCEPT ![k] = call[c].version + 1]
         /\ performed' = [performed EXCEPT ![c] = @ + 1]
      \/ /\ err # "OK" /\ call[c].version # KeyVersion[k]
         /\ UNCHANGED <<KeyValue, KeyVersion, performed>>
  BY <1>1, PutAnswered
<1>4. PutReply(err).Err # "unset" /\ PutReply(err) = Service!PutReply(err)
  BY <1>2 DEF PutReply, Service!PutReply
<1>5. performed \in [Clerk -> Nat]
  BY <1>1 DEF KVTypeOK
<1>6. \A d \in Clerk \ {c} : performed'[d] = performed[d]
  BY <1>3, <1>5
<1>7. /\ ServiceOpen[c] /\ Service!Note(c, PutReply(err))
      /\ ServiceOp' = ServiceOp /\ ServiceOpen' = ServiceOpen
      /\ ServiceResult' = ServiceResult
      /\ ServiceApplied' = [ServiceApplied EXCEPT ![c] = performed'[c] > 0]
  BY <1>1, <1>2, <1>4, <1>6, AnswerNoted, ZenonT(60)
<1>8. Service!Note(c, Service!PutReply(err))
  BY <1>4, <1>7
<1>9. /\ ServiceOp[c].kind = "Put" /\ ServiceOp[c].key = k /\ ServiceOp[c].value = call[c].value
      /\ ServiceOp[c].version = call[c].version
  BY <1>1 DEF ServiceOp
<1>10. Service!Verdict(k, call[c].version) = err
  <2>1. /\ ServiceStore[k].value = KeyValue[k] /\ ServiceStore[k].version = KeyVersion[k]
        /\ KeyVersion[k] = 0 <=> KeyValue[k] = Absent
    BY <1>1, <1>2 DEF ServiceStore, KVTypeOK
  <2>2. QED
    BY <2>1 DEF Service!Verdict, PutErr
<1>11. CASE err = "OK"
  <2>1. performed[c] = 0
    BY <1>11, PutTrue
  <2>2. (performed'[c] > 0) = TRUE /\ ~ServiceApplied[c]
    <3>1. performed' = [performed EXCEPT ![c] = performed[c] + 1]
      BY <1>3, <1>11
    <3>2. performed'[c] = 1
      BY <1>5, <2>1, <3>1
    <3>3. ~(performed[c] > 0) /\ performed'[c] > 0
      BY <2>1, <3>2
    <3>4. QED
      BY <3>3 DEF ServiceApplied
  <2>3. ServiceStore' = [ServiceStore EXCEPT ![k] =
          [value |-> call[c].value, version |-> call[c].version + 1]]
    <3>1. /\ KeyValue' = [KeyValue EXCEPT ![k] = call[c].value]
          /\ KeyVersion' = [KeyVersion EXCEPT ![k] = call[c].version + 1]
      BY <1>3, <1>11
    <3>2. KeyValue \in [Key -> Value \cup {Absent}] /\ KeyVersion \in [Key -> Nat]
      BY <1>1 DEF KVTypeOK
    <3>3. /\ KeyValue'[k] = call[c].value /\ KeyVersion'[k] = call[c].version + 1
          /\ \A j \in Key \ {k} : KeyValue'[j] = KeyValue[j] /\ KeyVersion'[j] = KeyVersion[j]
      BY <1>2, <3>1, <3>2
    <3> DEFINE new == [value |-> call[c].value, version |-> call[c].version + 1]
    <3>4. ServiceStore'[k] = new
      BY <1>2, <3>3 DEF ServiceStore
    <3>5. \A j \in Key \ {k} : ServiceStore'[j] = ServiceStore[j]
      BY <3>3 DEF ServiceStore
    <3>6. /\ ServiceStore' = [j \in Key |-> ServiceStore'[j]]
          /\ ServiceStore = [j \in Key |-> ServiceStore[j]]
      BY DEF ServiceStore
    <3> HIDE DEF new
    <3>7. ServiceStore' = [ServiceStore EXCEPT ![k] = new]
      BY <1>2, <3>4, <3>5, <3>6
    <3>8. QED
      BY <3>7 DEF new
  <2>4. ServiceApplied' = [ServiceApplied EXCEPT ![c] = TRUE]
    BY <1>7, <2>2
  <2>5. QED
    BY <1>7, <1>8, <1>9, <1>10, <1>11, <2>2, <2>3, <2>4, ZenonT(60) DEF Service!Apply
<1>12. CASE err # "OK"
  <2>1. UNCHANGED <<KeyValue, KeyVersion, performed>>
    BY <1>3, <1>12
  <2>2. ServiceStore' = ServiceStore /\ ServiceApplied' = ServiceApplied
    BY <2>1, StoreStays DEF ServiceApplied
  <2>3. QED
    BY <1>7, <1>8, <1>9, <1>10, <1>12, <2>2 DEF Service!Refuse
<1>13. QED
  BY <1>11, <1>12

LEMMA ReturnRefines ==
  ASSUME KVInv, NEW c \in Clerk, Return(c)
  PROVE  Service!Return(c)
<1> DEFINE result == [Err |-> Result(c), Value |-> call[c].reply.Value,
                      Version |-> call[c].reply.Version]
<1>1. KVTypeOK /\ Truth(c) /\ call[c].at = "replied"
  BY DEF KVInv, Return
<1>2. /\ call[c].op # "none" /\ SameRequest(c) /\ call'[c].reply = call[c].reply
      /\ call'[c].at = "returned" /\ call'[c].result = Result(c)
      /\ \A d \in Clerk \ {c} : call'[d] = call[d]
  BY ReturnTrue
<1>3. UNCHANGED <<KeyValue, KeyVersion, performed>>
  BY DEF Return
<1>4. call[c].op \in {"none", "Get", "Put"} /\ call[c].reply \in Reply
  BY <1>1, CallType
<1>5. ServiceOpen[c] /\ ServiceOpen'[c] = FALSE
  BY <1>1, <1>2 DEF ServiceOpen
<1>6. ServiceOp' = ServiceOp /\ ServiceSeen' = ServiceSeen /\ ServiceApplied' = ServiceApplied
  <2>1. ServiceOp'[c] = ServiceOp[c]
    BY <1>2, OpStays
  <2>2. ServiceSeen'[c] = ServiceSeen[c]
    BY <1>2 DEF ServiceSeen
  <2>3. ServiceApplied' = ServiceApplied
    BY <1>3 DEF ServiceApplied
  <2>4. QED
    BY <1>2, <1>3, <2>1, <2>2, <2>3, CallChanges, CallStays
<1>7. ServiceResult'[c] = result
  <2>1. call'[c].op # "none"
    BY <1>2 DEF SameRequest
  <2>2. QED
    BY <1>2, <2>1 DEF ServiceResult
<1>8. result \in Service!Truthful(c)
  <2>1. ServiceOp[c].kind = call[c].op
    BY <1>2 DEF ServiceOp
  <2>2. call[c].reply \in ServiceSeen[c]
    <3>1. call[c].reply # NoReply
      BY <1>1, NoReplyType DEF Truth
    <3>2. QED
      BY <3>1 DEF ServiceSeen
  <2>3. call[c].reply = [Err |-> call[c].reply.Err, Value |-> call[c].reply.Value,
                         Version |-> call[c].reply.Version]
    BY <1>4 DEF Reply
  <2>4. CASE call[c].op = "Get"
    <3>1. Result(c) = call[c].reply.Err
      BY <2>4 DEF Result
    <3>2. result = call[c].reply
      BY <2>3, <3>1
    <3> HIDE DEF result
    <3>3. QED
      BY <2>1, <2>2, <2>4, <3>2 DEF Service!Truthful
  <2>5. CASE call[c].op = "Put" /\ call[c].reply.Err = "ErrVersion" /\ ~call[c].first
    <3>1. Result(c) = "ErrMaybe" /\ call[c].reply.Value = Empty /\ call[c].reply.Version = 0
      BY <1>1, <2>5 DEF Result, Truth
    <3>2. result = Service!PutReply("ErrMaybe") /\ call[c].reply = Service!PutReply("ErrVersion")
      BY <2>3, <2>5, <3>1 DEF Service!PutReply
    <3> HIDE DEF result
    <3>3. QED
      BY <2>1, <2>2, <2>5, <3>2 DEF Service!Truthful
  <2>6. CASE call[c].op = "Put" /\ ~(call[c].reply.Err = "ErrVersion" /\ ~call[c].first)
    <3>1. Result(c) = call[c].reply.Err
      BY <2>6 DEF Result
    <3>2. result = call[c].reply
      BY <2>3, <3>1
    <3>3. call[c].reply.Err = "OK" <=> ServiceApplied[c]
      BY <1>1, <2>6 DEF Truth, ServiceApplied
    <3> HIDE DEF result
    <3>4. QED
      BY <2>1, <2>2, <2>6, <3>2, <3>3 DEF Service!Truthful
  <2>7. QED
    BY <1>2, <1>4, <2>4, <2>5, <2>6
<1> HIDE DEF result
<1>9. /\ ServiceOpen' = [ServiceOpen EXCEPT ![c] = ServiceOpen'[c]]
      /\ ServiceResult' = [ServiceResult EXCEPT ![c] = ServiceResult'[c]]
  BY <1>2, <1>3, CallChanges
<1>10. ServiceStore' = ServiceStore
  BY <1>3, StoreStays
<1>11. QED
  BY <1>5, <1>6, <1>7, <1>8, <1>9, <1>10, ZenonT(60) DEF Service!Return

\* The single server and its clerks, over a network that loses requests and
\* replies, are a KVService: a Put that is sent again and again takes effect at
\* most once and is answered truthfully, with ErrMaybe only when the clerk
\* cannot know, and a Get returns a value with the version it belongs to.
THEOREM ServerIsService == KVSpec => ImplementsService
<1>1. KVInit => Service!Init
  <2> SUFFICES ASSUME KVInit PROVE Service!Init
    OBVIOUS
  <2>1. ServiceStore = [k \in Key |-> [value |-> Absent, version |-> 0]]
    BY DEF KVInit, ServiceStore
  <2>2. \A c \in Clerk :
          /\ call[c].op = "none" /\ call[c].at = "returned" /\ call[c].reply = NoReply
          /\ performed[c] = 0
    BY DEF KVInit, Idle
  <2>3. ServiceOp = [c \in Clerk |-> [kind |-> "none"]]
    BY <2>2 DEF ServiceOp
  <2>4. ServiceOpen = [c \in Clerk |-> FALSE]
    BY <2>2 DEF ServiceOpen
  <2>5. ServiceApplied = [c \in Clerk |-> FALSE]
    <3>1. \A c \in Clerk : (performed[c] > 0) = FALSE
      BY <2>2, ZeroIsNotPositive
    <3>2. QED
      BY <3>1, ZenonT(60) DEF ServiceApplied
  <2>6. ServiceSeen = [c \in Clerk |-> {}]
    BY <2>2 DEF ServiceSeen
  <2>7. ServiceResult = [c \in Clerk |-> Service!NoReply]
    <3>1. NoReply = Service!NoReply
      BY DEF NoReply, Service!NoReply, Service!PutReply
    <3>2. ServiceResult = [c \in Clerk |-> NoReply]
      BY <2>2 DEF ServiceResult
    <3>3. QED
      BY <3>1, <3>2
  <2>8. QED
    BY <2>1, <2>3, <2>4, <2>5, <2>6, <2>7 DEF Service!Init
<1>2. KVInv /\ [KVNext]_kvVars => [Service!Next]_serviceVars
  <2> SUFFICES ASSUME KVInv, [KVNext]_kvVars
               PROVE  Service!Next \/ UNCHANGED serviceVars
    OBVIOUS
  <2>1. ASSUME NEW c \in Clerk, NEW k \in Key, ClerkGet(c, k) PROVE Service!Next
    <3>1. Service!Call(c, "Get", k, Empty, 0)
      BY <2>1, CallRefines, KVAssumption DEF ClerkGet
    <3>2. QED
      BY <3>1 DEF Service!Next
  <2>2. ASSUME NEW c \in Clerk, NEW k \in Key, NEW v \in Value,
               NEW version \in 0 .. MaxVersion - 1, ClerkPut(c, k, v, version)
        PROVE  Service!Next
    <3>1. version \in Nat
      OBVIOUS
    <3>2. Service!Call(c, "Put", k, v, version)
      BY <2>2, <3>1, CallRefines DEF ClerkPut
    <3>3. QED
      BY <3>2 DEF Service!Next
  <2>3. ASSUME NEW c \in Clerk, Served(c) PROVE Service!Next
    BY <2>3, GetRefines, PutRefines, ReturnRefines DEF Served, Service!Next
  <2>4. ASSUME NEW c \in Clerk, Lost(c) PROVE UNCHANGED serviceVars
    BY <2>4, LostRefines
  <2>5. CASE UNCHANGED kvVars
    BY <2>5 DEF kvVars, serviceVars, ServiceStore, ServiceOp, ServiceOpen, ServiceApplied,
                ServiceSeen, ServiceResult
  <2>6. QED
    BY <2>1, <2>2, <2>3, <2>4, <2>5 DEF KVNext
<1>3. QED
  BY <1>1, <1>2, InvHolds, PTL
     DEF KVSpec, ImplementsService, Service!Spec, Service!svars, serviceVars

-----------------------------------------------------------------------------
(***************************************************************************)
(* The lock.  The client that is on record keeps the lock key to itself,   *)
(* because the Put of another client that could still get through names an *)
(* older version: it was made when the key was absent, free or that        *)
(* client's.                                                               *)
(***************************************************************************)
PutLabels == {"AcquireCreate", "AcquirePut"}
GetLabels == {"AcquireGet", "AcquireCheck", "ReleaseGet", "ReleaseCheck"}

\* What a client's place in Acquire() or Release() says of its call.
Placed(c) ==
  /\ pc[c] \in {"out", "held"} => call[c].at = "returned"
  /\ pc[c] \in PutLabels => call[c].op = "Put" /\ call[c].value = c
  /\ pc[c] = "ReleasePut" => call[c].op = "Put" /\ call[c].value = Empty
  /\ pc[c] \in GetLabels => call[c].op = "Get"
  /\ (call[c].at = "returned" /\ call[c].op # "none") => call[c].result = Result(c)

\* What a call says of the lock's record.  An answer and a version that a
\* client goes by are those of the record or older; a version that is not
\* older belongs to a record that the client may overwrite.
Informed(c) ==
  /\ (call[c].op = "Get" /\ call[c].reply.Err = "OK") =>
       /\ call[c].reply.Version <= KeyVersion[l]
       /\ call[c].reply.Version = KeyVersion[l] => call[c].reply.Value = KeyValue[l]
  /\ call[c].op = "Put" =>
       /\ call[c].version <= KeyVersion[l]
       /\ call[c].version = KeyVersion[l] => KeyValue[l] \in {Absent, Empty, c}

\* The client knows that it is on record.
Knows(c) ==
  \/ pc[c] = "held"
  \/ /\ call[c].op = "Put" /\ call[c].value = c /\ call[c].reply.Err = "OK"
     /\ call[c].at \in {"replied", "returned"}
  \/ /\ call[c].op = "Get" /\ call[c].reply.Value = c
     /\ call[c].at \in {"replied", "returned"}

LockInv ==
  /\ KVInv
  /\ pc \in [Clerk -> Labels]
  /\ \A c \in Clerk :
       /\ Placed(c)
       /\ Informed(c)
       /\ Knows(c) => KeyValue[l] = c

LEMMA LockTypes ==
  ASSUME NEW c \in Clerk
  PROVE  /\ c \in Value /\ Empty \in Value /\ l \in Key /\ c # Empty /\ c # Absent
BY LockAssumption, KVAssumption

LEMMA KeyIsLock ==
  ASSUME KVInv, NEW c \in Clerk, call[c].op # "none"
  PROVE  call[c].key = l
BY LockAssumption, CallType DEF KVInv

LEMMA LockNumbers ==
  ASSUME KVInv, NEW c \in Clerk
  PROVE  /\ KeyVersion[l] \in Nat /\ call[c].version \in Nat /\ call[c].reply.Version \in Nat
         /\ KeyVersion[l] = 0 <=> KeyValue[l] = Absent
<1>1. KVTypeOK /\ l \in Key
  BY LockAssumption DEF KVInv
<1>2. KeyVersion[l] \in Nat /\ (KeyVersion[l] = 0 <=> KeyValue[l] = Absent)
  BY <1>1 DEF KVTypeOK
<1>3. call[c].version \in Nat /\ call[c].reply \in Reply
  BY <1>1, CallType
<1>4. QED
  BY <1>2, <1>3 DEF Reply

\* The lock's record stays, or client c replaces a record that is nobody's or
\* its own.
Replaced(c) ==
  \/ UNCHANGED <<KeyValue, KeyVersion>>
  \/ KeyVersion'[l] = KeyVersion[l] + 1 /\ KeyValue[l] \in {Absent, Empty, c}

\* Nothing of this is lost for another client.
LEMMA OtherClients ==
  ASSUME LockInv, NEW c \in Clerk, NEW d \in Clerk, d # c, Replaced(c),
         call'[d] = call[d], pc'[d] = pc[d]
  PROVE  Placed(d)' /\ Informed(d)' /\ (Knows(d) => KeyValue[l] = d)'
<1>1. /\ KVInv /\ Placed(d) /\ Informed(d) /\ (Knows(d) => KeyValue[l] = d)
  BY DEF LockInv
<1>2. Placed(d)'
  BY <1>1 DEF Placed, Result
<1>3. Knows(d)' <=> Knows(d)
  BY DEF Knows
<1>4. CASE UNCHANGED <<KeyValue, KeyVersion>>
  BY <1>1, <1>2, <1>3, <1>4 DEF Informed
<1>5. CASE KeyVersion'[l] = KeyVersion[l] + 1 /\ KeyValue[l] \in {Absent, Empty, c}
  <2>1. ~Knows(d)
    BY <1>1, <1>5, LockTypes
  <2>2. /\ KeyVersion[l] \in Nat /\ call[d].version \in Nat /\ call[d].reply.Version \in Nat
    BY <1>1, LockNumbers
  <2>3. Informed(d)'
    BY <1>1, <1>5, <2>2 DEF Informed
  <2>4. QED
    BY <1>2, <1>3, <2>1, <2>3
<1>6. QED
  BY <1>4, <1>5 DEF Replaced

\* So it is enough to look at the client that takes the step.
LEMMA OneClient ==
  ASSUME LockInv, KVInv', NEW c \in Clerk, Replaced(c), pc' \in [Clerk -> Labels],
         \A d \in Clerk \ {c} : call'[d] = call[d] /\ pc'[d] = pc[d],
         Placed(c)', Informed(c)', (Knows(c) => KeyValue[l] = c)'
  PROVE  LockInv'
<1>1. ASSUME NEW d \in Clerk, d # c
      PROVE  Placed(d)' /\ Informed(d)' /\ (Knows(d) => KeyValue[l] = d)'
  BY <1>1, OtherClients
<1>2. QED
  BY <1>1 DEF LockInv

-----------------------------------------------------------------------------
(***************************************************************************)
(* The calls.                                                              *)
(***************************************************************************)
LEMMA GotoIs ==
  ASSUME pc \in [Clerk -> Labels], NEW c \in Clerk, NEW label \in Labels, Goto(c, label)
  PROVE  /\ pc' \in [Clerk -> Labels] /\ pc'[c] = label
         /\ \A d \in Clerk \ {c} : pc'[d] = pc[d]
BY DEF Goto

LEMMA QueryOK ==
  ASSUME LockInv, NEW c \in Clerk, NEW label \in GetLabels, Query(c, label)
  PROVE  LockInv'
<1>1. KVInv /\ KVTypeOK /\ Call(c, "Get", l, Empty, 0) /\ Goto(c, label) /\ l \in Key
  BY LockAssumption DEF LockInv, KVInv, Query, ClerkGet
<1>2. Empty \in Value /\ label \in Labels
  BY KVAssumption DEF GetLabels, Labels
<1>3. KVInv'
  BY <1>1, <1>2, CallTrue
<1>4. /\ call'[c] = [at |-> "sent", op |-> "Get", key |-> l, value |-> Empty, version |-> 0,
                     first |-> TRUE, reply |-> NoReply, result |-> "unset"]
      /\ \A d \in Clerk \ {c} : call'[d] = call[d]
  BY <1>1, <1>2, CallMade
<1>5. /\ pc' \in [Clerk -> Labels] /\ pc'[c] = label
      /\ \A d \in Clerk \ {c} : pc'[d] = pc[d]
  BY <1>1, <1>2, GotoIs DEF LockInv
<1>6. call'[c].at = "sent" /\ call'[c].op = "Get" /\ call'[c].reply = NoReply
  BY <1>4
<1>7. Placed(c)' /\ Informed(c)' /\ ~Knows(c)'
  <2>1. NoReply.Err # "OK"
    BY NoReplyType
  <2>2. label \notin {"out", "held", "ReleasePut"} /\ label \notin PutLabels
    BY DEF GetLabels, PutLabels
  <2>3. Placed(c)'
    BY <1>5, <1>6, <2>2 DEF Placed
  <2>4. Informed(c)'
    BY <1>6, <2>1 DEF Informed
  <2>5. ~Knows(c)'
    BY <1>5, <1>6, <2>2 DEF Knows
  <2>6. QED
    BY <2>3, <2>4, <2>5
<1>8. Replaced(c)
  BY <1>1 DEF Call, Replaced
<1>9. QED
  BY <1>3, <1>4, <1>5, <1>7, <1>8, OneClient

LEMMA StoreOK ==
  ASSUME LockInv, NEW c \in Clerk, NEW v, NEW version \in Nat, NEW label, Store(c, v, version, label),
         (label \in PutLabels /\ v = c) \/ (label = "ReleasePut" /\ v = Empty),
         version <= KeyVersion[l],
         version = KeyVersion[l] => KeyValue[l] \in {Absent, Empty, c}
  PROVE  LockInv'
<1>1. KVInv /\ KVTypeOK /\ Call(c, "Put", l, v, version) /\ Goto(c, label) /\ l \in Key
  BY LockAssumption DEF LockInv, KVInv, Store, ClerkPut
<1>2. v \in Value /\ label \in Labels
  BY LockTypes DEF PutLabels, Labels
<1>3. KVInv'
  BY <1>1, <1>2, CallTrue
<1>4. /\ call'[c] = [at |-> "sent", op |-> "Put", key |-> l, value |-> v, version |-> version,
                     first |-> TRUE, reply |-> NoReply, result |-> "unset"]
      /\ \A d \in Clerk \ {c} : call'[d] = call[d]
  BY <1>1, <1>2, CallMade
<1>5. /\ pc' \in [Clerk -> Labels] /\ pc'[c] = label
      /\ \A d \in Clerk \ {c} : pc'[d] = pc[d]
  BY <1>1, <1>2, GotoIs DEF LockInv
<1>6. /\ call'[c].at = "sent" /\ call'[c].op = "Put" /\ call'[c].value = v
      /\ call'[c].version = version
  BY <1>4
<1>7. UNCHANGED <<KeyValue, KeyVersion>>
  BY <1>1 DEF Call
<1>8. Placed(c)' /\ Informed(c)' /\ ~Knows(c)'
  <2>1. label \notin {"out", "held"} /\ label \notin GetLabels
    BY DEF GetLabels, PutLabels
  <2>2. Placed(c)'
    BY <1>5, <1>6, <2>1 DEF Placed, PutLabels
  <2>3. Informed(c)'
    BY <1>6, <1>7 DEF Informed
  <2>4. ~Knows(c)'
    BY <1>5, <1>6, <2>1 DEF Knows
  <2>5. QED
    BY <2>2, <2>3, <2>4
<1>9. Replaced(c)
  BY <1>7 DEF Replaced
<1>10. QED
  BY <1>3, <1>4, <1>5, <1>8, <1>9, OneClient

LEMMA FinishOK ==
  ASSUME LockInv, NEW c \in Clerk, NEW label, Finish(c, label), call[c].at = "returned",
         label = "out" \/ (label = "held" /\ KeyValue[l] = c)
  PROVE  LockInv'
<1>1. UNCHANGED <<KeyValue, KeyVersion, call, performed>> /\ Goto(c, label) /\ label \in Labels
  BY DEF Finish, kvVars, Labels
<1>2. KVInv /\ Placed(c) /\ Informed(c) /\ (Knows(c) => KeyValue[l] = c)
  BY DEF LockInv
<1>3. KVInv'
  BY <1>1, <1>2 DEF KVInv, KVTypeOK, Truth
<1>4. /\ pc' \in [Clerk -> Labels] /\ pc'[c] = label
      /\ \A d \in Clerk \ {c} : pc'[d] = pc[d]
  BY <1>1, GotoIs DEF LockInv
<1>5. Placed(c)'
  <2>1. label \notin PutLabels /\ label \notin GetLabels /\ label # "ReleasePut"
    BY DEF PutLabels, GetLabels
  <2>2. QED
    BY <1>1, <1>2, <1>4, <2>1 DEF Placed, Result
<1>6. Informed(c)'
  BY <1>1, <1>2 DEF Informed
<1>7. (Knows(c) => KeyValue[l] = c)'
  BY <1>1, <1>2, <1>4 DEF Knows
<1>8. Replaced(c)
  BY <1>1 DEF Replaced
<1>9. QED
  BY <1>1, <1>3, <1>4, <1>5, <1>6, <1>7, <1>8, OneClient

-----------------------------------------------------------------------------
(***************************************************************************)
(* The network and the server.                                             *)
(***************************************************************************)
LEMMA LostOK ==
  ASSUME LockInv, NEW c \in Clerk, Lost(c), UNCHANGED pc
  PROVE  LockInv'
<1>1. KVInv /\ Placed(c) /\ Informed(c) /\ (Knows(c) => KeyValue[l] = c)
  BY DEF LockInv
<1>2. /\ KVInv' /\ call[c].op # "none" /\ call[c].at # "returned"
      /\ SameRequest(c) /\ call'[c].reply = call[c].reply /\ call'[c].at = "sent"
      /\ \A d \in Clerk \ {c} : call'[d] = call[d]
  BY <1>1, LostTrue
<1>3. UNCHANGED <<KeyValue, KeyVersion>>
  BY DEF Lost, RequestLost, ReplyLost, CallFails
<1>4. Placed(c)'
  BY <1>1, <1>2 DEF Placed, SameRequest
<1>5. Informed(c)'
  BY <1>1, <1>2, <1>3 DEF Informed, SameRequest
<1>6. (Knows(c) => KeyValue[l] = c)'
  BY <1>1, <1>2, <1>3 DEF Knows, Placed
<1>7. QED
  BY <1>2, <1>3, <1>4, <1>5, <1>6, OneClient DEF Replaced, LockInv

LEMMA ReturnOK ==
  ASSUME LockInv, NEW c \in Clerk, Return(c), UNCHANGED pc
  PROVE  LockInv'
<1>1. KVInv /\ Placed(c) /\ Informed(c) /\ (Knows(c) => KeyValue[l] = c)
  BY DEF LockInv
<1>2. /\ KVInv' /\ call[c].op # "none"
      /\ SameRequest(c) /\ call'[c].reply = call[c].reply
      /\ call'[c].at = "returned" /\ call'[c].result = Result(c)
      /\ \A d \in Clerk \ {c} : call'[d] = call[d]
  BY <1>1, ReturnTrue
<1>3. UNCHANGED <<KeyValue, KeyVersion>> /\ call[c].at = "replied"
  BY DEF Return
<1>4. call'[c].first = call[c].first
  <2>1. call[c] \in CallRecord /\ Clerk = DOMAIN call
    BY <1>1, CallType DEF KVInv, KVTypeOK
  <2>2. call' = [call EXCEPT ![c].at = "returned", ![c].result = Result(c)]
    BY DEF Return
  <2>3. QED
    BY <2>1, <2>2 DEF CallRecord
<1>5. Result(c)' = Result(c)
  BY <1>2, <1>4 DEF Result, SameRequest
<1>6. Placed(c)'
  BY <1>1, <1>2, <1>5 DEF Placed, SameRequest
<1>7. Informed(c)'
  BY <1>1, <1>2, <1>3 DEF Informed, SameRequest
<1>8. (Knows(c) => KeyValue[l] = c)'
  BY <1>1, <1>2, <1>3 DEF Knows, SameRequest
<1>9. QED
  BY <1>2, <1>3, <1>6, <1>7, <1>8, OneClient DEF Replaced, LockInv

LEMMA GetOK ==
  ASSUME LockInv, NEW c \in Clerk, Get(c), UNCHANGED pc
  PROVE  LockInv'
<1>1. KVInv /\ KVTypeOK /\ Placed(c) /\ (Knows(c) => KeyValue[l] = c)
  BY DEF LockInv, KVInv
<1>2. call[c].op = "Get" /\ call[c].at = "sent" /\ UNCHANGED <<KeyValue, KeyVersion>>
  BY DEF Get
<1>3. call[c].key = l
  BY <1>1, <1>2, KeyIsLock
<1>4. /\ SameRequest(c) /\ call'[c].at = "replied" /\ call'[c].reply = GetReply(l)
      /\ \A d \in Clerk \ {c} : call'[d] = call[d]
  BY <1>1, <1>3, GetAnswered
<1>5. KVInv'
  BY <1>1, GetTrue
<1>6. /\ GetReply(l).Err = "OK" =>
           GetReply(l).Version = KeyVersion[l] /\ GetReply(l).Value = KeyValue[l]
      /\ GetReply(l).Value = c => KeyValue[l] = c
  BY LockTypes DEF GetReply
<1>7. Placed(c)'
  BY <1>1, <1>2, <1>4 DEF Placed, SameRequest
<1>8. Informed(c)'
  <2>1. KeyVersion[l] \in Nat /\ call'[c].op = "Get"
    BY <1>1, <1>2, <1>4, LockNumbers DEF SameRequest
  <2>2. QED
    BY <1>2, <1>4, <1>6, <2>1 DEF Informed
<1>9. (Knows(c) => KeyValue[l] = c)'
  BY <1>1, <1>2, <1>4, <1>6 DEF Knows, SameRequest
<1>10. QED
  BY <1>2, <1>4, <1>5, <1>7, <1>8, <1>9, OneClient DEF Replaced, LockInv

LEMMA PutOK ==
  ASSUME LockInv, NEW c \in Clerk, Put(c), UNCHANGED pc,
         NEW err, err = PutErr(l, call[c].version)
  PROVE  LockInv'
<1>1. KVInv /\ KVTypeOK /\ Placed(c) /\ Informed(c) /\ (Knows(c) => KeyValue[l] = c)
  BY DEF LockInv, KVInv
<1>2. call[c].op = "Put" /\ call[c].at = "sent"
  BY DEF Put
<1>3. call[c].key = l /\ l \in Key
  BY <1>1, <1>2, KeyIsLock, LockAssumption
<1>4. /\ err \in {"OK", "ErrNoKey", "ErrVersion"} /\ SameRequest(c)
      /\ call'[c].at = "replied" /\ call'[c].reply = PutReply(err)
      /\ \A d \in Clerk \ {c} : call'[d] = call[d]
  BY <1>1, <1>3, PutAnswered
<1>5. \/ /\ err = "OK" /\ call[c].version = KeyVersion[l]
         /\ KeyValue' = [KeyValue EXCEPT ![l] = call[c].value]
         /\ KeyVersion' = [KeyVersion EXCEPT ![l] = call[c].version + 1]
      \/ /\ err # "OK"
         /\ UNCHANGED <<KeyValue, KeyVersion>>
  BY <1>1, <1>3, PutAnswered
<1>6. KVInv'
  BY <1>1, <1>3, PutTrue
<1>7. PutReply(err).Err = err /\ PutReply(err).Value = Empty
  BY DEF PutReply
<1>8. Placed(c)'
  BY <1>1, <1>2, <1>4 DEF Placed, SameRequest
<1>9. ~(pc[c] = "held")
  BY <1>1, <1>2 DEF Placed
<1>10. KeyVersion[l] \in Nat /\ call[c].version \in Nat
  BY <1>1, LockNumbers
<1>11. CASE err = "OK"
  <2>1. KeyVersion'[l] = KeyVersion[l] + 1 /\ KeyValue'[l] = call[c].value
    BY <1>1, <1>3, <1>5, <1>11 DEF KVTypeOK
  <2>2. Replaced(c)
    BY <1>1, <1>2, <1>5, <1>11, <2>1 DEF Replaced, Informed
  <2>3. Informed(c)'
    <3>1. call'[c].op = "Put" /\ call'[c].version = KeyVersion[l]
      BY <1>2, <1>4, <1>5, <1>11 DEF SameRequest
    <3>2. call'[c].version <= KeyVersion'[l] /\ call'[c].version # KeyVersion'[l]
      BY <1>10, <2>1, <3>1
    <3>3. QED
      BY <3>1, <3>2 DEF Informed
  <2>4. (Knows(c) => KeyValue[l] = c)'
    BY <1>2, <1>4, <1>9, <2>1 DEF Knows, SameRequest
  <2>5. QED
    BY <1>4, <1>6, <1>8, <2>2, <2>3, <2>4, OneClient DEF LockInv
<1>12. CASE err # "OK"
  <2>1. UNCHANGED <<KeyValue, KeyVersion>>
    BY <1>5, <1>12
  <2>2. Informed(c)'
    BY <1>1, <1>2, <1>4, <2>1 DEF Informed, SameRequest
  <2>3. ~Knows(c)'
    BY <1>2, <1>4, <1>7, <1>9, <1>12 DEF Knows, SameRequest
  <2>4. QED
    BY <1>4, <1>6, <1>8, <2>1, <2>2, <2>3, OneClient DEF Replaced, LockInv
<1>13. QED
  BY <1>11, <1>12

-----------------------------------------------------------------------------
(***************************************************************************)
(* Acquire() and Release().                                                *)
(***************************************************************************)
\* A client goes by a Get that has returned.
LEMMA GotMeans ==
  ASSUME LockInv, NEW c \in Clerk, call[c].op = "Get", call[c].at = "returned"
  PROVE  /\ call[c].result = call[c].reply.Err
         /\ call[c].result = "OK" =>
              /\ call[c].reply.Version \in Nat /\ call[c].reply.Version <= KeyVersion[l]
              /\ call[c].reply.Version = KeyVersion[l] => call[c].reply.Value = KeyValue[l]
         /\ call[c].reply.Value = c => KeyValue[l] = c
<1>1. KVInv /\ Placed(c) /\ Informed(c) /\ (Knows(c) => KeyValue[l] = c)
  BY DEF LockInv
<1>2. call[c].result = call[c].reply.Err
  BY <1>1 DEF Placed, Result
<1>3. call[c].reply.Version \in Nat
  BY <1>1, LockNumbers
<1>4. QED
  BY <1>1, <1>2, <1>3 DEF Informed, Knows

LEMMA PutMeans ==
  ASSUME LockInv, NEW c \in Clerk, call[c].op = "Put", call[c].at = "returned",
         call[c].value = c, call[c].result = "OK"
  PROVE  KeyValue[l] = c
<1>1. Placed(c) /\ (Knows(c) => KeyValue[l] = c)
  BY DEF LockInv
<1>2. call[c].reply.Err = "OK"
  BY <1>1 DEF Placed, Result
<1>3. QED
  BY <1>1, <1>2 DEF Knows

LEMMA StepsOK ==
  ASSUME LockInv, NEW c \in Clerk, Steps(c)
  PROVE  LockInv'
<1>1. KVInv /\ Placed(c) /\ KeyVersion[l] \in Nat /\ (KeyVersion[l] = 0 <=> KeyValue[l] = Absent)
  BY LockNumbers DEF LockInv
<1>2. CASE AcquireGot(c)
  <2>1. call[c].op = "Get" /\ call[c].at = "returned"
    BY <1>1, <1>2 DEF AcquireGot, Returned, Placed, GetLabels
  <2>2. CASE call[c].result = "ErrNoKey" /\ Store(c, c, 0, "AcquireCreate")
    <3>1. 0 <= KeyVersion[l] /\ (0 = KeyVersion[l] => KeyValue[l] \in {Absent, Empty, c})
      BY <1>1
    <3>2. QED
      BY <2>2, <3>1, StoreOK DEF PutLabels
  <2>3. CASE /\ call[c].result = "OK" /\ call[c].reply.Value = Empty
             /\ Store(c, c, call[c].reply.Version, "AcquirePut")
    <3>1. /\ call[c].reply.Version \in Nat /\ call[c].reply.Version <= KeyVersion[l]
          /\ call[c].reply.Version = KeyVersion[l] => KeyValue[l] \in {Absent, Empty, c}
      BY <2>1, <2>3, GotMeans
    <3>2. QED
      BY <2>3, <3>1, StoreOK DEF PutLabels
  <2>4. CASE Query(c, "AcquireGet")
    BY <2>4, QueryOK DEF GetLabels
  <2>5. QED
    BY <1>2, <2>2, <2>3, <2>4 DEF AcquireGot
<1>3. CASE AcquireCreated(c)
  <2>1. call[c].op = "Put" /\ call[c].value = c /\ call[c].at = "returned"
    BY <1>1, <1>3 DEF AcquireCreated, Returned, Placed, PutLabels
  <2>2. CASE call[c].result = "OK"
    BY <1>3, <2>1, <2>2, PutMeans, FinishOK DEF AcquireCreated
  <2>3. CASE call[c].result # "OK"
    BY <1>3, <2>3, QueryOK DEF AcquireCreated, GetLabels
  <2>4. QED
    BY <2>2, <2>3
<1>4. CASE AcquirePutDone(c)
  <2>1. call[c].op = "Put" /\ call[c].value = c /\ call[c].at = "returned"
    BY <1>1, <1>4 DEF AcquirePutDone, Returned, Placed, PutLabels
  <2>2. CASE call[c].result = "OK"
    BY <1>4, <2>1, <2>2, PutMeans, FinishOK DEF AcquirePutDone
  <2>3. CASE call[c].result # "OK"
    BY <1>4, <2>3, QueryOK DEF AcquirePutDone, GetLabels
  <2>4. QED
    BY <2>2, <2>3
<1>5. CASE AcquireChecked(c)
  <2>1. call[c].op = "Get" /\ call[c].at = "returned"
    BY <1>1, <1>5 DEF AcquireChecked, Returned, Placed, GetLabels
  <2>2. CASE call[c].reply.Value = c
    BY <1>5, <2>1, <2>2, GotMeans, FinishOK DEF AcquireChecked
  <2>3. CASE call[c].reply.Value # c
    BY <1>5, <2>3, QueryOK DEF AcquireChecked, GetLabels
  <2>4. QED
    BY <2>2, <2>3
<1>6. CASE ReleaseGot(c)
  <2>1. call[c].op = "Get" /\ call[c].at = "returned"
    BY <1>1, <1>6 DEF ReleaseGot, Returned, Placed, GetLabels
  <2>2. CASE call[c].result = "OK" /\ call[c].reply.Value \in {Empty, c}
    <3>1. /\ call[c].reply.Version \in Nat /\ call[c].reply.Version <= KeyVersion[l]
          /\ call[c].reply.Version = KeyVersion[l] => KeyValue[l] \in {Absent, Empty, c}
      BY <2>1, <2>2, GotMeans
    <3>2. Store(c, Empty, call[c].reply.Version, "ReleasePut")
      BY <1>6, <2>2 DEF ReleaseGot
    <3>3. QED
      BY <3>1, <3>2, StoreOK
  <2>3. CASE ~(call[c].result = "OK" /\ call[c].reply.Value \in {Empty, c})
    BY <1>6, <2>3, QueryOK DEF ReleaseGot, GetLabels
  <2>4. QED
    BY <2>2, <2>3
<1>7. CASE ReleasePutDone(c)
  <2>1. call[c].at = "returned"
    BY <1>7 DEF ReleasePutDone, Returned
  <2>2. Finish(c, "out") \/ Query(c, "ReleaseCheck") \/ Query(c, "ReleaseGet")
    BY <1>7 DEF ReleasePutDone
  <2>3. QED
    BY <2>1, <2>2, FinishOK, QueryOK DEF GetLabels
<1>8. CASE ReleaseChecked(c)
  <2>1. call[c].at = "returned"
    BY <1>8 DEF ReleaseChecked, Returned
  <2>2. Finish(c, "out") \/ Query(c, "ReleaseGet")
    BY <1>8 DEF ReleaseChecked
  <2>3. QED
    BY <2>1, <2>2, FinishOK, QueryOK DEF GetLabels
<1>9. QED
  BY <1>2, <1>3, <1>4, <1>5, <1>6, <1>7, <1>8 DEF Steps

LEMMA LockInvHolds == Spec => []LockInv
<1>1. Init => LockInv
  <2> SUFFICES ASSUME Init PROVE LockInv
    OBVIOUS
  <2>1. KVInit /\ pc = [c \in Clerk |-> "out"]
    BY DEF Init
  <2>2. KVInv
    BY <2>1, InvStarts
  <2>3. \A c \in Clerk : call[c].at = "returned" /\ call[c].op = "none" /\ pc[c] = "out"
    BY <2>1 DEF KVInit, Idle
  <2>4. pc \in [Clerk -> Labels]
    BY <2>1 DEF Labels
  <2>5. QED
    BY <2>2, <2>3, <2>4 DEF LockInv, Placed, Informed, Knows, PutLabels, GetLabels
<1>2. LockInv /\ [Next]_vars => LockInv'
  <2> SUFFICES ASSUME LockInv, [Next]_vars PROVE LockInv'
    OBVIOUS
  <2>1. ASSUME NEW c \in Clerk, Acquire(c) PROVE LockInv'
    BY <2>1, QueryOK DEF Acquire, GetLabels
  <2>2. ASSUME NEW c \in Clerk, Release(c) PROVE LockInv'
    BY <2>2, QueryOK DEF Release, GetLabels
  <2>3. ASSUME NEW c \in Clerk, Steps(c) PROVE LockInv'
    BY <2>3, StepsOK
  <2>4. ASSUME NEW c \in Clerk, Served(c), UNCHANGED pc PROVE LockInv'
    BY <2>4, GetOK, PutOK, ReturnOK DEF Served
  <2>5. ASSUME NEW c \in Clerk, Lost(c), UNCHANGED pc PROVE LockInv'
    BY <2>5, LostOK
  <2>6. CASE UNCHANGED vars
    BY <2>6 DEF vars, kvVars, LockInv, KVInv, KVTypeOK, Truth, Placed, Informed, Knows, Result
  <2>7. QED
    BY <2>1, <2>2, <2>3, <2>4, <2>5, <2>6 DEF Next
<1>3. QED
  BY <1>1, <1>2, PTL DEF Spec

\* No two clients have the lock, however many there are and whichever requests
\* and replies the network loses.
THEOREM LockExcludes == Spec => []MutualExclusion
<1>1. LockInv => MutualExclusion
  BY DEF LockInv, Knows, MutualExclusion
<1>2. QED
  BY <1>1, LockInvHolds, PTL

-----------------------------------------------------------------------------
(***************************************************************************)
(* For every set of clients and every number of calls and restarts: what   *)
(* the network has acknowledged survives the restarts of the server.       *)
(*                                                                         *)
(* The property is not inductive.  The strengthening follows a call: its   *)
(* handler runs in the instance it was sent to, what a handler that has    *)
(* returned was asked to save is on the disk of that instance, and a reply *)
(* is on its way only if that instance was still registered, so that the   *)
(* copy made by a shutdown, or the disk it is made from, holds it.         *)
(***************************************************************************)

\* The name stands for the last instance, or for none.
Registered == server = IF phase = "up" THEN instance ELSE 0

InFlight(c) ==
  /\ calls[c].at # "none" => calls[c].n \in 1 .. MaxCalls
  /\ calls[c].at \in {"waiting", "handled"} => calls[c].to \in 1 .. instance
  /\ calls[c].at = "handled" => Item(c) \in disk[calls[c].to]
  /\ calls[c].at = "replying" => Item(c) \in LastPersisted

\* A handler works for the present call of its client or an earlier one.
FromCall(h) ==
  LET c == h.item[1]
  IN  /\ h.at \in 1 .. instance
      /\ h.item[2] <= calls[c].n
      /\ h.item[2] = calls[c].n =>
           /\ calls[c].at # "sent"
           /\ calls[c].at = "waiting" => h.at = calls[c].to

NetInv ==
  /\ NetTypeOK
  /\ Registered
  /\ \A c \in Client : InFlight(c)
  /\ \A h \in handlers : FromCall(h)
  /\ AcknowledgedIsSaved

-----------------------------------------------------------------------------
Ats == {"none", "sent", "waiting", "handled", "replying"}

\* The record of a client's call.
LEMMA CallsType ==
  ASSUME NetTypeOK, NEW c \in Client
  PROVE  /\ calls[c].at \in Ats /\ calls[c].n \in 0 .. MaxCalls /\ calls[c].to \in 0 .. MaxInstances
         /\ calls[c] = [at |-> calls[c].at, n |-> calls[c].n, to |-> calls[c].to]
BY DEF NetTypeOK, Ats

LEMMA HandlerType ==
  ASSUME NetTypeOK, NEW h \in handlers
  PROVE  /\ h.item \in Client \X (1 .. MaxCalls) /\ h.at \in Instance
         /\ h.item[1] \in Client /\ h.item[2] \in 1 .. MaxCalls
         /\ h.item = <<h.item[1], h.item[2]>>
<1>1. h.item \in Client \X (1 .. MaxCalls) /\ h.at \in Instance
  BY DEF NetTypeOK
<1>2. QED
  BY <1>1, SMTT(60), Z3T(60)

\* What a step that only moves one call on does to the calls.
LEMMA AtMoves ==
  ASSUME NetTypeOK, NEW c \in Client, NEW at \in Ats, MovesTo(c, at)
  PROVE  /\ calls' \in [Client -> [at : Ats, n : 0 .. MaxCalls, to : 0 .. MaxInstances]]
         /\ calls'[c].at = at /\ calls'[c].n = calls[c].n /\ calls'[c].to = calls[c].to
         /\ \A d \in Client \ {c} : calls'[d] = calls[d]
         /\ \A d \in Client : Item(d)' = Item(d)
<1>1. calls \in [Client -> [at : Ats, n : 0 .. MaxCalls, to : 0 .. MaxInstances]]
  BY DEF NetTypeOK, Ats
<1>2. calls' = [calls EXCEPT ![c].at = at]
  BY DEF MovesTo
<1>3. /\ calls' \in [Client -> [at : Ats, n : 0 .. MaxCalls, to : 0 .. MaxInstances]]
      /\ calls'[c].at = at /\ calls'[c].n = calls[c].n /\ calls'[c].to = calls[c].to
      /\ \A d \in Client \ {c} : calls'[d] = calls[d]
  BY <1>1, <1>2, SMTT(60), Z3T(60)
<1>4. \A d \in Client : calls'[d].n = calls[d].n
  BY <1>3
<1>5. QED
  BY <1>3, <1>4 DEF Item

\* A call that returns, or whose reply may now be sent.
LEMMA MovesOn ==
  ASSUME NetInv, NEW c \in Client, NEW at \in {"none", "replying"}, MovesTo(c, at),
         at = "replying" => /\ calls[c].at # "none"
                            /\ Item(c) \in LastPersisted,
         UNCHANGED <<enabled, server, handlers, testerVars, disk>>,
         acked' \subseteq acked \cup LastPersisted
  PROVE  NetInv'
<1>1. at \in Ats /\ NetTypeOK
  BY DEF Ats, NetInv
<1>2. /\ calls' \in [Client -> [at : Ats, n : 0 .. MaxCalls, to : 0 .. MaxInstances]]
      /\ calls'[c].at = at /\ calls'[c].n = calls[c].n /\ calls'[c].to = calls[c].to
      /\ \A d \in Client \ {c} : calls'[d] = calls[d]
      /\ \A d \in Client : Item(d)' = Item(d)
  BY <1>1, AtMoves
<1>3. LastPersisted' = LastPersisted
  BY DEF LastPersisted, testerVars
<1>4. NetTypeOK'
  <2>1. LastPersisted \subseteq Client \X (1 .. MaxCalls)
    BY <1>1 DEF LastPersisted, NetTypeOK
  <2>2. QED
    BY <1>1, <1>2, <2>1 DEF NetTypeOK, Ats, testerVars
<1>5. ASSUME NEW d \in Client PROVE InFlight(d)'
  <2>1. InFlight(d)
    BY DEF NetInv
  <2>2. CASE d = c
    BY <1>2, <1>3, <2>1, <2>2 DEF InFlight
  <2>3. CASE d # c
    <3>1. calls'[d] = calls[d] /\ Item(d)' = Item(d)
      BY <1>2, <2>3
    <3>2. QED
      BY <1>3, <2>1, <3>1 DEF InFlight, testerVars
  <2>4. QED
    BY <2>2, <2>3
<1>6. ASSUME NEW h \in handlers' PROVE FromCall(h)'
  <2>1. h \in handlers /\ FromCall(h) /\ h.item[1] \in Client
    BY <1>1, HandlerType DEF NetInv
  <2>2. CASE h.item[1] = c
    BY <1>2, <2>1, <2>2 DEF FromCall, testerVars
  <2>3. CASE h.item[1] # c
    <3>1. calls'[h.item[1]] = calls[h.item[1]]
      BY <1>2, <2>1, <2>3
    <3>2. QED
      BY <2>1, <3>1 DEF FromCall, testerVars
  <2>4. QED
    BY <2>2, <2>3
<1>7. Registered' /\ AcknowledgedIsSaved'
  BY <1>3 DEF NetInv, Registered, AcknowledgedIsSaved, testerVars
<1>8. QED
  BY <1>4, <1>5, <1>6, <1>7 DEF NetInv

-----------------------------------------------------------------------------
LEMMA InitNetInv == NetInit => NetInv
<1> SUFFICES ASSUME NetInit PROVE NetInv
  OBVIOUS
<1>1. NetTypeOK
  BY LabRPCAssumption, SMTT(60), Z3T(60) DEF NetInit, NetTypeOK, Instance
<1>2. Registered /\ AcknowledgedIsSaved
  BY DEF NetInit, Registered, AcknowledgedIsSaved
<1>3. ASSUME NEW c \in Client PROVE InFlight(c)
  BY SMTT(60), Z3T(60) DEF NetInit, InFlight
<1>4. QED
  BY <1>1, <1>2, <1>3 DEF NetInv, NetInit

LEMMA CallStep ==
  ASSUME NetInv, NEW c \in Client, ClientCall(c)
  PROVE  NetInv'
<1> DEFINE n == calls[c].n + 1
           r == [at |-> "sent", n |-> n, to |-> 0]
<1>1. /\ NetTypeOK /\ calls[c].n \in 0 .. MaxCalls /\ calls[c].n < MaxCalls
      /\ UNCHANGED <<enabled, server, handlers, testerVars, disk, acked>>
  BY CallsType DEF NetInv, ClientCall
<1>2. n \in 1 .. MaxCalls
  BY <1>1, LabRPCAssumption, SMTT(60), Z3T(60)
<1>3. DOMAIN calls = Client
  BY <1>1 DEF NetTypeOK
<1>4. calls' = [calls EXCEPT ![c] = r]
  BY DEF ClientCall
<1> HIDE DEF n
<1>5. r \in [at : Ats, n : 0 .. MaxCalls, to : 0 .. MaxInstances]
  BY <1>2, LabRPCAssumption, SMTT(60), Z3T(60) DEF Ats
<1>6. calls'[c] = r /\ \A d \in Client \ {c} : calls'[d] = calls[d]
  BY <1>3, <1>4
<1>7. LastPersisted' = LastPersisted
  BY <1>1 DEF LastPersisted, testerVars
<1>8. NetTypeOK'
  <2>1. calls' \in [Client -> [at : Ats, n : 0 .. MaxCalls, to : 0 .. MaxInstances]]
    BY <1>1, <1>4, <1>5 DEF NetTypeOK, Ats
  <2>2. QED
    BY <1>1, <2>1 DEF NetTypeOK, Ats, testerVars
<1>9. ASSUME NEW d \in Client PROVE InFlight(d)'
  <2>1. CASE d = c
    BY <1>2, <1>6, <2>1, SMTT(60), Z3T(60) DEF InFlight
  <2>2. CASE d # c
    <3>1. calls'[d] = calls[d] /\ Item(d)' = Item(d)
      BY <1>6, <2>2 DEF Item
    <3>2. QED
      BY <1>1, <1>7, <3>1 DEF NetInv, InFlight, testerVars
  <2>3. QED
    BY <2>1, <2>2
<1>10. ASSUME NEW h \in handlers' PROVE FromCall(h)'
  <2>1. /\ h \in handlers /\ FromCall(h) /\ h.item[1] \in Client
        /\ h.item[2] \in 1 .. MaxCalls /\ h.at \in 1 .. instance
    BY <1>1, HandlerType DEF NetInv, FromCall
  <2>2. CASE h.item[1] = c
    <3>1. h.item[2] < n
      BY <1>1, <2>1, <2>2, SMTT(60), Z3T(60) DEF FromCall, n
    <3>2. calls'[c].n = n
      BY <1>6, SMTT(60), Z3T(60)
    <3>3. h.item[2] <= n /\ h.item[2] # n
      BY <1>2, <2>1, <3>1, SMTT(60), Z3T(60)
    <3>4. instance' = instance
      BY <1>1 DEF testerVars
    <3>5. QED
      BY <2>1, <2>2, <3>2, <3>3, <3>4 DEF FromCall
  <2>3. CASE h.item[1] # c
    <3>1. calls'[h.item[1]] = calls[h.item[1]]
      BY <1>6, <2>1, <2>3
    <3>2. QED
      BY <1>1, <2>1, <3>1 DEF FromCall, testerVars
  <2>4. QED
    BY <2>2, <2>3
<1>11. Registered' /\ AcknowledgedIsSaved'
  BY <1>1, <1>7 DEF NetInv, Registered, AcknowledgedIsSaved, testerVars
<1>12. QED
  BY <1>8, <1>9, <1>10, <1>11 DEF NetInv

LEMMA DispatchStep ==
  ASSUME NetInv, NEW c \in Client, Dispatch(c)
  PROVE  NetInv'
<1> DEFINE g == [item |-> Item(c), at |-> server]
<1>1. /\ NetTypeOK /\ InFlight(c) /\ calls[c].at = "sent"
      /\ calls' = [calls EXCEPT ![c].at = "waiting", ![c].to = server]
      /\ handlers' = handlers \cup {g}
      /\ UNCHANGED <<enabled, server, testerVars, disk, acked>>
  BY DEF NetInv, Dispatch
<1>2. server = instance /\ instance \in Instance
  BY DEF NetInv, Dispatch, Registered, NetTypeOK
<1>3. server \in 1 .. instance /\ server \in 0 .. MaxInstances
  BY <1>2, LabRPCAssumption, SMTT(60), Z3T(60) DEF Instance
<1>4. calls[c].n \in 1 .. MaxCalls
  BY <1>1 DEF InFlight
<1>5. Item(c) \in Client \X (1 .. MaxCalls) /\ Item(c)[1] = c /\ Item(c)[2] = calls[c].n
  BY <1>4, SMTT(60), Z3T(60) DEF Item
<1>6. /\ calls' \in [Client -> [at : Ats, n : 0 .. MaxCalls, to : 0 .. MaxInstances]]
      /\ calls'[c].at = "waiting" /\ calls'[c].n = calls[c].n /\ calls'[c].to = server
      /\ \A d \in Client \ {c} : calls'[d] = calls[d]
  <2>1. calls \in [Client -> [at : Ats, n : 0 .. MaxCalls, to : 0 .. MaxInstances]]
    BY <1>1 DEF NetTypeOK, Ats
  <2>2. calls' = [calls EXCEPT ![c].at = "waiting", ![c].to = server] /\ "waiting" \in Ats
    BY <1>1 DEF Ats
  <2>3. DOMAIN calls' = Client /\ \A d \in Client \ {c} : calls'[d] = calls[d]
    BY <2>1, <2>2
  <2>4. calls'[c] = [calls[c] EXCEPT !.at = "waiting", !.to = server]
    BY <2>1, <2>2
  <2>5. /\ calls'[c] \in [at : Ats, n : 0 .. MaxCalls, to : 0 .. MaxInstances]
        /\ calls'[c].at = "waiting" /\ calls'[c].n = calls[c].n /\ calls'[c].to = server
    <3>1. calls[c] \in [at : Ats, n : 0 .. MaxCalls, to : 0 .. MaxInstances] /\ "waiting" \in Ats
      BY <2>1, <2>2
    <3>2. QED
      BY <1>3, <2>4, <3>1
  <2>6. \A d \in Client : calls'[d] \in [at : Ats, n : 0 .. MaxCalls, to : 0 .. MaxInstances]
    BY <2>1, <2>3, <2>5
  <2>7. calls' = [d \in Client |-> calls'[d]]
    BY <2>2, <2>3
  <2>8. QED
    BY <2>3, <2>5, <2>6, <2>7
<1>7. LastPersisted' = LastPersisted
  BY <1>1 DEF LastPersisted, testerVars
<1>8. NetTypeOK'
  <2>1. g \in [item : Client \X (1 .. MaxCalls), at : Instance]
    BY <1>2, <1>5
  <2>2. QED
    BY <1>1, <1>6, <2>1 DEF NetTypeOK, Ats, testerVars
<1>9. ASSUME NEW d \in Client PROVE InFlight(d)'
  <2>1. CASE d = c
    BY <1>1, <1>3, <1>4, <1>6, <2>1, SMTT(60), Z3T(60) DEF InFlight, testerVars
  <2>2. CASE d # c
    <3>1. calls'[d] = calls[d] /\ Item(d)' = Item(d)
      BY <1>6, <2>2 DEF Item
    <3>2. QED
      BY <1>1, <1>7, <3>1 DEF NetInv, InFlight, testerVars
  <2>3. QED
    BY <2>1, <2>2
<1>10. ASSUME NEW h \in handlers' PROVE FromCall(h)'
  <2>1. CASE h = g
    <3>1. h.at = server /\ h.item = Item(c)
      BY <2>1
    <3>2. h.item[1] = c /\ h.item[2] = calls'[c].n /\ h.item[2] <= calls'[c].n
      BY <1>4, <1>5, <1>6, <3>1
    <3>3. instance' = instance
      BY <1>1 DEF testerVars
    <3>4. QED
      BY <1>3, <1>6, <3>1, <3>2, <3>3 DEF FromCall
  <2>2. CASE h # g
    <3>1. /\ h \in handlers /\ FromCall(h) /\ h.item[1] \in Client
          /\ instance' = instance
      BY <1>1, <2>2, HandlerType DEF NetInv, testerVars
    <3>2. CASE h.item[1] = c
      BY <1>1, <1>6, <3>1, <3>2 DEF FromCall
    <3>3. CASE h.item[1] # c
      <4>1. calls'[h.item[1]] = calls[h.item[1]]
        BY <1>6, <3>1, <3>3
      <4>2. QED
        BY <3>1, <4>1 DEF FromCall
    <3>4. QED
      BY <3>2, <3>3
  <2>3. QED
    BY <2>1, <2>2
<1>11. Registered' /\ AcknowledgedIsSaved'
  BY <1>1, <1>7 DEF NetInv, Registered, AcknowledgedIsSaved, testerVars
<1>12. QED
  BY <1>8, <1>9, <1>10, <1>11 DEF NetInv

LEMMA HandleStep ==
  ASSUME NetInv, NEW h \in handlers, Handle(h)
  PROVE  NetInv'
<1>1. /\ NetTypeOK /\ FromCall(h)
      /\ handlers' = handlers \ {h}
      /\ disk' = [disk EXCEPT ![h.at] = @ \cup {h.item}]
      /\ calls' = [c \in Client |->
           IF calls[c].at = "waiting" /\ Item(c) = h.item
             THEN [calls[c] EXCEPT !.at = "handled"] ELSE calls[c]]
      /\ UNCHANGED <<enabled, server, instance, phase, saved, acked>>
  BY DEF NetInv, Handle, testerVars
<1>2. /\ h.item \in Client \X (1 .. MaxCalls) /\ h.at \in Instance
      /\ disk \in [Instance -> SUBSET (Client \X (1 .. MaxCalls))]
  BY <1>1, HandlerType DEF NetTypeOK
<1>3. /\ disk' \in [Instance -> SUBSET (Client \X (1 .. MaxCalls))]
      /\ h.item \in disk'[h.at]
      /\ \A i \in Instance : disk[i] \subseteq disk'[i]
  BY <1>1, <1>2
<1>4. LastPersisted \subseteq LastPersisted'
  BY <1>1, <1>3 DEF LastPersisted, NetTypeOK
<1>5. ASSUME NEW c \in Client
      PROVE  /\ calls'[c] \in [at : Ats, n : 0 .. MaxCalls, to : 0 .. MaxInstances]
             /\ calls'[c].n = calls[c].n /\ calls'[c].to = calls[c].to
             /\ \/ calls'[c].at = calls[c].at
                \/ /\ calls[c].at = "waiting" /\ Item(c) = h.item
                   /\ calls'[c].at = "handled"
  <2>1. calls[c] \in [at : Ats, n : 0 .. MaxCalls, to : 0 .. MaxInstances]
    BY <1>1 DEF NetTypeOK, Ats
  <2>2. CASE calls[c].at = "waiting" /\ Item(c) = h.item
    <3>1. calls'[c] = [calls[c] EXCEPT !.at = "handled"] /\ "handled" \in Ats
      BY <1>1, <2>2 DEF Ats
    <3>2. QED
      BY <2>1, <2>2, <3>1
  <2>3. CASE ~(calls[c].at = "waiting" /\ Item(c) = h.item)
    <3>1. calls'[c] = calls[c]
      BY <1>1, <2>3
    <3>2. QED
      BY <2>1, <3>1
  <2>4. QED
    BY <2>2, <2>3
<1>6. NetTypeOK'
  <2>1. calls' \in [Client -> [at : Ats, n : 0 .. MaxCalls, to : 0 .. MaxInstances]]
    BY <1>1, <1>5
  <2>2. QED
    BY <1>1, <1>3, <2>1 DEF NetTypeOK, Ats
<1>7. ASSUME NEW c \in Client PROVE InFlight(c)'
  <2>1. InFlight(c) /\ Item(c)' = Item(c)
    BY <1>5 DEF NetInv, Item
  <2>2. CASE calls'[c].at = calls[c].at
    <3>1. calls[c].at = "handled" => Item(c) \in disk'[calls[c].to]
      <4>1. calls[c].to \in 1 .. instance => calls[c].to \in Instance
        BY <1>1, SMTT(60), Z3T(60) DEF NetTypeOK, Instance
      <4>2. QED
        BY <1>3, <2>1, <4>1 DEF InFlight
    <3>2. QED
      BY <1>1, <1>4, <1>5, <2>1, <2>2, <3>1 DEF InFlight
  <2>3. CASE calls[c].at = "waiting" /\ Item(c) = h.item /\ calls'[c].at = "handled"
    <3>1. h.item[1] = c /\ h.item[2] = calls[c].n
      BY <2>3, SMTT(60), Z3T(60) DEF Item
    <3>2. h.at = calls[c].to
      BY <1>1, <2>3, <3>1 DEF FromCall
    <3>3. QED
      BY <1>1, <1>3, <1>5, <2>1, <2>3, <3>2 DEF InFlight
  <2>4. QED
    BY <1>5, <2>2, <2>3
<1>8. ASSUME NEW g \in handlers' PROVE FromCall(g)'
  <2>1. g \in handlers /\ FromCall(g) /\ g.item[1] \in Client
    BY <1>1, HandlerType DEF NetInv
  <2>2. QED
    BY <1>1, <1>5, <2>1 DEF FromCall
<1>9. Registered' /\ AcknowledgedIsSaved'
  BY <1>1, <1>4 DEF NetInv, Registered, AcknowledgedIsSaved
<1>10. QED
  BY <1>6, <1>7, <1>8, <1>9 DEF NetInv

\* Steps that leave the calls alone, and the disks of the instances there are.
LEMMA CallsKept ==
  ASSUME NetInv, UNCHANGED <<calls, handlers, acked>>, NetTypeOK', Registered',
         LastPersisted' = LastPersisted, instance' >= instance,
         \A i \in 1 .. instance : disk'[i] = disk[i]
  PROVE  NetInv'
<1>1. instance \in Nat /\ instance' \in Nat
  BY SMTT(60), Z3T(60) DEF NetInv, NetTypeOK, Instance
<1>2. \A i : i \in 1 .. instance => i \in 1 .. instance'
  BY <1>1, SMTT(60), Z3T(60)
<1>3. ASSUME NEW c \in Client PROVE InFlight(c)'
  <2>1. InFlight(c) /\ Item(c)' = Item(c)
    BY DEF NetInv, Item
  <2>2. QED
    BY <1>2, <2>1 DEF InFlight
<1>4. ASSUME NEW h \in handlers' PROVE FromCall(h)'
  BY <1>2 DEF NetInv, FromCall
<1>5. AcknowledgedIsSaved'
  BY DEF NetInv, AcknowledgedIsSaved
<1>6. QED
  BY <1>3, <1>4, <1>5 DEF NetInv

LEMMA StartServerStep ==
  ASSUME NetInv, StartServer
  PROVE  NetInv'
<1>1. /\ NetTypeOK /\ phase = "down" /\ instance < MaxInstances
      /\ instance' = instance + 1 /\ phase' = "starting"
      /\ disk' = [disk EXCEPT ![instance + 1] = saved]
      /\ UNCHANGED <<enabled, server, calls, handlers, saved, acked>>
  BY DEF NetInv, StartServer, netVars
<1>2. /\ instance' \in Instance /\ instance' >= instance
      /\ 1 .. instance \subseteq Instance /\ instance' \notin 1 .. instance
  BY <1>1, LabRPCAssumption, SMTT(60), Z3T(60) DEF NetTypeOK, Instance
<1>3. disk' \in [Instance -> SUBSET (Client \X (1 .. MaxCalls))] /\ disk'[instance'] = saved
  BY <1>1, <1>2 DEF NetTypeOK
<1>4. \A i \in 1 .. instance : disk'[i] = disk[i]
  <2>1. DOMAIN disk = Instance /\ disk' = [disk EXCEPT ![instance'] = saved]
    BY <1>1 DEF NetTypeOK
  <2>2. QED
    BY <1>2, <2>1
<1>5. LastPersisted' = LastPersisted
  BY <1>1, <1>3 DEF LastPersisted
<1>6. NetTypeOK'
  BY <1>1, <1>2, <1>3 DEF NetTypeOK
<1>7. Registered'
  BY <1>1 DEF NetInv, Registered
<1>8. QED
  BY <1>1, <1>2, <1>4, <1>5, <1>6, <1>7, CallsKept

\* The other steps of the tester, and the ends that it enables and disables.
LEMMA TesterStep ==
  ASSUME NetInv,
         \/ \E c \in Client, yes \in BOOLEAN : Enable(c, yes)
         \/ DeleteServer \/ shutdownServer \/ AddServer
  PROVE  NetInv'
<1>1. /\ NetTypeOK /\ instance \in Nat
      /\ UNCHANGED <<calls, handlers, acked, instance, disk>>
  BY SMTT(60), Z3T(60) DEF NetInv, Enable, DeleteServer, shutdownServer, AddServer, netVars, testerVars,
             NetTypeOK, Instance
<1>2. LastPersisted' = LastPersisted
  BY <1>1 DEF LastPersisted, Enable, DeleteServer, shutdownServer, AddServer, testerVars
<1>3. Registered'
  BY <1>1 DEF NetInv, Registered, Enable, DeleteServer, shutdownServer, AddServer,
              netVars, testerVars
<1>4. NetTypeOK'
  <2>1. CASE \E c \in Client, yes \in BOOLEAN : Enable(c, yes)
    BY <1>1, <2>1 DEF Enable, NetTypeOK, testerVars
  <2>2. CASE DeleteServer
    BY <1>1, <2>2, LabRPCAssumption, SMTT(60), Z3T(60) DEF DeleteServer, NetTypeOK
  <2>3. CASE shutdownServer
    BY <1>1, <2>3 DEF shutdownServer, NetTypeOK, netVars
  <2>4. CASE AddServer
    <3>1. server' = instance /\ instance \in 0 .. MaxInstances
      BY <1>1, <2>4, LabRPCAssumption, SMTT(60), Z3T(60) DEF AddServer, NetTypeOK, Instance
    <3>2. QED
      BY <1>1, <2>4, <3>1 DEF AddServer, NetTypeOK
  <2>5. QED
    BY <2>1, <2>2, <2>3, <2>4
<1>5. instance' >= instance
  BY <1>1, SMTT(60), Z3T(60)
<1>6. QED
  BY <1>1, <1>2, <1>3, <1>4, <1>5, CallsKept

-----------------------------------------------------------------------------
\* Every step of the network, the handlers and the tester keeps the invariant.
LEMMA NextKeeps == NetInv /\ [NetNext]_labVars => NetInv'
<1> SUFFICES ASSUME NetInv, [NetNext]_labVars PROVE NetInv'
  OBVIOUS
<1>1. ASSUME NEW c \in Client, ClientCall(c) PROVE NetInv'
  BY <1>1, CallStep
<1>2. ASSUME NEW c \in Client, Unsent(c) \/ ServerDead(c) \/ ReplyDropped(c) PROVE NetInv'
  <2>1. /\ MovesTo(c, "none") /\ acked' \subseteq acked \cup LastPersisted
        /\ UNCHANGED <<enabled, server, handlers, testerVars, disk>>
    BY <1>2 DEF Unsent, ServerDead, ReplyDropped
  <2>2. QED
    BY <2>1, MovesOn
<1>3. ASSUME NEW c \in Client, Dispatch(c) PROVE NetInv'
  BY <1>3, DispatchStep
<1>4. ASSUME NEW c \in Client, ServerAlive(c) PROVE NetInv'
  <2>1. /\ calls[c].at = "handled" /\ server = calls[c].to
        /\ MovesTo(c, "replying") /\ acked' \subseteq acked \cup LastPersisted
        /\ UNCHANGED <<enabled, server, handlers, testerVars, disk>>
    BY <1>4 DEF ServerAlive, isServerDead
  <2>2. Item(c) \in disk[server] /\ server \in 1 .. instance
    BY <2>1 DEF NetInv, InFlight
  <2>3. phase = "up" /\ server = instance
    <3>1. server # 0
      BY <2>2, SMTT(60), Z3T(60)
    <3>2. QED
      BY <3>1 DEF NetInv, Registered
  <2>4. Item(c) \in LastPersisted
    BY <2>2, <2>3 DEF LastPersisted
  <2>5. QED
    BY <2>1, <2>4, MovesOn
<1>5. ASSUME NEW c \in Client, DeliverReply(c) PROVE NetInv'
  <2>1. /\ calls[c].at = "replying" /\ MovesTo(c, "none") /\ acked' = acked \cup {Item(c)}
        /\ UNCHANGED <<enabled, server, handlers, testerVars, disk>>
    BY <1>5 DEF DeliverReply
  <2>2. Item(c) \in LastPersisted
    BY <2>1 DEF NetInv, InFlight
  <2>3. QED
    BY <2>1, <2>2, MovesOn
<1>6. ASSUME NEW h \in handlers, Handle(h) PROVE NetInv'
  BY <1>6, HandleStep
<1>7. CASE StartServer
  BY <1>7, StartServerStep
<1>8. CASE \/ \E c \in Client, yes \in BOOLEAN : Enable(c, yes)
           \/ DeleteServer \/ shutdownServer \/ AddServer
  BY <1>8, TesterStep
<1>9. CASE UNCHANGED labVars
  <2>1. UNCHANGED <<enabled, server, calls, handlers, instance, phase, saved, disk, acked>>
    BY <1>9 DEF labVars, netVars, testerVars
  <2>2. LastPersisted' = LastPersisted /\ NetTypeOK' /\ Registered'
    BY <2>1 DEF NetInv, LastPersisted, NetTypeOK, Registered
  <2>3. instance' >= instance
    BY <2>1, SMTT(60), Z3T(60) DEF NetInv, NetTypeOK, Instance
  <2>4. QED
    BY <2>1, <2>2, <2>3, CallsKept
<1>10. QED
  BY <1>1, <1>2, <1>3, <1>4, <1>5, <1>6, <1>7, <1>8, <1>9 DEF NetNext, Progress

\* The variables of the network and the tester keep their types: the name is
\* registered only for instances there are, and calls are sent only to those.
THEOREM NetworkTypes == NetSpec => []NetTypeOK
<1>1. NetInv => NetTypeOK
  BY DEF NetInv
<1>2. QED
  BY InitNetInv, NextKeeps, <1>1, PTL DEF NetSpec

\* What a Call() that returned true asked to save is in the Persister of the
\* present instance, or in the copy that the next one starts from.
THEOREM AcknowledgedSurvives == NetSpec => []AcknowledgedIsSaved
<1>1. NetInv => AcknowledgedIsSaved
  BY DEF NetInv
<1>2. QED
  BY InitNetInv, NextKeeps, <1>1, PTL DEF NetSpec

-----------------------------------------------------------------------------
(***************************************************************************)
(* For any number of workers, map tasks and reduce tasks: the types, that  *)
(* a reduce task never misses an input, and that a finished job has all    *)
(* its output.                                                             *)
(*                                                                         *)
(* A task that is completed stays completed, and it is completed only when *)
(* its files have their names.  What a worker does after that, late or     *)
(* twice, only adds files that are there or writes an output again from    *)
(* the same, complete, input.                                              *)
(***************************************************************************)

StepNumbers == 0 .. IF NMap > nReduce THEN NMap ELSE nReduce

WorkerState ==
  [pc : {"ask", "wait", "map", "reduce", "report"} \cup Gone,
   type : {"none", "MapTask", "ReduceTask"}, ID : Maps \cup Reduces,
   next : StepNumbers, got : SUBSET Maps]

\* The task of a worker fits the place it is at.
PlacedWell(r) ==
  /\ r.pc = "map" => r.type = "MapTask" /\ r.ID \in Maps /\ r.next < nReduce
  /\ r.pc = "reduce" => r.type = "ReduceTask" /\ r.ID \in Reduces /\ r.next <= NMap
  /\ r.type = "MapTask" => r.ID \in Maps
  /\ r.type = "ReduceTask" => r.ID \in Reduces

\* The files that a worker has written or read so far, in terms of the
\* intermediate files and the output.
Written(r, I, O) ==
  /\ r.pc = "map" => {r.ID} \X (0 .. r.next - 1) \subseteq I
  /\ (r.pc = "report" /\ r.type = "MapTask") => {r.ID} \X Reduces \subseteq I
  /\ r.pc = "reduce" => r.got = 0 .. r.next - 1
  /\ (r.pc = "report" /\ r.type = "ReduceTask") => O[r.ID] = Maps

\* What is completed is there.
Kept ==
  /\ \A i \in Maps : mapTasks[i] = "Completed" => {i} \X Reduces \subseteq inter
  /\ \A i \in Reduces : reduceTasks[i] = "Completed" => out[i] = Maps

Phases ==
  /\ mapdone => \A i \in Maps : mapTasks[i] = "Completed"
  /\ reducedone => \A i \in Reduces : reduceTasks[i] = "Completed"

JobInv ==
  /\ JobTypeOK
  /\ Phases
  /\ \A w \in Worker : PlacedWell(worker[w]) /\ (worker[w].pc = "reduce" => mapdone)
  /\ ~damaged => Kept /\ \A w \in Worker : Written(worker[w], inter, out)

-----------------------------------------------------------------------------
(***************************************************************************)
(* A worker's step.                                                        *)
(***************************************************************************)
LEMMA WorkerTypes ==
  ASSUME JobInv, NEW w \in Worker
  PROVE  /\ worker \in [Worker -> WorkerState] /\ worker[w] \in WorkerState
         /\ worker[w].ID \in Maps \cup Reduces /\ worker[w].next \in StepNumbers
         /\ worker[w].got \in SUBSET Maps /\ PlacedWell(worker[w])
         /\ worker[w].pc = "reduce" => mapdone
<1>1. worker \in [Worker -> WorkerState] /\ worker[w] \in WorkerState
  BY DEF JobInv, JobTypeOK, WorkerState, StepNumbers
<1>2. QED
  BY <1>1 DEF JobInv, WorkerState

LEMMA PlaceType ==
  ASSUME NEW at \in {"ask", "wait", "map", "reduce", "report"} \cup Gone,
         NEW type \in {"none", "MapTask", "ReduceTask"}, NEW id \in Maps \cup Reduces
  PROVE  /\ Place(at, type, id) \in WorkerState
         /\ Place(at, type, id).pc = at /\ Place(at, type, id).type = type
         /\ Place(at, type, id).ID = id /\ Place(at, type, id).next = 0 /\ Place(at, type, id).got = {}
<1>1. 0 \in StepNumbers
  BY MRAssumption DEF StepNumbers
<1>2. QED
  BY <1>1 DEF Place, WorkerState

LEMMA AskingType ==
  /\ Asking \in WorkerState /\ Asking.pc = "ask" /\ Asking.type = "none"
<1>1. 0 \in Maps
  BY MRAssumption DEF Maps
<1>2. QED
  BY <1>1, PlaceType DEF Asking

\* As long as every file is written, files are added and outputs that are complete
\* stay complete; damage is remembered for good.
FilesGrow ==
  /\ ~damaged' => inter \subseteq inter'
  /\ ~damaged' => \A i \in Reduces : out[i] = Maps => out'[i] = Maps
  /\ damaged => damaged'

LEMMA WrittenStays ==
  ASSUME NEW r, PlacedWell(r), FilesGrow, ~damaged', Written(r, inter, out)
  PROVE  Written(r, inter', out')
BY DEF FilesGrow, Written, PlacedWell

\* A step that replaces the state of worker w by r, seen from the others.
LEMMA WorkerSteps ==
  ASSUME JobInv, NEW w \in Worker, NEW r \in WorkerState, worker' = [worker EXCEPT ![w] = r],
         FilesGrow, mapdone => mapdone',
         mapTasks' \in [Maps -> Statu], reduceTasks' \in [Reduces -> Statu],
         {mapdone', reducedone', coordinator', damaged'} \subseteq BOOLEAN,
         inter' \subseteq Maps \X Reduces, out' \in [Reduces -> SUBSET Maps],
         Phases', ~damaged' => Kept',
         PlacedWell(r), r.pc = "reduce" => mapdone',
         ~damaged' => Written(r, inter', out')
  PROVE  JobInv'
<1>1. worker \in [Worker -> WorkerState]
  BY WorkerTypes
<1>2. /\ worker' \in [Worker -> WorkerState] /\ worker'[w] = r
      /\ \A v \in Worker \ {w} : worker'[v] = worker[v]
  BY <1>1
<1>3. JobTypeOK'
  BY <1>2 DEF JobTypeOK, WorkerState, StepNumbers
<1>4. ASSUME NEW v \in Worker
      PROVE  PlacedWell(worker'[v]) /\ (worker'[v].pc = "reduce" => mapdone')
  <2>1. CASE v = w
    BY <1>2, <2>1
  <2>2. CASE v # w
    BY <1>2, <2>2 DEF JobInv
  <2>3. QED
    BY <2>1, <2>2
<1>5. ASSUME ~damaged', NEW v \in Worker
      PROVE  Written(worker'[v], inter', out')
  <2>1. CASE v = w
    BY <1>2, <1>5, <2>1
  <2>2. CASE v # w
    <3>1. ~damaged
      BY <1>5 DEF FilesGrow
    <3>2. PlacedWell(worker[v]) /\ Written(worker[v], inter, out)
      BY <3>1 DEF JobInv
    <3>3. QED
      BY <1>2, <1>5, <2>2, <3>2, WrittenStays
  <2>3. QED
    BY <2>1, <2>2
<1>6. QED
  BY <1>3, <1>4, <1>5 DEF JobInv, PlacedWell, Written

\* A step of worker w that leaves the coordinator and the files alone.
LEMMA WorkerOnly ==
  ASSUME JobInv, NEW w \in Worker, NEW r \in WorkerState, worker' = [worker EXCEPT ![w] = r],
         UNCHANGED <<coordVars, files>>,
         PlacedWell(r), r.pc = "reduce" => mapdone, ~damaged => Written(r, inter, out)
  PROVE  JobInv'
<1>1. /\ mapTasks' = mapTasks /\ reduceTasks' = reduceTasks /\ mapdone' = mapdone
      /\ reducedone' = reducedone /\ coordinator' = coordinator
      /\ inter' = inter /\ out' = out /\ damaged' = damaged
  BY DEF coordVars, files
<1>2. Phases' /\ (~damaged' => Kept') /\ FilesGrow
  BY <1>1 DEF JobInv, Phases, Kept, FilesGrow
<1>3. /\ mapTasks' \in [Maps -> Statu] /\ reduceTasks' \in [Reduces -> Statu]
      /\ {mapdone', reducedone', coordinator', damaged'} \subseteq BOOLEAN
      /\ inter' \subseteq Maps \X Reduces /\ out' \in [Reduces -> SUBSET Maps]
  BY <1>1 DEF JobInv, JobTypeOK
<1>4. QED
  BY <1>1, <1>2, <1>3, WorkerSteps

\* The worker goes back to asking.
LEMMA AskAgain ==
  ASSUME JobInv, NEW w \in Worker, worker' = [worker EXCEPT ![w] = Asking],
         UNCHANGED <<coordVars, files>>
  PROVE  JobInv'
<1>1. PlacedWell(Asking) /\ Written(Asking, inter, out) /\ Asking.pc # "reduce"
  BY AskingType DEF PlacedWell, Written
<1>2. QED
  BY <1>1, AskingType, WorkerOnly

\* The worker waits or is gone.
LEMMA LeavesWork ==
  ASSUME JobInv, NEW w \in Worker, NEW p \in {"wait"} \cup Gone, Proceed(w, p),
         UNCHANGED <<coordVars, files>>
  PROVE  JobInv'
<1> DEFINE r == [worker[w] EXCEPT !.pc = p]
<1>1. worker[w] \in WorkerState /\ PlacedWell(worker[w])
  BY WorkerTypes
<1>2. /\ r \in WorkerState /\ r.pc = p /\ r.type = worker[w].type /\ r.ID = worker[w].ID
  BY <1>1 DEF WorkerState
<1>3. worker' = [worker EXCEPT ![w] = r]
  BY DEF Proceed
<1>4. p \notin {"map", "reduce", "report"}
  BY DEF Gone
<1> HIDE DEF r
<1>5. PlacedWell(r) /\ Written(r, inter, out) /\ r.pc # "reduce"
  BY <1>1, <1>2, <1>4 DEF PlacedWell, Written
<1>6. QED
  BY <1>2, <1>3, <1>5, WorkerOnly

\* A reduce worker reads one more file, which is there.
LEMMA ReduceReads ==
  ASSUME JobInv, NEW w \in Worker, ReduceRead(w)
  PROVE  JobInv'
<1> DEFINE i == worker[w].next
           got == IF <<i, worker[w].ID>> \in inter THEN worker[w].got \cup {i} ELSE worker[w].got
           r == [worker[w] EXCEPT !.next = i + 1, !.got = got]
<1>1. /\ worker[w] \in WorkerState /\ PlacedWell(worker[w]) /\ i \in StepNumbers
      /\ worker[w].got \in SUBSET Maps /\ worker[w].pc = "reduce" /\ i < NMap /\ mapdone
      /\ UNCHANGED <<coordVars, files>>
  BY WorkerTypes DEF ReduceRead
<1>2. i \in Maps /\ i + 1 \in StepNumbers /\ i \in Nat /\ i + 1 <= NMap
  BY <1>1, MRAssumption DEF StepNumbers, Maps
<1>3. worker' = [worker EXCEPT ![w] = r]
  BY DEF ReduceRead
<1>4. got \in SUBSET Maps
  BY <1>1, <1>2
<1> HIDE DEF got
<1>5. /\ r \in WorkerState /\ r.pc = "reduce" /\ r.type = worker[w].type
      /\ r.ID = worker[w].ID /\ r.next = i + 1 /\ r.got = got
  BY <1>1, <1>2, <1>4 DEF WorkerState
<1> HIDE DEF r
<1>6. PlacedWell(r)
  BY <1>1, <1>2, <1>5 DEF PlacedWell
<1>7. ~damaged => Written(r, inter, out)
  <2> SUFFICES ASSUME ~damaged PROVE Written(r, inter, out)
    OBVIOUS
  <2>1. Written(worker[w], inter, out) /\ mapTasks[i] = "Completed" /\ Kept
    BY <1>1, <1>2 DEF JobInv, Phases
  <2>2. worker[w].ID \in Reduces
    BY <1>1 DEF PlacedWell
  <2>3. <<i, worker[w].ID>> \in inter
    BY <1>2, <2>1, <2>2 DEF Kept
  <2>4. got = worker[w].got \cup {i} /\ worker[w].got = 0 .. i - 1
    BY <1>1, <2>1, <2>3 DEF got, Written
  <2>5. got = 0 .. (i + 1) - 1
    BY <1>2, <2>4
  <2>6. QED
    BY <1>5, <2>5 DEF Written
<1>8. QED
  BY <1>1, <1>3, <1>5, <1>6, <1>7, WorkerOnly

LEMMA MapAssigned ==
  ASSUME JobInv, NEW w \in Worker, NEW i \in Maps, AssignMap(w, i)
  PROVE  JobInv'
<1> DEFINE r == Place("map", "MapTask", i)
<1>1. /\ r \in WorkerState /\ r.pc = "map" /\ r.type = "MapTask" /\ r.ID = i /\ r.next = 0
  BY PlaceType
<1>2. /\ worker' = [worker EXCEPT ![w] = r] /\ ~mapdone
      /\ mapTasks' = [mapTasks EXCEPT ![i] = "Inprogress"]
      /\ reduceTasks' = reduceTasks /\ mapdone' = mapdone /\ reducedone' = reducedone
      /\ coordinator' = coordinator /\ inter' = inter /\ out' = out /\ damaged' = damaged
  BY DEF AssignMap, files
<1> HIDE DEF r
<1>3. JobTypeOK
  BY DEF JobInv
<1>4. mapTasks \in [Maps -> Statu]
  BY <1>3 DEF JobTypeOK
<1>5. /\ mapTasks' \in [Maps -> Statu]
      /\ \A j \in Maps : mapTasks'[j] = "Completed" => mapTasks[j] = "Completed"
  BY <1>2, <1>4 DEF Statu
<1>6. /\ reduceTasks' \in [Reduces -> Statu]
      /\ {mapdone', reducedone', coordinator', damaged'} \subseteq BOOLEAN
      /\ inter' \subseteq Maps \X Reduces /\ out' \in [Reduces -> SUBSET Maps]
  BY <1>2, <1>3 DEF JobTypeOK
<1>7. Phases' /\ (~damaged' => Kept') /\ FilesGrow
  BY <1>2, <1>5 DEF JobInv, Phases, Kept, FilesGrow
<1>8. PlacedWell(r)
  BY <1>1, MRAssumption DEF PlacedWell
<1>9. Written(r, inter', out')
  <2>1. 0 .. r.next - 1 = {}
    BY <1>1
  <2>2. QED
    BY <1>1, <2>1 DEF Written
<1>10. QED
  BY <1>1, <1>2, <1>5, <1>6, <1>7, <1>8, <1>9, WorkerSteps

LEMMA ReduceAssigned ==
  ASSUME JobInv, NEW w \in Worker, NEW i \in Reduces, AssignReduce(w, i)
  PROVE  JobInv'
<1> DEFINE r == Place("reduce", "ReduceTask", i)
<1>1. /\ r \in WorkerState /\ r.pc = "reduce" /\ r.type = "ReduceTask" /\ r.ID = i
      /\ r.next = 0 /\ r.got = {}
  BY PlaceType
<1>2. /\ worker' = [worker EXCEPT ![w] = r] /\ mapdone /\ ~reducedone
      /\ reduceTasks' = [reduceTasks EXCEPT ![i] = "Inprogress"]
      /\ mapTasks' = mapTasks /\ mapdone' = mapdone /\ reducedone' = reducedone
      /\ coordinator' = coordinator /\ inter' = inter /\ out' = out /\ damaged' = damaged
  BY DEF AssignReduce, files
<1> HIDE DEF r
<1>3. JobTypeOK
  BY DEF JobInv
<1>4. reduceTasks \in [Reduces -> Statu]
  BY <1>3 DEF JobTypeOK
<1>5. /\ reduceTasks' \in [Reduces -> Statu]
      /\ \A j \in Reduces : reduceTasks'[j] = "Completed" => reduceTasks[j] = "Completed"
  BY <1>2, <1>4 DEF Statu
<1>6. /\ mapTasks' \in [Maps -> Statu]
      /\ {mapdone', reducedone', coordinator', damaged'} \subseteq BOOLEAN
      /\ inter' \subseteq Maps \X Reduces /\ out' \in [Reduces -> SUBSET Maps]
  BY <1>2, <1>3 DEF JobTypeOK
<1>7. Phases' /\ (~damaged' => Kept') /\ FilesGrow
  BY <1>2, <1>5 DEF JobInv, Phases, Kept, FilesGrow
<1>8. PlacedWell(r)
  BY <1>1, MRAssumption DEF PlacedWell
<1>9. Written(r, inter', out')
  <2>1. 0 .. r.next - 1 = {}
    BY <1>1
  <2>2. QED
    BY <1>1, <2>1 DEF Written
<1>10. QED
  BY <1>1, <1>2, <1>5, <1>6, <1>7, <1>8, <1>9, WorkerSteps

LEMMA MapReported ==
  ASSUME JobInv, NEW w \in Worker, MarkMapDone(w)
  PROVE  JobInv'
<1> DEFINE i == worker[w].ID
<1>1. /\ worker' = [worker EXCEPT ![w] = Asking] /\ worker[w].pc = "report"
      /\ worker[w].type = "MapTask"
      /\ mapTasks' = [mapTasks EXCEPT ![i] = "Completed"]
      /\ mapdone' = (mapdone \/ AllCompleted(mapTasks'))
      /\ reduceTasks' = reduceTasks /\ reducedone' = reducedone
      /\ coordinator' = coordinator /\ inter' = inter /\ out' = out /\ damaged' = damaged
  BY DEF MarkMapDone, files
<1>2. JobTypeOK /\ Phases /\ PlacedWell(worker[w])
  BY DEF JobInv
<1>3. i \in Maps /\ mapTasks \in [Maps -> Statu]
  BY <1>1, <1>2 DEF JobTypeOK, PlacedWell
<1> HIDE DEF i
<1>4. /\ mapTasks' \in [Maps -> Statu] /\ mapTasks'[i] = "Completed"
      /\ \A j \in Maps \ {i} : mapTasks'[j] = mapTasks[j]
  BY <1>1, <1>3 DEF Statu
<1>5. mapdone' \in BOOLEAN /\ (mapdone => mapdone')
      /\ (mapdone' => \A j \in Maps : mapTasks'[j] = "Completed")
  <2>1. mapdone \in BOOLEAN /\ (mapdone => \A j \in Maps : mapTasks[j] = "Completed")
    BY <1>2 DEF JobTypeOK, Phases
  <2>2. AllCompleted(mapTasks') => \A j \in Maps : mapTasks'[j] = "Completed"
    BY <1>4 DEF AllCompleted
  <2>3. AllCompleted(mapTasks') \in BOOLEAN
    BY DEF AllCompleted
  <2>4. QED
    BY <1>1, <1>4, <2>1, <2>2, <2>3
<1>6. /\ reduceTasks' \in [Reduces -> Statu]
      /\ {mapdone', reducedone', coordinator', damaged'} \subseteq BOOLEAN
      /\ inter' \subseteq Maps \X Reduces /\ out' \in [Reduces -> SUBSET Maps]
  BY <1>1, <1>2, <1>5 DEF JobTypeOK
<1>7. Phases' /\ FilesGrow
  BY <1>1, <1>2, <1>5 DEF Phases, FilesGrow
<1>8. ASSUME ~damaged' PROVE Kept'
  <2>1. Kept /\ Written(worker[w], inter, out)
    BY <1>1, <1>8 DEF JobInv
  <2>2. {i} \X Reduces \subseteq inter
    BY <1>1, <2>1 DEF Written, i
  <2>3. ASSUME NEW j \in Maps, mapTasks'[j] = "Completed" PROVE {j} \X Reduces \subseteq inter
    BY <1>4, <2>1, <2>2, <2>3 DEF Kept
  <2>4. QED
    BY <1>1, <2>1, <2>3 DEF Kept
<1>9. PlacedWell(Asking) /\ Written(Asking, inter', out') /\ Asking.pc # "reduce"
  BY AskingType DEF PlacedWell, Written
<1>10. QED
  BY <1>1, <1>4, <1>5, <1>6, <1>7, <1>8, <1>9, AskingType, WorkerSteps

LEMMA ReduceReported ==
  ASSUME JobInv, NEW w \in Worker, MarkReduceDone(w)
  PROVE  JobInv'
<1> DEFINE i == worker[w].ID
<1>1. /\ worker' = [worker EXCEPT ![w] = Asking] /\ worker[w].pc = "report"
      /\ worker[w].type = "ReduceTask"
      /\ reduceTasks' = [reduceTasks EXCEPT ![i] = "Completed"]
      /\ reducedone' = (reducedone \/ AllCompleted(reduceTasks'))
      /\ mapTasks' = mapTasks /\ mapdone' = mapdone
      /\ coordinator' = coordinator /\ inter' = inter /\ out' = out /\ damaged' = damaged
  BY DEF MarkReduceDone, files
<1>2. JobTypeOK /\ Phases /\ PlacedWell(worker[w])
  BY DEF JobInv
<1>3. i \in Reduces /\ reduceTasks \in [Reduces -> Statu]
  BY <1>1, <1>2 DEF JobTypeOK, PlacedWell
<1> HIDE DEF i
<1>4. /\ reduceTasks' \in [Reduces -> Statu] /\ reduceTasks'[i] = "Completed"
      /\ \A j \in Reduces \ {i} : reduceTasks'[j] = reduceTasks[j]
  BY <1>1, <1>3 DEF Statu
<1>5. reducedone' \in BOOLEAN
      /\ (reducedone' => \A j \in Reduces : reduceTasks'[j] = "Completed")
  <2>1. reducedone \in BOOLEAN /\ (reducedone => \A j \in Reduces : reduceTasks[j] = "Completed")
    BY <1>2 DEF JobTypeOK, Phases
  <2>2. AllCompleted(reduceTasks') => \A j \in Reduces : reduceTasks'[j] = "Completed"
    BY <1>4 DEF AllCompleted
  <2>3. AllCompleted(reduceTasks') \in BOOLEAN
    BY DEF AllCompleted
  <2>4. QED
    BY <1>1, <1>4, <2>1, <2>2, <2>3
<1>6. /\ mapTasks' \in [Maps -> Statu]
      /\ {mapdone', reducedone', coordinator', damaged'} \subseteq BOOLEAN
      /\ inter' \subseteq Maps \X Reduces /\ out' \in [Reduces -> SUBSET Maps]
  BY <1>1, <1>2, <1>5 DEF JobTypeOK
<1>7. Phases' /\ FilesGrow
  BY <1>1, <1>2, <1>5 DEF Phases, FilesGrow
<1>8. ASSUME ~damaged' PROVE Kept'
  <2>1. Kept /\ Written(worker[w], inter, out)
    BY <1>1, <1>8 DEF JobInv
  <2>2. out[i] = Maps
    BY <1>1, <2>1 DEF Written, i
  <2>3. ASSUME NEW j \in Reduces, reduceTasks'[j] = "Completed" PROVE out[j] = Maps
    BY <1>4, <2>1, <2>2, <2>3 DEF Kept
  <2>4. QED
    BY <1>1, <2>1, <2>3 DEF Kept
<1>9. PlacedWell(Asking) /\ Written(Asking, inter', out') /\ Asking.pc # "reduce"
  BY AskingType DEF PlacedWell, Written
<1>10. QED
  BY <1>1, <1>4, <1>5, <1>6, <1>7, <1>8, <1>9, AskingType, WorkerSteps

\* A map worker writes one more file, or fails to give it its name.
LEMMA MapWrites ==
  ASSUME JobInv, NEW w \in Worker, MapWrite(w)
  PROVE  JobInv'
<1> DEFINE i == worker[w].next
           m == worker[w].ID
           at == IF i + 1 = nReduce THEN "report" ELSE "map"
           r == [worker[w] EXCEPT !.next = i + 1, !.pc = at]
<1>1. /\ worker[w] \in WorkerState /\ PlacedWell(worker[w]) /\ i \in StepNumbers /\ worker[w].pc = "map"
      /\ mapTasks' = mapTasks /\ reduceTasks' = reduceTasks /\ mapdone' = mapdone
      /\ reducedone' = reducedone /\ coordinator' = coordinator /\ out' = out
  BY WorkerTypes DEF MapWrite, coordVars
<1>2. \/ inter' = inter \cup {<<m, i>>} /\ damaged' = damaged
      \/ damaged' = TRUE /\ inter' \subseteq inter
  BY DEF MapWrite
<1>3. /\ worker[w].type = "MapTask" /\ m \in Maps /\ i < nReduce
  BY <1>1 DEF PlacedWell
<1>4. i \in Reduces /\ i + 1 \in StepNumbers /\ i \in Nat /\ i + 1 <= nReduce
  BY <1>1, <1>3, MRAssumption DEF StepNumbers, Reduces
<1>5. worker' = [worker EXCEPT ![w] = r]
  BY DEF MapWrite
<1>6. at \in {"report", "map"} /\ (at = "map" => i + 1 < nReduce) /\ (at = "report" => i + 1 = nReduce)
  BY <1>4, MRAssumption
<1> HIDE DEF at
<1>7. /\ r \in WorkerState /\ r.pc = at /\ r.type = "MapTask" /\ r.ID = m /\ r.next = i + 1
  BY <1>1, <1>3, <1>4, <1>6 DEF WorkerState
<1> HIDE DEF r
<1>8. PlacedWell(r)
  BY <1>3, <1>6, <1>7 DEF PlacedWell
<1>9. JobTypeOK /\ Phases
  BY DEF JobInv
<1>10. /\ inter' \subseteq Maps \X Reduces /\ (~damaged' => inter \subseteq inter')
       /\ {mapdone', reducedone', coordinator', damaged'} \subseteq BOOLEAN
       /\ damaged => damaged'
  <2>1. inter \subseteq Maps \X Reduces /\ {mapdone, reducedone, coordinator, damaged} \subseteq BOOLEAN
    BY <1>9 DEF JobTypeOK
  <2>2. inter' \subseteq Maps \X Reduces /\ (~damaged' => inter \subseteq inter')
    BY <1>2, <1>3, <1>4, <2>1
  <2>3. damaged' \in BOOLEAN /\ (damaged => damaged')
    <3>1. CASE damaged' = damaged
      BY <2>1, <3>1
    <3>2. CASE damaged' = TRUE
      BY <3>2
    <3>3. QED
      BY <1>2, <3>1, <3>2
  <2>4. QED
    BY <1>1, <2>1, <2>2, <2>3
<1>11. Phases' /\ FilesGrow
  BY <1>1, <1>9, <1>10 DEF Phases, FilesGrow
<1>12. ASSUME ~damaged' PROVE Kept' /\ Written(r, inter', out')
  <2>1. inter' = inter \cup {<<m, i>>} /\ ~damaged
    BY <1>2, <1>12
  <2>2. Kept /\ Written(worker[w], inter, out)
    BY <2>1 DEF JobInv
  <2>3. {m} \X (0 .. i - 1) \subseteq inter
    BY <1>1, <2>2 DEF Written
  <2>4. {m} \X (0 .. (i + 1) - 1) \subseteq inter'
    <3>1. ASSUME NEW j \in 0 .. (i + 1) - 1 PROVE <<m, j>> \in inter'
      <4>1. j \in 0 .. i - 1 \/ j = i
        BY <1>4
      <4>2. QED
        BY <2>1, <2>3, <4>1
    <3>2. QED
      BY <3>1
  <2>5. at = "report" => {m} \X Reduces \subseteq inter'
    BY <1>4, <1>6, <2>4 DEF Reduces
  <2>6. Written(r, inter', out')
    BY <1>6, <1>7, <2>4, <2>5 DEF Written
  <2>7. Kept'
    BY <1>1, <1>10, <1>12, <2>2 DEF Kept
  <2>8. QED
    BY <2>6, <2>7
<1>13. mapTasks' \in [Maps -> Statu] /\ reduceTasks' \in [Reduces -> Statu]
       /\ out' \in [Reduces -> SUBSET Maps]
  BY <1>1, <1>9 DEF JobTypeOK
<1>14. QED
  BY <1>1, <1>5, <1>6, <1>7, <1>8, <1>10, <1>11, <1>12, <1>13, WorkerSteps

\* A reduce worker that has read all its input writes the output.
LEMMA ReduceWrites ==
  ASSUME JobInv, NEW w \in Worker, ReduceWrite(w)
  PROVE  JobInv'
<1> DEFINE i == worker[w].ID
           r == [worker[w] EXCEPT !.pc = "report"]
<1>1. /\ worker[w] \in WorkerState /\ PlacedWell(worker[w]) /\ worker[w].got \in SUBSET Maps
      /\ worker[w].pc = "reduce" /\ worker[w].next = NMap
      /\ mapTasks' = mapTasks /\ reduceTasks' = reduceTasks /\ mapdone' = mapdone
      /\ reducedone' = reducedone /\ coordinator' = coordinator /\ inter' = inter
  BY WorkerTypes DEF ReduceWrite, coordVars
<1>2. \/ out' = [out EXCEPT ![i] = worker[w].got] /\ damaged' = damaged
      \/ damaged' = TRUE /\ out' \in {out, [out EXCEPT ![i] = {}]}
  BY DEF ReduceWrite
<1>3. worker[w].type = "ReduceTask" /\ i \in Reduces
  BY <1>1 DEF PlacedWell
<1>4. worker' = [worker EXCEPT ![w] = r]
  BY DEF ReduceWrite, Proceed
<1>5. r \in WorkerState /\ r.pc = "report" /\ r.type = "ReduceTask" /\ r.ID = i
  BY <1>1, <1>3 DEF WorkerState
<1> HIDE DEF r
<1>6. PlacedWell(r)
  BY <1>3, <1>5 DEF PlacedWell
<1>7. JobTypeOK /\ Phases
  BY DEF JobInv
<1>8. out \in [Reduces -> SUBSET Maps]
  BY <1>7 DEF JobTypeOK
<1> HIDE DEF i
<1>9. out' \in [Reduces -> SUBSET Maps]
  BY <1>1, <1>2, <1>3, <1>8
<1>10. /\ {mapdone', reducedone', coordinator', damaged'} \subseteq BOOLEAN
       /\ damaged => damaged'
  <2>1. {mapdone, reducedone, coordinator, damaged} \subseteq BOOLEAN
    BY <1>7 DEF JobTypeOK
  <2>2. damaged' \in BOOLEAN /\ (damaged => damaged')
    <3>1. CASE damaged' = damaged
      BY <2>1, <3>1
    <3>2. CASE damaged' = TRUE
      BY <3>2
    <3>3. QED
      BY <1>2, <3>1, <3>2
  <2>3. QED
    BY <1>1, <2>1, <2>2
<1>11. ASSUME ~damaged'
       PROVE  /\ out'[i] = Maps /\ \A j \in Reduces \ {i} : out'[j] = out[j]
              /\ Kept
  <2>1. out' = [out EXCEPT ![i] = worker[w].got] /\ ~damaged
    BY <1>2, <1>11
  <2>2. Kept /\ Written(worker[w], inter, out)
    BY <2>1 DEF JobInv
  <2>3. worker[w].got = Maps
    BY <1>1, <2>2 DEF Written, Maps
  <2>4. QED
    BY <1>3, <1>8, <2>1, <2>2, <2>3
<1>12. ASSUME NEW j \in Reduces, out[j] = Maps PROVE out'[j] = Maps \/ damaged'
  BY <1>11, <1>12
<1>13. ASSUME ~damaged' PROVE JobInv'
  <2>1. FilesGrow
    BY <1>1, <1>10, <1>12, <1>13 DEF FilesGrow
  <2>2. Kept'
    BY <1>1, <1>11, <1>13 DEF Kept
  <2>3. Written(r, inter', out')
    BY <1>5, <1>11, <1>13 DEF Written
  <2>4. Phases'
    BY <1>1, <1>7 DEF Phases
  <2>5. mapTasks' \in [Maps -> Statu] /\ reduceTasks' \in [Reduces -> Statu]
        /\ inter' \subseteq Maps \X Reduces
    BY <1>1, <1>7 DEF JobTypeOK
  <2>6. QED
    BY <1>1, <1>4, <1>5, <1>6, <1>9, <1>10, <2>1, <2>2, <2>3, <2>4, <2>5, WorkerSteps
<1>14. ASSUME damaged' PROVE JobInv'
  <2>1. worker \in [Worker -> WorkerState]
    BY WorkerTypes
  <2>2. /\ worker' \in [Worker -> WorkerState] /\ worker'[w] = r
        /\ \A v \in Worker \ {w} : worker'[v] = worker[v]
    BY <1>4, <1>5, <2>1
  <2>3. JobTypeOK'
    BY <1>1, <1>7, <1>9, <1>10, <2>2 DEF JobTypeOK, WorkerState, StepNumbers
  <2>4. Phases'
    BY <1>1, <1>7 DEF Phases
  <2>5. \A v \in Worker : PlacedWell(worker'[v]) /\ (worker'[v].pc = "reduce" => mapdone')
    BY <1>1, <1>5, <1>6, <2>2 DEF JobInv
  <2>6. QED
    BY <1>14, <2>3, <2>4, <2>5 DEF JobInv, PlacedWell
<1>15. QED
  BY <1>13, <1>14

-----------------------------------------------------------------------------
(***************************************************************************)
(* The coordinator by itself.                                              *)
(***************************************************************************)
LEMMA ClockTicks ==
  ASSUME JobInv, Clock
  PROVE  JobInv'
<1>1. /\ mapdone' = mapdone /\ reducedone' = reducedone /\ coordinator' = coordinator
      /\ worker' = worker /\ inter' = inter /\ out' = out /\ damaged' = damaged
  BY DEF Clock, files
<1>2. JobTypeOK /\ Phases
  BY DEF JobInv
<1>3. /\ mapTasks' \in [Maps -> Statu] /\ reduceTasks' \in [Reduces -> Statu]
      /\ \A j \in Maps : mapTasks'[j] = "Completed" <=> mapTasks[j] = "Completed"
      /\ \A j \in Reduces : reduceTasks'[j] = "Completed" <=> reduceTasks[j] = "Completed"
  <2>1. mapTasks \in [Maps -> Statu] /\ reduceTasks \in [Reduces -> Statu]
    BY <1>2 DEF JobTypeOK
  <2>2. CASE \E i \in Maps : /\ mapTasks[i] = "Inprogress"
                             /\ mapTasks' = [mapTasks EXCEPT ![i] = "late"]
                             /\ UNCHANGED reduceTasks
    BY <2>1, <2>2 DEF Statu
  <2>3. CASE \E i \in Reduces : /\ reduceTasks[i] = "Inprogress"
                                /\ reduceTasks' = [reduceTasks EXCEPT ![i] = "late"]
                                /\ UNCHANGED mapTasks
    BY <2>1, <2>3 DEF Statu
  <2>4. QED
    BY <2>2, <2>3 DEF Clock, TimeOut
<1>4. JobTypeOK'
  BY <1>1, <1>2, <1>3 DEF JobTypeOK
<1>5. Phases'
  BY <1>1, <1>2, <1>3 DEF Phases
<1>6. ~damaged' => Kept'
  BY <1>1, <1>3 DEF JobInv, Kept
<1>7. QED
  BY <1>1, <1>4, <1>5, <1>6 DEF JobInv, PlacedWell, Written

LEMMA Exits ==
  ASSUME JobInv, CoordinatorExits
  PROVE  JobInv'
BY DEF JobInv, CoordinatorExits, files, JobTypeOK, Phases, Kept, PlacedWell, Written

LEMMA JobInvHolds == JobSpec => []JobInv
<1>1. JobInit => JobInv
  <2> SUFFICES ASSUME JobInit PROVE JobInv
    OBVIOUS
  <2>1. worker \in [Worker -> WorkerState] /\ \A w \in Worker : worker[w] = Asking
    BY AskingType DEF JobInit
  <2>2. JobTypeOK
    BY <2>1 DEF JobInit, JobTypeOK, Statu, WorkerState, StepNumbers
  <2>3. Phases /\ Kept
    BY DEF JobInit, Phases, Kept
  <2>4. PlacedWell(Asking) /\ Written(Asking, inter, out) /\ Asking.pc # "reduce"
    BY AskingType DEF PlacedWell, Written
  <2>5. QED
    BY <2>1, <2>2, <2>3, <2>4 DEF JobInv
<1>2. JobInv /\ [JobNext]_jobVars => JobInv'
  <2> SUFFICES ASSUME JobInv, [JobNext]_jobVars PROVE JobInv'
    OBVIOUS
  <2>1. ASSUME NEW w \in Worker, Ask(w) PROVE JobInv'
    <3>1. ASSUME AssignWait(w) \/ AssignExit(w) PROVE JobInv'
      BY <3>1, LeavesWork DEF AssignWait, AssignExit, Gone
    <3>2. QED
      BY <2>1, <3>1, MapAssigned, ReduceAssigned DEF Ask
  <2>2. ASSUME NEW w \in Worker, CallFailed(w) \/ DialFails(w) PROVE JobInv'
    BY <2>2, LeavesWork, AskAgain DEF CallFailed, DialFails, Gone
  <2>3. ASSUME NEW w \in Worker, WakeUp(w) \/ ReadFails(w) PROVE JobInv'
    BY <2>3, AskAgain DEF WakeUp, ReadFails
  <2>4. ASSUME NEW w \in Mortal, Crash(w) PROVE JobInv'
    BY <2>4, LeavesWork, MRAssumption DEF Crash, Gone
  <2>5. CASE UNCHANGED jobVars
    BY <2>5 DEF jobVars, coordVars, files, JobInv, JobTypeOK, Phases, Kept, PlacedWell, Written
  <2>6. QED
    BY <2>1, <2>2, <2>3, <2>4, <2>5, MapReported, ReduceReported, MapWrites, ReduceReads,
       ReduceWrites, ClockTicks, Exits DEF JobNext, Work
<1>3. QED
  BY <1>1, <1>2, PTL DEF JobSpec

\* The coordinator's tables, the workers and the files keep their types: no
\* worker writes past its last bucket or reads past the last map task.
THEOREM JobTypes == JobSpec => []JobTypeOK
<1>1. JobInv => JobTypeOK
  BY DEF JobInv
<1>2. QED
  BY <1>1, JobInvHolds, PTL

\* A reduce task that is under way, on time or late, finds every intermediate
\* file it is to read, unless writing or renaming a file has failed.
THEOREM ReduceFindsInputs == JobSpec => []InputsReady
<1>1. JobInv => InputsReady
  <2> SUFFICES ASSUME JobInv, NEW w \in Worker, worker[w].pc = "reduce", ~damaged
               PROVE  Maps \X {worker[w].ID} \subseteq inter
    BY DEF InputsReady
  <2>1. worker[w].ID \in Reduces /\ \A i \in Maps : mapTasks[i] = "Completed"
    BY DEF JobInv, Phases, PlacedWell
  <2>2. \A i \in Maps : {i} \X Reduces \subseteq inter
    BY <2>1 DEF JobInv, Kept
  <2>3. QED
    BY <2>1, <2>2
<1>2. QED
  BY <1>1, JobInvHolds, PTL

\* When Done() says so every output file has been made of the files of all map
\* tasks, and it stays so whatever workers that are late go on to do.
THEOREM FinishedJobIsComplete == JobSpec => []OutputComplete
<1>1. JobInv => OutputComplete
  BY DEF JobInv, Phases, Kept, OutputComplete
<1>2. QED
  BY <1>1, JobInvHolds, PTL
=============================================================================
