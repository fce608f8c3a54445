----------------------------- MODULE KVService ------------------------------
(***************************************************************************)
(* What a key/value service promises the callers of its clerks: a store of *)
(* versioned values.  A Put takes effect at most once, at one instant      *)
(* between its call and its return, and only on the version it names; its  *)
(* answer tells whether it did, or is ErrMaybe.  A Get returns what the    *)
(* store held at one instant between its call and its return.              *)
(***************************************************************************)
EXTENDS Integers

CONSTANTS
  Clerk,       \* the clerks; each has one call open at a time
  Key, Value,
  Version,     \* the versions a Put may name
  Empty,       \* the empty string, zero value of a reply
  Absent       \* in place of the value of a key that does not exist

VARIABLES
  store,       \* the value and the version of each key
  op,          \* the call a clerk has open or has last completed
  open,        \* whether the clerk waits for it
  applied,     \* whether it is a Put that has taken effect
  seen,        \* the answers the store has had for it
  result       \* what the clerk has returned

svars == <<store, op, open, applied, seen, result>>

PutReply(err) == [Err |-> err, Value |-> Empty, Version |-> 0]
NoReply == PutReply("unset")

\* What the store answers to a Get.
Lookup(k) ==
  IF store[k].value = Absent
    THEN [Err |-> "ErrNoKey", Value |-> Empty, Version |-> 0]
    ELSE [Err |-> "OK", Value |-> store[k].value, Version |-> store[k].version]

\* Why the store does not perform a Put, or "OK".
Verdict(k, version) ==
  IF store[k].value = Absent THEN IF version = 0 THEN "OK" ELSE "ErrNoKey"
  ELSE IF store[k].version = version THEN "OK" ELSE "ErrVersion"

Init ==
  /\ store = [k \in Key |-> [value |-> Absent, version |-> 0]]
  /\ op = [c \in Clerk |-> [kind |-> "none"]]
  /\ open = [c \in Clerk |-> FALSE]
  /\ applied = [c \in Clerk |-> FALSE]
  /\ seen = [c \in Clerk |-> {}]
  /\ result = [c \in Clerk |-> NoReply]

Call(c, kind, k, v, version) ==
  /\ ~open[c]
  /\ op' = [op EXCEPT ![c] = [kind |-> kind, key |-> k, value |-> v, version |-> version]]
  /\ open' = [open EXCEPT ![c] = TRUE]
  /\ applied' = [applied EXCEPT ![c] = FALSE]
  /\ seen' = [seen EXCEPT ![c] = {}]
  /\ result' = [result EXCEPT ![c] = NoReply]
  /\ UNCHANGED store

\* The call keeps some of the answers it has been given and adds one.
Note(c, reply) ==
  \E kept \in SUBSET seen[c] : seen' = [seen EXCEPT ![c] = kept \cup {reply}]

Look(c) ==
  /\ open[c]
  /\ op[c].kind = "Get"
  /\ Note(c, Lookup(op[c].key))
  /\ UNCHANGED <<store, op, open, applied, result>>

\* A Put that has not been applied takes effect.
Apply(c) ==
  /\ open[c]
  /\ op[c].kind = "Put"
  /\ ~applied[c]
  /\ Verdict(op[c].key, op[c].version) = "OK"
  /\ store' = [store EXCEPT ![op[c].key] =
       [value |-> op[c].value, version |-> op[c].version + 1]]
  /\ applied' = [applied EXCEPT ![c] = TRUE]
  /\ Note(c, PutReply("OK"))
  /\ UNCHANGED <<op, open, result>>

\* A Put is found not to fit the store, perhaps because it has been applied.
Refuse(c) ==
  /\ open[c]
  /\ op[c].kind = "Put"
  /\ Verdict(op[c].key, op[c].version) # "OK"
  /\ Note(c, PutReply(Verdict(op[c].key, op[c].version)))
  /\ UNCHANGED <<store, op, open, applied, result>>

\* The answers that are true of what has happened to the call.
Truthful(c) ==
  IF op[c].kind = "Get" THEN seen[c]
  ELSE {r \in seen[c] : r.Err = "OK" <=> applied[c]}
       \cup IF PutReply("ErrVersion") \in seen[c] THEN {PutReply("ErrMaybe")} ELSE {}

Return(c) ==
  /\ open[c]
  /\ open' = [open EXCEPT ![c] = FALSE]
  /\ \E r \in Truthful(c) : result' = [result EXCEPT ![c] = r]
  /\ UNCHANGED <<store, op, applied, seen>>

Next ==
  \E c \in Clerk :
    \/ \E k \in Key : Call(c, "Get", k, Empty, 0)
    \/ \E k \in Key, v \in Value, version \in Version : Call(c, "Put", k, v, version)
    \/ Look(c)
    \/ Apply(c)
    \/ Refuse(c)
    \/ Return(c)

Spec == Init /\ [][Next]_svars
=============================================================================
