-------------------------------- MODULE Lock --------------------------------
(***************************************************************************)
(* The lock of kvsrv1/lock/lock.go: clients that share one key l of the    *)
(* key/value server.  The value of l is the client that has the lock, or   *)
(* the empty string.  A client is identified by its clerk; clientID is     *)
(* drawn at random and taken to be unique.                                 *)
(*                                                                         *)
(* Every Get and Put of the lock is a call of KVSrv, which the network may *)
(* lose and the clerk repeat; pc says which of its calls a client awaits.  *)
(* A definition whose name ends in _Faulty is a wrong version of the one   *)
(* that follows it; no action uses it.                                     *)
(***************************************************************************)
EXTENDS KVSrv

CONSTANT l     \* lockID

ASSUME LockAssumption ==
  /\ Key = {l}
  /\ Value = Clerk \cup {Empty}
  /\ Empty \notin Clerk
  /\ Absent # l

VARIABLE pc    \* where a client is in Acquire() or Release()

vars == <<kvVars, pc>>

Init == KVInit /\ pc = [c \in Clerk |-> "out"]

Goto(c, label) == pc' = [pc EXCEPT ![c] = label]

\* The call c made at the given label has returned.
Returned(c, label) == pc[c] = label /\ call[c].at = "returned"

Query(c, label) == ClerkGet(c, l) /\ Goto(c, label)

Store(c, v, version, label) == ClerkPut(c, l, v, version) /\ Goto(c, label)

Finish(c, label) == Goto(c, label) /\ UNCHANGED kvVars

-----------------------------------------------------------------------------
\* Bound: no Acquire() begins once l has reached version MaxVersion.
Acquire(c) ==
  /\ KeyVersion[l] < MaxVersion
  /\ Returned(c, "out")
  /\ Query(c, "AcquireGet")

AcquireGot(c) ==
  /\ Returned(c, "AcquireGet")
  /\ \/ /\ call[c].result = "ErrNoKey"
        /\ Store(c, c, 0, "AcquireCreate")
     \/ /\ call[c].result = "OK"
        /\ call[c].reply.Value = Empty
        /\ Store(c, c, call[c].reply.Version, "AcquirePut")
     \/ /\ call[c].result = "OK"
        /\ call[c].reply.Value # Empty
        /\ Query(c, "AcquireGet")

\* An answer of ErrMaybe is treated like a failure here.
AcquireCreated(c) ==
  /\ Returned(c, "AcquireCreate")
  /\ IF call[c].result = "OK" THEN Finish(c, "held") ELSE Query(c, "AcquireGet")

\* An answer of ErrMaybe is taken for success.
AcquirePutDone_Faulty(c) ==
  /\ Returned(c, "AcquirePut")
  /\ IF call[c].result \in {"OK", "ErrMaybe"} THEN Finish(c, "held")
     ELSE Query(c, "AcquireGet")

AcquirePutDone(c) ==
  /\ Returned(c, "AcquirePut")
  /\ IF call[c].result = "OK" THEN Finish(c, "held")
     ELSE IF call[c].result = "ErrMaybe" THEN Query(c, "AcquireCheck")
     ELSE Query(c, "AcquireGet")

\* The client does not recognise its own record.
AcquireChecked_Faulty(c) ==
  /\ Returned(c, "AcquireCheck")
  /\ Query(c, "AcquireGet")

AcquireChecked(c) ==
  /\ Returned(c, "AcquireCheck")
  /\ IF call[c].reply.Value = c THEN Finish(c, "held") ELSE Query(c, "AcquireGet")

Release(c) == Returned(c, "held") /\ Query(c, "ReleaseGet")

\* A client whose first attempt was performed but answered ErrMaybe may find
\* another client here, and waits for that one to release the lock.
ReleaseGot(c) ==
  /\ Returned(c, "ReleaseGet")
  /\ IF call[c].result = "OK" /\ call[c].reply.Value \in {Empty, c}
       THEN Store(c, Empty, call[c].reply.Version, "ReleasePut")
       ELSE Query(c, "ReleaseGet")

ReleasePutDone(c) ==
  /\ Returned(c, "ReleasePut")
  /\ IF call[c].result = "OK" THEN Finish(c, "out")
     ELSE IF call[c].result = "ErrMaybe" THEN Query(c, "ReleaseCheck")
     ELSE Query(c, "ReleaseGet")

ReleaseChecked(c) ==
  /\ Returned(c, "ReleaseCheck")
  /\ IF call[c].reply.Value = Empty THEN Finish(c, "out") ELSE Query(c, "ReleaseGet")

\* Acquire() and Release() after their first call.
Steps(c) ==
  \/ AcquireGot(c) \/ AcquireCreated(c) \/ AcquirePutDone(c) \/ AcquireChecked(c)
  \/ ReleaseGot(c) \/ ReleasePutDone(c) \/ ReleaseChecked(c)

Next ==
  \E c \in Clerk :
    \/ Acquire(c) \/ Release(c) \/ Steps(c)
    \/ (Served(c) \/ Lost(c)) /\ UNCHANGED pc

Spec == Init /\ [][Next]_vars

\* A client in one of the procedures keeps running, a client with the lock
\* gives it back, and a request and its reply both get through every so often.
Fairness ==
  \A c \in Clerk :
    /\ WF_vars(Steps(c))
    /\ WF_vars(Release(c))
    /\ WF_vars((Get(c) \/ Put(c)) /\ UNCHANGED pc)
    /\ SF_vars(Return(c) /\ UNCHANGED pc)

FairSpec == Spec /\ Fairness

-----------------------------------------------------------------------------
Labels == {"out", "AcquireGet", "AcquireCreate", "AcquirePut", "AcquireCheck", "held",
           "ReleaseGet", "ReleasePut", "ReleaseCheck"}

\* The types, and a client that has not called Acquire() has no call open.
TypeOK ==
  /\ KVTypeOK
  /\ pc \in [Clerk -> Labels]

\* The tester's "two clients acquired lock" never happens, whichever requests
\* and replies are lost.
MutualExclusion ==
  \A c, d \in Clerk : pc[c] = "held" /\ pc[d] = "held" => c = d

\* "when unsure, query once more" (lock.go:67): a client that is about to look
\* at the lock afresh is not the one on record, for it would wait for itself.
OwnLockRecognised ==
  \A c \in Clerk : (pc[c] = "AcquireGet" /\ call[c].at = "sent") => KeyValue[l] # c

\* The client that created the key was answered ErrMaybe and now waits for its
\* own record to go away.
Orphaned ==
  /\ KeyVersion[l] = 1
  /\ \E c \in Clerk : pc[c] = "AcquireGet" /\ KeyValue[l] = c

\* While somebody is in Acquire() the lock is acquired again, by one client or
\* another, unless the client that created the key did not learn of it.
AcquireProgress ==
  (\E c \in Clerk : pc[c] \in {"AcquireGet", "AcquireCreate", "AcquirePut", "AcquireCheck"})
    ~> (Orphaned \/ \E c \in Clerk : pc[c] = "held")
=============================================================================
