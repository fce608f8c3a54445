------------------------------- MODULE LabRPC -------------------------------
(***************************************************************************)
(* The simulated network of labrpc/labrpc.go, with the part of tester1/    *)
(* that shuts a server down and starts it again (group.go, srv.go) and the *)
(* Persister it hands on (persister.go).  One server name, behind which    *)
(* one instance of the server follows another; one end per client.  The    *)
(* handler of every call saves something before it returns.                *)
(*                                                                         *)
(* A definition whose name ends in _Faulty is a wrong version of the one   *)
(* that follows it; no action uses it.                                     *)
(***************************************************************************)
EXTENDS Naturals, FiniteSets

CONSTANTS
  Client,
  MaxCalls,      \* bound: calls of one client
  MaxInstances,  \* bound: instances of the server
  reliable       \* whether requests and replies are never dropped

ASSUME LabRPCAssumption ==
  /\ MaxCalls \in Nat
  /\ MaxInstances \in Nat \ {0}
  /\ reliable \in BOOLEAN

VARIABLES
  enabled,    \* enabled[c]: the end of client c
  server,     \* servers[servername]: the instance that is registered, or 0
  calls,      \* how far the current Call() of a client is
  handlers,   \* handlers that have been started and have not returned
  instance,   \* the last instance that was started
  phase,      \* how far ShutdownServer() or StartServer() is
  disk,       \* what the Persister of each instance holds
  saved,      \* the content of the copy that shutdownServer() made
  acked       \* what calls that have returned true have asked to save

netVars == <<enabled, server, calls, handlers>>
testerVars == <<instance, phase, saved>>
labVars == <<netVars, testerVars, disk, acked>>

Instance == 1 .. MaxInstances

\* What a handler is asked to save: the call it works for.
Item(c) == <<c, calls[c].n>>

NetInit ==
  /\ enabled = [c \in Client |-> TRUE]
  /\ server = 1
  /\ calls = [c \in Client |-> [at |-> "none", n |-> 0, to |-> 0]]
  /\ handlers = {}
  /\ instance = 1
  /\ phase = "up"
  /\ disk = [i \in Instance |-> {}]
  /\ saved = {}
  /\ acked = {}

-----------------------------------------------------------------------------
(***************************************************************************)
(* ClientEnd.Call() and Network.processReq()                               *)
(***************************************************************************)
MovesTo(c, at) == calls' = [calls EXCEPT ![c].at = at]

ClientCall(c) ==
  /\ calls[c].at = "none" /\ calls[c].n < MaxCalls
  /\ calls' = [calls EXCEPT ![c] = [at |-> "sent", n |-> @.n + 1, to |-> 0]]
  /\ UNCHANGED <<enabled, server, handlers, testerVars, disk, acked>>

\* The end leads nowhere, or the request is dropped: Call() returns false.
Unsent(c) ==
  /\ calls[c].at = "sent"
  /\ ~enabled[c] \/ server = 0 \/ ~reliable
  /\ MovesTo(c, "none")
  /\ UNCHANGED <<enabled, server, handlers, testerVars, disk, acked>>

\* Whether there is a server behind the name is not looked at.
Dispatch_Faulty(c) ==
  /\ calls[c].at = "sent"
  /\ enabled[c]
  /\ calls' = [calls EXCEPT ![c].at = "waiting", ![c].to = server]
  /\ handlers' = handlers \cup {[item |-> Item(c), at |-> server]}
  /\ UNCHANGED <<enabled, server, testerVars, disk, acked>>

\* The request goes to the instance that is registered now.
Dispatch(c) ==
  /\ calls[c].at = "sent"
  /\ enabled[c] /\ server # 0
  /\ calls' = [calls EXCEPT ![c].at = "waiting", ![c].to = server]
  /\ handlers' = handlers \cup {[item |-> Item(c), at |-> server]}
  /\ UNCHANGED <<enabled, server, testerVars, disk, acked>>

\* A handler saves what it was asked to and returns, whether or not anyone
\* waits for it, and whether or not its instance is still registered.
Handle(h) ==
  /\ handlers' = handlers \ {h}
  /\ disk' = [disk EXCEPT ![h.at] = @ \cup {h.item}]
  /\ calls' = [c \in Client |->
       IF calls[c].at = "waiting" /\ Item(c) = h.item
         THEN [calls[c] EXCEPT !.at = "handled"] ELSE calls[c]]
  /\ UNCHANGED <<enabled, server, testerVars, acked>>

isServerDead(c) == ~enabled[c] \/ server # calls[c].to

\* A reply that comes too late is thrown away and the client is not told.
ServerDead_Faulty(c) ==
  /\ calls[c].at = "waiting"
  /\ isServerDead(c)
  /\ MovesTo(c, "none")
  /\ UNCHANGED <<enabled, server, handlers, testerVars, disk, acked>>

\* Every 100ms, and once more when the handler has returned.
ServerDead(c) ==
  /\ calls[c].at \in {"waiting", "handled"}
  /\ isServerDead(c)
  /\ MovesTo(c, "none")
  /\ UNCHANGED <<enabled, server, handlers, testerVars, disk, acked>>

\* Nothing is checked again once the handler has returned.
ServerAlive_Faulty(c) ==
  /\ calls[c].at = "handled"
  /\ MovesTo(c, "replying")
  /\ UNCHANGED <<enabled, server, handlers, testerVars, disk, acked>>

ServerAlive(c) ==
  /\ calls[c].at = "handled"
  /\ ~isServerDead(c)
  /\ MovesTo(c, "replying")
  /\ UNCHANGED <<enabled, server, handlers, testerVars, disk, acked>>

ReplyDropped(c) ==
  /\ calls[c].at = "replying" /\ ~reliable
  /\ MovesTo(c, "none")
  /\ UNCHANGED <<enabled, server, handlers, testerVars, disk, acked>>

\* The reply is delivered, after a delay if longReordering: Call() returns true.
DeliverReply(c) ==
  /\ calls[c].at = "replying"
  /\ MovesTo(c, "none")
  /\ acked' = acked \cup {Item(c)}
  /\ UNCHANGED <<enabled, server, handlers, testerVars, disk>>

Enable(c, yes) ==
  /\ enabled[c] # yes
  /\ enabled' = [enabled EXCEPT ![c] = yes]
  /\ UNCHANGED <<server, calls, handlers, testerVars, disk, acked>>

-----------------------------------------------------------------------------
(***************************************************************************)
(* ShutdownServer() and StartServer()                                      *)
(***************************************************************************)
\* Which ends are disabled is left to Enable.
DeleteServer ==
  /\ phase = "up"
  /\ server' = 0
  /\ phase' = "deleted"
  /\ UNCHANGED <<enabled, calls, handlers, instance, saved, disk, acked>>

\* From here on the old instance writes to a Persister that nobody reads.
shutdownServer ==
  /\ phase = "deleted"
  /\ saved' = disk[instance]
  /\ phase' = "down"
  /\ UNCHANGED <<netVars, instance, disk, acked>>

\* The new instance gets a copy of the copy.
StartServer ==
  /\ phase = "down" /\ instance < MaxInstances
  /\ instance' = instance + 1
  /\ disk' = [disk EXCEPT ![instance + 1] = saved]
  /\ phase' = "starting"
  /\ UNCHANGED <<netVars, saved, acked>>

AddServer ==
  /\ phase = "starting"
  /\ server' = instance
  /\ phase' = "up"
  /\ UNCHANGED <<enabled, calls, handlers, instance, saved, disk, acked>>

-----------------------------------------------------------------------------
Progress(c) == Unsent(c) \/ Dispatch(c) \/ ServerDead(c) \/ ServerAlive(c) \/ DeliverReply(c)

NetNext ==
  \/ \E c \in Client : ClientCall(c) \/ Progress(c) \/ ReplyDropped(c)
  \/ \E c \in Client, yes \in BOOLEAN : Enable(c, yes)
  \/ \E h \in handlers : Handle(h)
  \/ DeleteServer \/ shutdownServer \/ StartServer \/ AddServer

NetSpec == NetInit /\ [][NetNext]_labVars

\* The goroutine of a call is scheduled, and handlers return.
NetFairness ==
  /\ \A c \in Client : WF_labVars(Progress(c))
  /\ WF_labVars(\E h \in handlers : Handle(h))

NetFairSpec == NetSpec /\ NetFairness

-----------------------------------------------------------------------------
\* Every variable has its type.  In particular a request that is at work, also
\* after DeleteServer(), is at work in an instance that was started.
NetTypeOK ==
  /\ enabled \in [Client -> BOOLEAN]
  /\ server \in 0 .. MaxInstances
  /\ calls \in [Client -> [at : {"none", "sent", "waiting", "handled", "replying"},
                          n : 0 .. MaxCalls, to : 0 .. MaxInstances]]
  /\ handlers \subseteq [item : Client \X (1 .. MaxCalls), at : Instance]
  /\ instance \in Instance
  /\ phase \in {"up", "deleted", "down", "starting"}
  /\ disk \in [Instance -> SUBSET (Client \X (1 .. MaxCalls))]
  /\ saved \subseteq Client \X (1 .. MaxCalls)
  /\ acked \subseteq Client \X (1 .. MaxCalls)

\* What the next instance will be started from, or the last one was.
LastPersisted == IF phase = "down" THEN saved ELSE disk[instance]

\* A client that gets a positive reply can rely on it: what the server saved for
\* it is in the Persister of the present instance or in the copy that the next
\* one starts from, however the reply and the shutdown raced.
AcknowledgedIsSaved == acked \subseteq LastPersisted

\* "Call() is guaranteed to return (perhaps after a delay)" as handlers return,
\* whether the server is there, gone, or replaced while it works on the request.
CallReturns == \A c \in Client : (calls[c].at # "none") ~> (calls[c].at = "none")
=============================================================================
