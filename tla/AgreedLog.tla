----------------------------- MODULE AgreedLog ------------------------------
(***************************************************************************)
(* What Raft promises the services that read applyCh: there is one log,    *)
(* which only grows, and what each peer may deliver is a prefix of it.     *)
(***************************************************************************)
EXTENDS Integers, Sequences

CONSTANT Server

VARIABLES
  log,        \* the entries agreed upon so far
  delivered   \* what each peer knows of them

lvars == <<log, delivered>>

Init ==
  /\ log = <<>>
  /\ delivered = [s \in Server |-> <<>>]

\* New entries are agreed upon, and s is the first to know.
Agree(s) ==
  /\ Len(log') > Len(log) /\ SubSeq(log', 1, Len(log)) = log
  /\ delivered' = [delivered EXCEPT ![s] = log']

\* s learns of entries that have been agreed upon.
Learn(s) ==
  /\ \E n \in Len(delivered[s]) + 1 .. Len(log) :
       delivered' = [delivered EXCEPT ![s] = SubSeq(log, 1, n)]
  /\ UNCHANGED log

Next == \E s \in Server : Agree(s) \/ Learn(s)

Spec == Init /\ [][Next]_lvars
=============================================================================
