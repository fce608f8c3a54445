------------------------------ MODULE MapReduce ------------------------------
(***************************************************************************)
(* The coordinator and the workers of mr/.  The coordinator hands out the  *)
(* first task that is idle or has been in progress for too long; a worker  *)
(* writes its files one at a time under temporary names, renames them, and *)
(* reports the task done.  A worker that is slow, rather than dead, still  *)
(* finishes and reports a task that another has been given.                *)
(*                                                                         *)
(* What mapf puts in a file depends only on the task and the bucket, so an *)
(* intermediate file is there in full or it is not, and an output is known *)
(* by the intermediate files it was made of.  One that was cut short by an *)
(* error of Encode, Fprintf or Close counts as made of none.               *)
(*                                                                         *)
(* A definition whose name ends in _Faulty is a wrong version of the one   *)
(* that follows it; no action uses it.                                     *)
(***************************************************************************)
EXTENDS Naturals, FiniteSets

CONSTANTS
  Worker,
  NMap,           \* the number of input files
  nReduce,
  Mortal,         \* workers that may crash
  Unreadable      \* map tasks whose input file may fail to be read

Maps == 0 .. NMap - 1
Reduces == 0 .. nReduce - 1

ASSUME MRAssumption ==
  /\ NMap \in Nat \ {0} /\ nReduce \in Nat \ {0}
  /\ Mortal \subseteq Worker
  /\ Unreadable \subseteq Maps

VARIABLES
  mapTasks,      \* Statu of every map task; "late" is Inprogress for over 10s
  reduceTasks,
  mapdone,
  reducedone,
  coordinator,   \* whether the coordinator's process runs
  worker,        \* where a worker is, its task, and how far it is in it
  inter,         \* the complete intermediate files mr-<map>-<reduce> there are
  out,           \* for each output file, the map tasks that it covers
  damaged        \* history: whether a file was not written in full or not renamed

coordVars == <<mapTasks, reduceTasks, mapdone, reducedone, coordinator>>
files == <<inter, out, damaged>>
jobVars == <<coordVars, worker, files>>

-----------------------------------------------------------------------------
Statu == {"Idle", "Inprogress", "late", "Completed"}

Place(pc, type, id) == [pc |-> pc, type |-> type, ID |-> id, next |-> 0, got |-> {}]
Asking == Place("ask", "none", 0)
Proceed(w, pc) == worker' = [worker EXCEPT ![w].pc = pc]

\* MakeCoordinator()
JobInit ==
  /\ mapTasks = [i \in Maps |-> "Idle"]
  /\ reduceTasks = [i \in Reduces |-> "Idle"]
  /\ mapdone = FALSE
  /\ reducedone = FALSE
  /\ coordinator = TRUE
  /\ worker = [w \in Worker |-> Asking]
  /\ inter = {}
  /\ out = [r \in Reduces |-> {}]
  /\ damaged = FALSE

-----------------------------------------------------------------------------
(***************************************************************************)
(* AssignTask(), called by the worker at the top of its loop.              *)
(***************************************************************************)
\* A task that is being worked on is not handed out again, however long ago.
Due_Faulty(tasks, i) == tasks[i] = "Idle"

Due(tasks, i) == tasks[i] \in {"Idle", "late"}

\* Task i is the first one to hand out.
FirstDue(tasks, i) == Due(tasks, i) /\ \A j \in DOMAIN tasks : j < i => ~Due(tasks, j)

NoneDue(tasks) == \A i \in DOMAIN tasks : ~Due(tasks, i)

AssignMap(w, i) ==
  /\ worker[w].pc = "ask" /\ coordinator
  /\ ~mapdone
  /\ FirstDue(mapTasks, i)
  /\ mapTasks' = [mapTasks EXCEPT ![i] = "Inprogress"]
  /\ worker' = [worker EXCEPT ![w] = Place("map", "MapTask", i)]
  /\ UNCHANGED <<reduceTasks, mapdone, reducedone, coordinator, files>>

AssignReduce(w, i) ==
  /\ worker[w].pc = "ask" /\ coordinator
  /\ mapdone /\ ~reducedone
  /\ FirstDue(reduceTasks, i)
  /\ reduceTasks' = [reduceTasks EXCEPT ![i] = "Inprogress"]
  /\ worker' = [worker EXCEPT ![w] = Place("reduce", "ReduceTask", i)]
  /\ UNCHANGED <<mapTasks, mapdone, reducedone, coordinator, files>>

AssignWait(w) ==
  /\ worker[w].pc = "ask" /\ coordinator
  /\ IF ~mapdone THEN NoneDue(mapTasks) ELSE ~reducedone /\ NoneDue(reduceTasks)
  /\ Proceed(w, "wait")
  /\ UNCHANGED <<coordVars, files>>

AssignExit(w) ==
  /\ worker[w].pc = "ask" /\ coordinator
  /\ mapdone /\ reducedone
  /\ Proceed(w, "exited")
  /\ UNCHANGED <<coordVars, files>>

\* The 10 seconds of a task are over.
TimeOut ==
  \/ \E i \in Maps :
       /\ mapTasks[i] = "Inprogress"
       /\ mapTasks' = [mapTasks EXCEPT ![i] = "late"]
       /\ UNCHANGED reduceTasks
  \/ \E i \in Reduces :
       /\ reduceTasks[i] = "Inprogress"
       /\ reduceTasks' = [reduceTasks EXCEPT ![i] = "late"]
       /\ UNCHANGED mapTasks

Clock ==
  /\ coordinator
  /\ TimeOut
  /\ UNCHANGED <<mapdone, reducedone, coordinator, worker, files>>

-----------------------------------------------------------------------------
(***************************************************************************)
(* MarkTaskDone(), called by the worker at the end of a task.              *)
(***************************************************************************)
AllCompleted(tasks) == \A i \in DOMAIN tasks : tasks[i] = "Completed"

\* The last task to be handed out is taken for the last to be completed.
MarkMapDone_Faulty(w) ==
  /\ worker[w].pc = "report" /\ worker[w].type = "MapTask" /\ coordinator
  /\ mapTasks' = [mapTasks EXCEPT ![worker[w].ID] = "Completed"]
  /\ mapdone' = (mapdone \/ NoneDue(mapTasks))
  /\ worker' = [worker EXCEPT ![w] = Asking]
  /\ UNCHANGED <<reduceTasks, reducedone, coordinator, files>>

MarkMapDone(w) ==
  /\ worker[w].pc = "report" /\ worker[w].type = "MapTask" /\ coordinator
  /\ mapTasks' = [mapTasks EXCEPT ![worker[w].ID] = "Completed"]
  /\ mapdone' = (mapdone \/ AllCompleted(mapTasks'))
  /\ worker' = [worker EXCEPT ![w] = Asking]
  /\ UNCHANGED <<reduceTasks, reducedone, coordinator, files>>

MarkReduceDone(w) ==
  /\ worker[w].pc = "report" /\ worker[w].type = "ReduceTask" /\ coordinator
  /\ reduceTasks' = [reduceTasks EXCEPT ![worker[w].ID] = "Completed"]
  /\ reducedone' = (reducedone \/ AllCompleted(reduceTasks'))
  /\ worker' = [worker EXCEPT ![w] = Asking]
  /\ UNCHANGED <<mapTasks, mapdone, coordinator, files>>

\* main/mrcoordinator.go leaves when Done() says so.
CoordinatorExits ==
  /\ coordinator /\ reducedone
  /\ coordinator' = FALSE
  /\ UNCHANGED <<mapTasks, reduceTasks, mapdone, reducedone, worker, files>>

-----------------------------------------------------------------------------
(***************************************************************************)
(* Worker()                                                                *)
(***************************************************************************)
\* A call that was under way when the coordinator left returns false; the
\* result of MarkTaskDone is not looked at.
CallFailed(w) ==
  /\ ~coordinator
  /\ \/ worker[w].pc = "ask" /\ Proceed(w, "exited")
     \/ worker[w].pc = "report" /\ worker' = [worker EXCEPT ![w] = Asking]
  /\ UNCHANGED <<coordVars, files>>

\* rpc.DialHTTP() fails and call() goes on with a nil client.
DialFails(w) ==
  /\ ~coordinator
  /\ worker[w].pc \in {"ask", "report"}
  /\ Proceed(w, "panicked")
  /\ UNCHANGED <<coordVars, files>>

ReadFails(w) ==
  /\ worker[w].pc = "map" /\ worker[w].next = 0
  /\ worker[w].ID \in Unreadable
  /\ worker' = [worker EXCEPT ![w] = Asking]
  /\ UNCHANGED <<coordVars, files>>

\* The loop over the buckets goes one round too far.
MapWrite_Faulty(w) ==
  LET i == worker[w].next IN
  /\ worker[w].pc = "map"
  /\ inter' = inter \cup {<<worker[w].ID, i>>}
  /\ UNCHANGED damaged
  /\ worker' = [worker EXCEPT ![w].next = i + 1,
                              ![w].pc = IF i = nReduce THEN "report" ELSE "map"]
  /\ UNCHANGED <<coordVars, out>>

\* One round of the loop over the buckets: a temporary file takes its final
\* name.  Errors are only logged: a file that is not renamed leaves what there
\* was, one that is cut short takes the place of a complete one.
MapWrite(w) ==
  LET i == worker[w].next IN
  /\ worker[w].pc = "map"
  /\ \/ inter' = inter \cup {<<worker[w].ID, i>>} /\ UNCHANGED damaged
     \/ damaged' = TRUE /\ inter' \in {inter, inter \ {<<worker[w].ID, i>>}}
  /\ worker' = [worker EXCEPT ![w].next = i + 1,
                              ![w].pc = IF i + 1 = nReduce THEN "report" ELSE "map"]
  /\ UNCHANGED <<coordVars, out>>

\* A file that cannot be opened is left out, one cut short is read as far as it goes.
ReduceRead(w) ==
  LET i == worker[w].next IN
  /\ worker[w].pc = "reduce" /\ i < NMap
  /\ worker' = [worker EXCEPT ![w].next = i + 1,
       ![w].got = IF <<i, worker[w].ID>> \in inter THEN @ \cup {i} ELSE @]
  /\ UNCHANGED <<coordVars, files>>

\* The task is reported before its output has its final name.
ReduceWrite_Faulty(w) ==
  /\ worker[w].pc = "reduce" /\ worker[w].next = NMap
  /\ Proceed(w, "report")
  /\ UNCHANGED <<coordVars, files>>

ReduceWrite(w) ==
  /\ worker[w].pc = "reduce" /\ worker[w].next = NMap
  /\ \/ out' = [out EXCEPT ![worker[w].ID] = worker[w].got] /\ UNCHANGED damaged
     \/ damaged' = TRUE /\ out' \in {out, [out EXCEPT ![worker[w].ID] = {}]}
  /\ Proceed(w, "report")
  /\ UNCHANGED <<coordVars, inter>>

WakeUp(w) ==
  /\ worker[w].pc = "wait"
  /\ worker' = [worker EXCEPT ![w] = Asking]
  /\ UNCHANGED <<coordVars, files>>

Gone == {"exited", "panicked", "crashed"}

Crash(w) ==
  /\ worker[w].pc \notin Gone
  /\ Proceed(w, "crashed")
  /\ UNCHANGED <<coordVars, files>>

-----------------------------------------------------------------------------
Ask(w) ==
  \/ \E i \in Maps : AssignMap(w, i)
  \/ \E i \in Reduces : AssignReduce(w, i)
  \/ AssignWait(w) \/ AssignExit(w)

Work(w) ==
  \/ Ask(w) \/ MarkMapDone(w) \/ MarkReduceDone(w) \/ CallFailed(w) \/ DialFails(w)
  \/ MapWrite(w) \/ ReduceRead(w) \/ ReduceWrite(w) \/ WakeUp(w)

JobNext ==
  \/ \E w \in Worker : Work(w) \/ ReadFails(w)
  \/ \E w \in Mortal : Crash(w)
  \/ Clock
  \/ CoordinatorExits

JobSpec == JobInit /\ [][JobNext]_jobVars

\* A worker that cannot crash goes on working, the clock goes on, Done() is
\* called periodically, and reading input files does not fail for ever.
JobFairness ==
  /\ \A w \in Worker \ Mortal : WF_jobVars(Work(w))
  /\ SF_jobVars(\E w \in Worker : worker[w].next = 0 /\ MapWrite(w))
  /\ WF_jobVars(Clock)
  /\ WF_jobVars(CoordinatorExits)

JobFairSpec == JobSpec /\ JobFairness

-----------------------------------------------------------------------------
JobTypeOK ==
  /\ mapTasks \in [Maps -> Statu]
  /\ reduceTasks \in [Reduces -> Statu]
  /\ {mapdone, reducedone, coordinator, damaged} \subseteq BOOLEAN
  /\ worker \in [Worker ->
       [pc : {"ask", "wait", "map", "reduce", "report"} \cup Gone,
        type : {"none", "MapTask", "ReduceTask"}, ID : Maps \cup Reduces,
        next : 0 .. IF NMap > nReduce THEN NMap ELSE nReduce, got : SUBSET Maps]]
  /\ inter \subseteq Maps \X Reduces
  /\ out \in [Reduces -> SUBSET Maps]

\* When Done() says that the job is finished, every output file is there and was
\* made of the intermediate files of all map tasks, whoever crashed, was late or
\* worked on a task twice, and no late worker spoils it afterwards.  That files are
\* written and renamed has to be assumed: a worker reports the task all the same.
OutputComplete == reducedone /\ ~damaged => \A r \in Reduces : out[r] = Maps

\* A reduce task is under way only when all the files it reads are there, so the
\* worker that skips a file it cannot open never has to, unless writing or
\* renaming a file has failed.
InputsReady ==
  \A w \in Worker : worker[w].pc = "reduce" /\ ~damaged => Maps \X {worker[w].ID} \subseteq inter

\* The job is finished as long as one worker stays alive, and then every worker
\* that stays alive stops.
JobFinishes ==
  /\ <>reducedone
  /\ \A w \in Worker \ Mortal : <>(worker[w].pc \in Gone)

\* "returns false if something goes wrong" (worker.go:226): a worker that finds
\* no coordinator leaves its loop in good order.
WorkersLeaveInOrder == \A w \in Worker : worker[w].pc # "panicked"
=============================================================================
