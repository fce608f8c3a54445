# A TLA+ verification of the 6.5840 labs

TLA+ modules of the distributed programs in `src/src`, the TLC configurations
that check them on small instances, and TLAPS proofs of the theorems that hold
for every instance. Paths below are relative to `src/src`.

## The system and its models

| part | code | module | status |
|---|---|---|---|
| Raft | `raft1/raft.go`, `raftapi/`, `raft1/server.go` (`applierSnap`) | `Raft` | every critical section |
| network, tester restarts, Persister | `labrpc/labrpc.go`, `tester1/{group,srv,clnts,persister}.go` | `LabRPC`; a message set in `Raft` | calls, restarts; no counters, no set-up |
| agreed log (abstract) | what `raftapi/raftapi.go` promises | `AgreedLog` | abstract specification |
| versioned store (abstract) | what `kvsrv1/rpc/rpc.go` promises | `KVService` | abstract specification |
| key/value server and clerk | `kvsrv1/{server,client}.go` | `KVSrv` | complete |
| lock | `kvsrv1/lock/lock.go` | `Lock` (extends `KVSrv`) | complete |
| RSM and replicated store | `kvraft1/rsm/rsm.go`, `kvraft1/{server,client}.go` | `KVRaft` | complete, over an agreed log |
| MapReduce | `mr/*.go`, `main/mrcoordinator.go` | `MapReduce` | complete, data abstracted |
| shard configurations | `shardkv1/shardcfg/shardcfg.go` | `ShardCfg` | join, leave, rebalance |

How they interact: peers, servers and clerks call one another over labrpc; the
tester stops a server and starts another from a copy of its Persister. A Raft
peer hands committed commands to its service over `applyCh`; in `kvraft1` the
service is the RSM's `Reader`, which performs operations and wakes `Submit`.
Clerks of both stores retry; the lock is a client of the unreplicated store.
MapReduce stands alone, over `net/rpc`, and so does `shardcfg`.

Not modelled, because they change no state of the system: the tests, `kvtest1`,
`models1`, the tester's statistics and annotations, `labgob`. `mrapps` are pure
functions, or delays and exits that a worker of the model takes anywhere.
`main/{diskvd,lockc,lockd,pbc,pbd,viewd}.go` refer to packages that are not in
the repository. The shard controller and the shard groups are skeletons.

## Modules

**`Raft`.** Variables carry the names of the fields of `Raft`; `disk` is the
Persister, `net` the calls in flight, `sending`, `applier`, `electing` and
`votes` the local variables of goroutines that have released `rf.mu`, `sm` what
the service has applied. A critical section is one action, with its `persist()`
and its trailing `updateCommitIndex()`. A reply carries the request it answers,
as the goroutine's closure does. A handler with several ends is one action per
end (`RequestVoteStale`, `RequestVoteRefuse`, `RequestVoteGrant`, ...). `stuck`
records that a goroutine has returned with `rf.mu` locked. labrpc loses and
reorders calls but does not duplicate them; heartbeats repeat replication calls,
so an element of `net` may stand for several equal ones, except for votes. Time
is abstracted: an election timer may expire whenever the peer does not lead.
`TickerTimeout` is the gap between the ticker's check and `AttemptElection`, in
which the peer may win its previous election. `BroadcastEntries` is taken only
where the code's slice expression does not panic. A panic ends the program, so the
model has every state the code gets to; without compaction there is none, which is
what `NextIndexInBounds` says, and with compaction there can be one (see below).

**`AgreedLog`** is what Raft promises a service: one log that only grows, of which
each peer delivers a prefix. `MCRaft` maps `Raft` to it (`ImplementsAgreedLog`): a
peer may deliver its log up to `CommitIndex`, and the longest such prefix is the
agreed log.

**`LabRPC`.** One named server, the calls of its clients from `Call()` to their
reply, the goroutines of its handlers, and the shutdown of
`tester1/group.go`: delete the server, copy the Persister, start the next
instance. The handler of the model saves an item before it answers, as Raft's
handlers do; the comments in `processReq` are about such handlers.

**`KVService`** takes a Get or a Put at one instant between call and return and
lists the truthful answers. **`KVSrv`** is the map of `kvsrv1/server.go` and its
retrying clerks; **`KVRaft`** the clerks, `Submit`, `Reader`, the table of
requests, snapshots and restarts over a log that is agreed upon. Both refine
`KVService` (`ImplementsService`), so at-most-once, linearizability and truthful
errors are one property. `ErrMaybe` is truthful whenever the Put could have been
refused during the call, so one that the clerk might have done without is no
violation. `KVRaft` takes from Raft that committed operations form one sequence, and
that a snapshot handed to `Reader` goes beyond what it has applied: `Reader` restores
unconditionally, the condition is that of Raft's Applier (`raft.go:859`), of which
`ApplyInOrder` speaks. From `generateOpId` it takes that ids are unique.

**`Lock`** is `Acquire` and `Release`, one step per answer of the clerk.
**`MapReduce`** has the coordinator's tables with their timeouts, workers that
crash, lag or fail to read, write or rename a file, and the files as sets; `damaged`
records that a file was cut short or not renamed, which the code only logs.
**`ShardCfg`** has the loops of `JoinBalance`, `LeaveBalance` and `Rebalance` as
steps; ties between groups are broken as the code does.

A definition that ends in `_Faulty` is a plausible slip in the definition after
it. No action uses it; putting it in the place of the right one must make the
property that `PROJECT.json` names for it fail.

## Runs

TLC stops at the bounds on purpose, so most configurations switch deadlock
checking off; `KVSrv` has it on. States are distinct states.

| run | instance | shows |
|---|---|---|
| `raft_terms` | 3 peers of which 2 stand, 4 terms, 1 entry, 1 call in flight, 1 restart, preemption in term 1; 1.1M | `VoteDurable`, `ElectionSafety`, `LeaderCompleteness`, `PersistentState` |
| `raft_matching` | 3 peers of which 2 stand, 3 terms, 2 entries, 2 calls in flight where `Overtaking` allows; 374K | `LogMatching`, `CommitCovered`, `NextIndexInBounds`, `MatchIndexSound`, `CommitNeverRetreats`, `ImplementsAgreedLog` |
| `raft_apply` | 2 peers, 2 terms, 2 entries, 2 calls in flight, Appliers and snapshots; 835K | `TypeOK`, `LogIndexing`, `SnapshotCoversLog`, `ApplyInOrder` |
| `kvsrv` | 2 clerks, versions to 3; 51K | `KVTypeOK`, `ImplementsService`, `CallsReturn` |
| `lock` | 2 clients, versions to 5; 37K | `MutualExclusion`, `AcquireProgress` |
| `kvraft` | 2 clerks, 2 servers, 2 operations, 2 terms; 282K | `ImplementsService` |
| `kvraft_snapshot` | 1 clerk, 2 requests, 3 operations, snapshots, 1 restart; 455K | `TypeOK`, `ReplicasAgree`, `ImplementsService` |
| `mapreduce` | 1 mortal and 1 immortal worker, 2 map and 2 reduce tasks; 129K | `OutputComplete`, `InputsReady`, `JobTypeOK`, `JobFinishes` |
| `shardcfg` | 3 shards, 5 groups, 4 configurations; 384K | `CheckConfig`, `MovesAreNeeded`, `CfgTypeOK`, `RebalanceEnds` |
| `labrpc` | 2 clients, 2 calls each, 2 instances; 249K | `AcknowledgedIsSaved`, `NetTypeOK`, `CallReturns` |
| `raft_mutex` | 3 peers, 2 terms, 1 entry, snapshots | `MutexReleased` fails |
| `raft_snapshot_loss` | 3 peers, 2 terms, 2 entries, snapshots, narrowed by `MCRaftLoss` | `StateMachineSafety` fails |

For every property a faulty definition violates it under the same configuration.
Four terms and two candidates are what the loss of a committed entry of an earlier
term takes, and one restart what a vote forgotten takes. Calls and replies that
overtake one another need two in flight: `Overtaking` (`MCRaft`) lets
`raft_matching` have two when they are AppendEntries calls of the last term, or
their replies, between its leader and the other candidate, and one otherwise. This
is enough for a refusal to come after the progress that outdates it (`NextIndex`
then falls back to where `MatchIndex` is) and for a short call to come after a
longer one (a follower that cuts its log unconditionally then violates
`MatchIndexSound`); with one in flight neither happens. Three operations are what it takes for a repeated request
to be committed after a later one of the same clerk, and five groups what it takes
to have more groups than shards and leave some again. Raft is split because one
instance with all its features is out of reach; a combination that no run has
(snapshots and a restart, say) is not checked by TLC. `Symmetry` exchanges only peers that the
constants treat alike, and only in runs without liveness; `ImplementsAgreedLog`
has no fairness and treats peers alike.

What the properties do not say: `LeaderCompleteness`, `CommitCovered`,
`MatchIndexSound`, `NextIndexInBounds`, `CommitNeverRetreats`, `PersistentState` and
`ImplementsAgreedLog` are claimed without compaction, and the last without restarts
too, because a restarted peer forgets `CommitIndex`.
`AcquireProgress` says that somebody gets the lock, not that everybody does, and
leaves out the case below. `CheckConfig` is claimed after a call that returned true; one that gives up half
way leaves `Groups` changed and `Shards` as they were. `OutputComplete` and
`InputsReady` assume that every file has been written and renamed.

### Disagreements between the code and what it says of itself

Two have a run of their own:

* `raft_mutex`: `sendSnapShot` (`raft.go:422-424`) returns with `rf.mu` locked
  when the peer no longer leads.
* `raft_snapshot_loss`: a delayed `InstallSnapShot` discards the whole log
  (`raft.go:386-404`), acknowledged entries after the snapshot included; two
  services then apply different commands at one index. `KVRaft` assumes the
  agreed log that this loses: its results hold as long as Raft keeps its
  promise.

After such a loss three more properties fail that hold without compaction. They take
three peers, snapshots and more steps than a search within a run's time reaches; each
sequence below has been followed step by step on `Raft`:

* `NextIndexInBounds`: a peer whose log a late snapshot of index 1 has cut to that
  index leads, and one whose log begins at 2 refuses its call with `XLen` 3; `NextIndex`
  is then past the end of the leader's log, and the slice in `GetLogSlices`
  (`raft.go:181`) panics at the next heartbeat.
* `PersistentState`: a leader sends the snapshot of index 2 to a peer of an earlier
  term that has cut its own log there. `InstallSnapShot` (`raft.go:377-380`) adopts the
  term, drops the snapshot as old and returns without `persist()`. No vote is lost with
  the term: `VoteDurable` and `ElectionSafety` are proved with compaction.
* `CommitNeverRetreats`: a peer with `CommitIndex` 4 whose log a late snapshot has cut
  to 2 leads, sends this snapshot to a peer with `CommitIndex` 3, and then an empty
  call with `LeaderCommit` 4; the follower takes the minimum with its last index, 2
  (`raft.go:653-654`).

Four more disagreements have no run. Three are stated as invariants that no
configuration lists; each fails within seconds when a configuration of its module does:

* `OwnLockRecognised` (`Lock`): `Acquire` takes `ErrMaybe` from the Put that
  creates the key (`lock.go:49-54`) for a failure and then waits for itself,
  while the other Put is followed by a query for just this reason.
* `ResentPutIsMaybe` (`KVRaft`, with one clerk, two requests, three operations):
  the comment on `Put` (`kvraft1/client.go:79-83`) asks for `ErrMaybe` on a resent
  request; the code returns `ErrVersion`, which is exact thanks to the table of
  requests. The code is right and the comment is out of date.
* `WorkersLeaveInOrder` (`MapReduce`): `call()` goes on with a nil client after
  `DialHTTP` has failed, where its comment says that it returns false.
* A failed rename (`worker.go:102`, `:164`) or write (`worker.go:90`, `:96`) is only
  logged, or not even that (`worker.go:157`, `:161`), and the task is reported done, so
  that `Done()` may say so of a job without its output. Without `~damaged`,
  `OutputComplete` fails.

## Fairness

* `KVSrv`, `Lock`: weak fairness of the server's handlers (Go runs a runnable
  goroutine) and strong fairness of a call's return: the network drops some
  calls, not all of them, and the clerk retries for ever.
* `MapReduce`: weak fairness of the immortal workers, of time and of the
  coordinator's exit; strong fairness of reading an input, which may fail but
  not always.
* `ShardCfg`: weak fairness of the one sequential step.
* `LabRPC`: weak fairness of a call's goroutines and of handlers.

No liveness is claimed of Raft: it rests on random timeouts, which fairness
does not express. For the same reason none is claimed of `KVRaft`.

## Proofs

Nothing is assumed but the named assumptions on constants: finite sets of peers
(`ServerAssumption`), bounds that are numbers, and the like. The bounds on terms,
logs, calls in flight and restarts are arbitrary, so the theorems hold for all of
them.

### Raft

`RaftInvariants` defines the inductive invariants, each stronger than the one
before. Five modules show that a step keeps them: `RaftLemmas` (facts about the
operators and the handlers, types and indices, deliveries), `RaftElectionProofs`
(votes, Log Matching, who makes a call), `RaftHistory` (what explains a state when
nothing is compacted, and the steps that leave it alone), `RaftHistoryProofs` (the
steps that extend it) and `RaftCommitProofs` (what follows from it). `RaftTheorems`
has the argument over time and all theorems. What tlapm needs for an obligation
grows with the lemmas in scope, and this has shaped the layout: modules that can do
without one another do not extend one another, a lemma of one action is often a step
of the proof that uses it, and the lemmas name what they need of the libraries of
theorems as a hypothesis, `Counting` (least elements, majorities that meet, one more
member). `RaftTheorems` alone extends those libraries, and proves `Counting` with
them (`CountingHolds`), so that no theorem has it as a hypothesis.

With compaction, restarts and every loss and delay of the network:

* `TypeCorrect`, `LogIndexed` (`TypeOK`, `LogIndexing`). Proved together, as
  `IndInv`, because an update of a compacted log has the right type only if
  positions and indices agree, and they agree after `AppendEntries` only if the
  entries of a call are numbered from `PrevLogIndex` on (`EntriesIndexed`).
* `SnapshotsCover`, `AppliesInOrder` (`SnapshotCoversLog`, `ApplyInOrder`). By
  `ApplyInv`: also a snapshot in a call covers what it is labelled with
  (`CallsCover`), and in a round of the Applier the messages left to send take the
  service from where it is to the new `LastApplied` (`Ordered`).
* `VotesDurable`, `OneLeaderPerTerm` (`VoteDurable`, `ElectionSafety`). Two leaders
  of one term have majorities that share a voter. `ElectionInv` follows a vote from
  the reply to the tally: it binds the voter in memory and on disk (`VotesBind`), a
  voter has one candidate per term (`VotesUnique`), a leader has a majority
  (`LeadersElected`). Disk and memory are treated apart because `InstallSnapShot`
  may adopt a term without saving it. Most actions create no vote and are handled
  by one lemma (`QuietStep`).
* `LogsMatch` (`LogMatching`). `MatchingInv` speaks of everything that names an entry,
  a log or a call: what comes before an entry is determined by its index and term
  (`Chained`), its term had a leader (`Appended`), and that leader, while it leads,
  is past it (`LeaderIsAhead`), so that it never gives the pair away twice.

Without compaction (`Snapshotters = {}`), still with restarts and an unreliable
network:

* `LeadersAreComplete`, `ServicesAgree`, `MatchesAreSaved`, `CommitsAreCovered`,
  `CommitsStay` (`LeaderCompleteness`, `StateMachineSafety`, `MatchIndexSound`,
  `CommitCovered`, `CommitNeverRetreats`). No variable of the program remembers what
  the leaders of past terms had, nor who has acknowledged what, and the argument
  needs both. So `SafetyInv` says that a history exists: `L[t]` is what the leader
  of term `t` had when it last led, and `A` the acknowledgements given, a leader's own
  included. `History(L, A)` ties it to the state. At its centre is `Lasting`: an entry
  that is not `Blocked`, that is, that no majority has left behind unacknowledged, is in the log
  of every later leader. It is kept by `VotesCheck` (no vote for a candidate that
  lacks the entry comes from a peer that has acknowledged it) and `Kept` (who has
  acknowledged it holds it). `updateCommitIndex` counts only entries of its own
  term, and this is where the proof uses it: what it commits is `Chosen` in `A`.
  Each action is shown to have a history after it (`StepHistory`); most leave `L` and
  `A` alone, and three extend them: a won election, `Start` and a successful
  `AppendEntries`. That a replication call comes from a leader, even when it arrives
  after a restart, is `TenureInv`; that nothing is cut from a log, `PlainInv`.
* `NextIndexStaysInLog`, `TermAndVoteAreSaved`, `MutexIsReleased`
  (`NextIndexInBounds`, `PersistentState`, `MutexReleased`). `BoundInv` adds that a
  refusal names an index no further than the call's `PrevLogIndex` (`BacksUp`), which
  its leader still has (`Reaches`), and that no snapshot is ever sent.

* `LogIsAgreed` (`ImplementsAgreedLog`), for runs of Raft without restarts
  (`MaxBoots = 0`), which set `CommitIndex` back to zero and the mapping with it. The
  history makes what the peers may deliver prefixes of one log (`CommitsAgree`); a
  step lets one peer at most advance (`OneCommits`), and nobody's committed entries
  change (`CommittedStays`). That a longest prefix exists at all would be an induction
  over the peers; it is carried along as part of the invariant instead (`SomeForemost`):
  a peer that advances either overtakes the foremost one and is foremost itself, which
  is `Agree`, or stays behind it, which is `Learn` (`PrefixGrows`).

These need the hypothesis on snapshots: with compaction `StateMachineSafety` and `MutexReleased`
are false (the two runs above), so are `NextIndexInBounds`, `PersistentState` and
`CommitNeverRetreats` (the three sequences above), and the others rest on what the late
snapshot destroys.

### The other components

* `ComponentProofs`, on the key/value server: `ServerTypes` (`KVTypeOK`);
  `ServerIsService`, the safety part of `ImplementsService`: by `KVInv`, an answer is
  true of what happened to its call; a Put that was performed has pushed the version of its key past its own, so that a
  repetition is refused and the clerk knows that it has repeated it.
  `LockExcludes` (`MutualExclusion`): by `LockInv`, a Put that could still take the
  lock away from its holder names an older version.
* `ComponentProofs`, on the network: `NetworkTypes` (`NetTypeOK`);
  `AcknowledgedSurvives` (`AcknowledgedIsSaved`): a reply is believed only while the
  instance that gave it is still the server, and its saves are then in the Persister
  that the next one gets.
* `ComponentProofs`, on MapReduce: `JobTypes` (`JobTypeOK`), `ReduceFindsInputs`
  (`InputsReady`), `FinishedJobIsComplete` (`OutputComplete`): a task is marked done only
  after its files have their names, and no late worker takes a name away, as long as
  nothing is `damaged`.
* `ShardKVProofs`, on the replicated store: `ServiceTypes` (`TypeOK`);
  `ReplicasStayEqual` (`ReplicasAgree`) and `ReplicatedIsService` (the safety part of
  `ImplementsService`), both by `TruthInv`. It says that a history of the state machine
  exists, `H[i]` being the machine after `i` operations of the log (`Replays`); every
  replica and every snapshot is on it, at the number of operations it has performed,
  which makes the first theorem. For the second, an operation in the log is of a
  request its clerk has made (`Issued`), and the table of requests has a request that
  has been performed (`Settled`, `Tabled`): a repetition is answered from the table or
  refused as old, and the answer a waiting clerk gets is one the log has given to its
  request (`Answered`, `AnswersSeen`). The abstract store moves at `Commit`; every
  other step maps to a call, a return or a stutter.
* `ShardKVProofs`, on shard configurations: `ConfigTypes` (`CfgTypeOK`),
  `BalanceReached` (`CheckConfig`), `NoNeedlessMoves` (`MovesAreNeeded`), for any number
  of shards and groups.

### Model-checked only

* Liveness: `CallsReturn`, `AcquireProgress`, `JobFinishes`, `RebalanceEnds`,
  `CallReturns`. Fairness and ENABLED are out of the prover's reach.

## Plan

`KVRaft` over an instance of `AgreedLog` instead of a log of its own.
