# Formal models of langgraph-temporal

This directory models the part of langgraph-temporal where its correctness is decided: the Temporal
workflow that runs a LangGraph graph (`src/langgraph/temporal/workflow.py`), the activities that run its
nodes (`activities.py`) and the codecs their payloads go through (`encryption.py`, `_codec.py`), the workers
and their registries (`worker.py`, `converter.py`), and the clients that stream from it and read its state
(`streaming.py`, `graph.py`, `checkpoint.py`). TLC checks the models on small graphs and few processes;
TLAPS proves every safety property the passing runs check, and the refinement, for every graph and any number of processes
(with what a continue-as-new makes of a join as the exception: see "The JSON of a continue-as-new").

    tlc -workers 2 -config MCHuman.cfg MCLangGraphWorkflow    # a run: see the table of runs
    tlapm WorkflowSuperstepProofs.tla                         # a module of proofs

`PROJECT.json` lists the runs with their properties, the source lines behind every definition ("map"),
the hazards of the code with the properties aimed at them, the findings, and for every property a
mutation of a definition, the way a plausible bug would change it, that breaks it. Definitions named
`Bug...` are those mutations; no specification uses them.

## Inventory

### The workflow (`workflow.py`, `LangGraphWorkflow`)

*State*: the checkpoint (`channel_versions`, `versions_seen`) and the channels built from it, `step`,
`status`, `interrupts`, `resume_values`, `_resume_event`, `stream_buffer`, `_sticky_task_queue`, and what
`run()` holds across awaits (the planned tasks, the results so far, `steps_in_this_run`).

*Operations*: `run()` restores or builds the channels, then loops: `prepare_next_tasks`, a pause for
`interrupt_before`, one activity per node in parallel, child workflows that results ask for, a pause and
a re-execution when nodes called `interrupt()`, activities for Sends and then for `Command.goto` targets,
`apply_writes`, stream events, a pause for `interrupt_after`, and, after `CONTINUE_AS_NEW_THRESHOLD`
supersteps, a continue-as-new. Signals: `resume_signal`, `update_state_signal`. Queries:
`get_current_state`, `get_stream_buffer`.

*Hard*: signals run on the live state at any await of `run()`; activities and children end one by one and
in any order; a pause may be answered late, twice or early; a continue-as-new keeps only what its input
carries, and that goes through a JSON converter; exceptions in workflow code do not fail the workflow but retry its
task forever.

*Correct when*: a superstep's writes appear all together or not at all; every write to a trigger
runs the triggered node, once; versions and seen versions stay consistent; accepted updates are kept; a
pause is reported exactly while there is one and is left only with an answer that came during it; the
recursion limit holds over continue-as-new; answered workflows end.

### Node activities (`activities.py`) and payload codecs (`encryption.py`, `_codec.py`)

*State*: the activity's record at the server (attempts, result); per execution, what it read and produced
and the list of child workflow requests in its context variable; the blob store.

*Operations*: the workflow's process encodes the input; an attempt starts, decodes it, runs the node and its
writers, and returns writes, Sends, `Command.goto` targets, child requests or an interrupt, or raises;
`retry_on`, where the activity finds one it can call, and `max_attempts` decide about another attempt; the output is encoded; the workflow reads
it, again at every replay. A codec encrypts every payload, or offloads the large ones to a blob store.
`get_available_task_queue` tells the queue of the worker it runs on.

*Hard*: an execution is not stopped when its attempt times out, so that executions of one activity overlap; a
process may crash between putting a blob and recording its reference; processes may have different keys or codecs.

*Correct when*: a node sees its input or does not run; a result is of one execution and does not change; what is
recorded can be fetched; policies are kept to; activities that have a limit end.

### Workers, affinity and the registry (`worker.py`, `converter.py`, `workflow.py`)

*State*: per process, whether it runs, the name of its own queue (random, or persisted in a file) and the
graphs in its `GraphRegistry`; per workflow, the pin `_sticky_task_queue` and the one its input carries.

*Operations*: `create_worker` and its queue name, discovery, dispatch to the pinned queue, fallback to a
newly discovered queue when an activity fails, the pin over continue-as-new.

*Hard*: the coroutines of a superstep share the pin, and each may drop it while others are waiting;
processes crash and come back under another queue name, or under the same one with another registry.

*Correct when*: nodes run on worker queues only; the pin is kept while the worker works; one lost worker
is survived; nobody waits forever.

### Subgraph nodes (`workflow.py`, `converter.py`)

*State*: the references of a process's `GraphRegistry`; the parent and its child workflow, each cached in a
process or in none. *Operations*: the parent registers the subgraph, starts a child with the reference, awaits
it, and unregisters in a finally clause; the child asks for its graph when it is loaded and at each activity.
*Hard*: a cached workflow may be evicted at any time, which runs the finally clause, and a replay registers
anew; registries die with their process. *Correct when*: no reference is left behind, none that is needed is
given up, and the parent goes on.

### Streaming and reading (`streaming.py`, `graph.py`, `checkpoint.py`)

*State*: the run's event buffer; the client's cursor. The client queries the buffer from its cursor on
and sleeps; `get_state`, `get_state_history` and the checkpoint saver query the state and keep nothing.
*Hard*: buffer, channels and versions are rebuilt with every continue-as-new while the client goes on; a query
may fail; the end of the workflow is not an event. *Correct when*: events come once, in order, without holes,
the stream ends, and a state that is read is no older than the one read before.

### The rest

The client `TemporalGraph` (`graph.py`) starts workflows and sends signals and queries. Serializer
(`_serde.py`), metrics (`metrics.py`) and tools (`tools.py`) keep no state that other parts depend on.

### Interactions

    client --start, signals--> workflow --activities--> worker processes
       ^---- queries ----------    |  ^---- results --------  |      |
                                   |      (codecs)      GraphRegistry blob store
                                   +--child workflows--> (sub-agents, subgraphs)
                                   +--continue-as-new--> itself

## Modules

| module | models |
| --- | --- |
| `Pregel` | `prepare_next_tasks` and `apply_writes` of LangGraph, which is not in this repository: external, as the workflow uses them |
| `Supersteps` | the abstract specification: what the execution of a graph promises |
| `LangGraphWorkflow` | the run method, its signal handlers, continue-as-new, activities and children as the workflow sees them; refines `Supersteps` |
| `Client` | a client that streams and reads the state, composed with `LangGraphWorkflow` |
| `Subgraphs` | a parent, its subgraph's child workflow, and the registries of the processes that cache them |
| `PayloadCodec` | what each codec makes of a payload and can read of it |
| `NodeActivity` | one activity: attempts, overlapping executions, outcomes, and payloads through `PayloadCodec` |
| `WorkerAffinity` | worker processes, their queues and registries; pinning, fallback and rediscovery |
| `MC...` | graphs, deployments and constants for TLC |
| `LangGraphWorkflowProofs`, `WorkflowStateProofs`, `WorkflowSuperstepProofs`, `ClientProofs` | theorems about the workflow, each module over the one before: types and pauses; state over supersteps and runs; one superstep and the refinement; the client |
| `SubgraphsProofs`, `NodeActivityProofs`, `WorkerAffinityProofs` | theorems about these modules |

### `Pregel`

A channel value is the set of tokens it is made of. A token names its writer, which of the
writer's writes it is and the superstep it was written in, so a property can ask whether a
value is old, new or half a superstep's. The four kinds of channel are those a compiled `StateGraph` uses:
LastValue, BinaryOperatorAggregate, EphemeralValue and NamedBarrierValue. Versions are LangGraph's
integers: every superstep that changes something gives all changed channels the next one.

#### The JSON of a continue-as-new

`run()` hands its checkpoint to the next run as part of the `WorkflowInput`, which Temporal's data converter writes as
JSON; the next run reads it as a `dict[str, Any]` (workflow.py:156). Values that JSON has come back as they were. The
checkpoint of a NamedBarrierValue is the set of the names it has heard from, and comes back as a list: `seen == names`
never holds again, and a new name raises AttributeError. `Json` is that conversion, `lists` the barriers it has reached,
`Available` and `Raises` what follows from it. A barrier that has a version when a run is continued is in `lists` for
good, so a join works only within the run in which it was first written to. EphemeralValue, reducer and LastValue channels
are taken to hold values that JSON returns unchanged.

### `LangGraphWorkflow`

Workflow code is cooperative: between two awaits nothing else happens. So **an action is the code from
one await to the next**, and `pc` names the await. The operators `Tick`, `ProcessChildren`, `AfterChildren`, `AfterResume`, `AfterPush`,
`FinishSuperstep` and `Advance` are the pieces of the loop body in their order; each ends at the next
await or hands over to the next piece.

| code | model |
| --- | --- |
| `self.checkpoint`, `self.channels` | `ck` (versions, top version, values, seen versions) |
| `self.step`, `steps_in_this_run` | `step`, `stepsInRun` |
| `self.status`, `.interrupts`, `.resume_values`, `._resume_event` | `status`, `interrupts`, `resumeValues`, `resumeEvent` |
| `self.stream_buffer` | `stream`: one entry per superstep, with the nodes that were announced |
| `next_tasks`, `results`, pending awaits, the rest of a sequential loop | `tasks`, `results`, `inflight`, `todo` |
| `WorkflowInput`, `RestoredState` | `input` |
| Temporal's signal queue | `mail` (resume signals), `UpdateStateSignal` at any time |
| `_wait_for_resume` | `WaitForResume`, then `Wake...` once the event is set |
| `continue_as_new` | `ContinueAsNew`: a new instance, `pc = "pending"`, which knows only `input` |

`pauses`, `sent`, `updates` and `last` are not in the code. They number pauses and answers, record
updates, and remember each node's last execution, for the properties to refer to.

`interrupt()` sends the values a resumed node was given to the channel `__resume__`, which `apply_writes` skips; they count
as writes of the node (`Resumes`), so a resumed node is credited and announced also when it writes nothing else.

Three outcomes end a workflow: `closed` (the method returned), `failed` (an activity failed for
good) and `stuck` (an exception that is no Temporal failure: the workflow task is retried forever).

A worker crash changes nothing here: a workflow's state is what its history replays to. That a replay
needs a worker with the graph is the subject of `WorkerAffinity` and `Subgraphs`.

A node in `Subgraph` is a compiled graph without writers of its own. It ends like an activity; its writes
are those of its inner run on the channels in `SubgraphChan`, and not the ones its writers would make (`SubgraphOutput`).

### `Supersteps`, and how the workflow implements it

The abstract specification has one state, a round number, the nodes planned for the round and the outputs of
its executions. `Commit` replaces the state as a whole by what all outputs make of it; besides it only the input
and single outside updates change the state. `ImplementsSupersteps` (last lines of `LangGraphWorkflow`) maps

| abstract | workflow |
| --- | --- |
| `state` | `Durable`: the live checkpoint, or the one in the input while a run has not begun |
| `round` | `step`, plus one once the writes are applied and the step is not counted yet (the pause of `interrupt_after`) |
| `planned` | `tasks` |
| `outputs` | `results`, as node, path, writes and the nodes reached |

Pauses, answers, failed activities and continue-as-new are stutters; a re-executed node replaces its output; Sends
and gotos are further outputs of the round. `outputs` without writes take no part in the round, as in the code.
A step is one of the abstract specification as long as no barrier in `lists` is part of the state (`BarriersIntact`); after
that the workflow plans no join, which is no round, and `join_lost` shows it.

### `WorkerAffinity`

A process is up or not; `start` dates its queue name (unchanged with a queue file); `registered` is the
set of processes that know the graph reference the workflow was started with: `GraphRegistry.register`
makes a random reference in the memory of one process. `co[n]` is the coroutine that executes node `n`,
`queue[n]` the queue its activity is on, `sticky` and `carried` the pin and the one the input carries. What
nodes compute is left out: a superstep is any set of nodes, and any superstep may be the last.

The module models workflows with `use_worker_affinity`; a `sticky_task_queue` given without it is not modelled.

### `Client`

Adds a client to `LangGraphWorkflow`. It streams: `polling`, `cursor` and `received`; `Poll` is one query and what it
yields, `QueryRaises` stands for every error of a query. It reads the state: `seen` is the last answer to
`get_current_state`, which all four reads send (`get_state`, `get_state_history`, `aget_tuple`, `alist`). Both name the
workflow and not a run, so what is asked after a continue-as-new is answered by the new run.

### `Subgraphs`

A reference is a number; `registry[p]` is what `GraphRegistry` of process `p` holds of the subgraph, `parent.ref`
the reference in the parent's coroutine, `child.ref` the one in the child's input. They are the same when the
child is started, and differ once the parent was replayed. `at` is the process that caches a workflow. `TearDown` is
the eviction with the finally clause it runs; `Crash` runs none. What the subgraph computes is left out.

### `PayloadCodec` and `NodeActivity`

A payload is an encoding, a key (an encryption key or a blob's name) and a content. Encryption is ideal. An execution is
named by its attempt, `run[k]`, and goes through `started`, `running`, `encoding`, `encoded` (or `raised`); the
server's record `act` has the attempt it waits for, so that `TimeOut` leaves the older execution running and
`Report` of it changes nothing. A policy's `retryOn` is a `"predicate"` that the activity finds and calls, or `"unasked"`: one
it does not find, since `getattr(node.retry_policy, "retry_on", None)` is None of a tuple of policies (which a compiled node of
LangGraph 1.0 holds), or one that tells it nothing (a sequence of exception types, an exception type). `lists[k]` is the context variable the node's middleware appends requests to. `answered` records
the server's view of each attempt for `NoAttemptAfterTheLast`.

## Runs

| run | module | distinct states | question |
| --- | --- | --- | --- |
| `loop` | `MCClient` | 177 348 | Do versions, triggers, updates and what a client streams and reads agree over supersteps, updates at any moment and continue-as-new? |
| `human` | `MCLangGraphWorkflow` | 90 641 | Do pauses and answers match, whatever the order and number of answers, with two updates at any moment, and does the join run? |
| `fan` | `MCLangGraphWorkflow` | 5 793 | Is a superstep with Sends, gotos, children, interrupts and updates still one superstep? |
| `affinity` | `MCWorkerAffinity` | 26 202 | Do activities reach a worker, through crashes, restarts and failures of two nodes at once? |
| `subgraphs` | `Subgraphs` | 31 483 | Are references of subgraphs kept as long as they are needed and no longer? |
| `attempts` | `MCNodeActivity` | 561 427 | Are input and result of an activity the right ones, through retries, overlapping executions, crashes and five deployments of codecs? |
| `dropped_interrupt`, `lost_update`, `join_lost`, `concurrent_loss`, `restart`, `subgraph_evicted` | | - | See "What the code does otherwise". |

Properties, and what they say of the code:

- `ImplementsSupersteps`: whatever the order of activities, children, pauses, answers, updates and new runs, the
  workflow executes rounds, each planned from the state, complete before it counts, and applied as a whole; for good
  if the graph has no barrier, and until a continue-as-new carries one otherwise.
- `VersionsConsistent`, `VersionsTrackValues`: what the comparison of versions in `prepare_next_tasks` relies on
  holds through `update_state` in the middle of a superstep and through continue-as-new, and nothing but a continue-as-new
  makes a barrier's set a list.
- `NoPartialSuperstep`: no channel shows a value of a superstep that is not over, although
  its activities end one by one, some after a human's answer.
- `CommittedTriggersRun`, `NoRerunWithoutNewInput`: what was written runs the triggered node in the next
  superstep (unless a barrier that came through a continue-as-new was to run it), and a node that wrote runs again only
  for something newly written.
- `LiveUpdatesAreKept`: an update handled by a run that has its channels is not lost.
- `StreamTellsTheState`: the buffer has one entry per superstep of the run, with every writer.
- `StatusTellsThePause`, `ResumedWithAnswer`: clients see a pause exactly while there is one; resumed
  nodes get at least one value, and none from before the pause.
- `NodeInterruptPauses`, `ConcurrentChildrenHaveDistinctIds`, `EveryChildReports`: interrupts and child
  workflows of several results in one superstep.
- `Terminates`: with answers, the workflow ends; no wakeup is lost and the recursion limit
  holds over all runs.
- `DeliveredInOrder`, `GapsOnlyAtNewRun`, `FirstRunDelivered`: what a polling client receives.
- `ReadsNeverGoBack`: two reads, with anything between them, agree on the order of what happened.
- `NodesRunOnAWorkerQueue`, `OneLossIsSurvived`, `PinLeftOnlyOnFailure`, `Ends`: worker affinity.
- `NoReferenceLeaks`, `ReferencesAreReleased`: a registry holds a subgraph's reference only for the parent that is
  cached in its process and awaits its child. `StarterKeepsReference`: as long as the starter stays cached, the child's
  graph is known. `ReturnsWhileGraphIsKnown`: the parent goes on unless nobody knows the graph, or the child waits for
  an answer.
- `NodesSeeTheirInput`: under any mix of keys and stores node code runs on its input or not at all.
  `RequestsAreOfOneExecution`: overlapping executions do not mix their child requests. `NoDanglingReference`,
  `ReplaysReadTheSame`: a recorded payload stays readable, with one content. `NoAttemptAfterTheLast`, `ActivityEnds`: the
  retry policy, whose halves are decided by the worker and the server.

### Bounds

| constant | value | why it is enough |
| --- | --- | --- |
| `Threshold` (500 in the code) | 2; 4 in `loop`, 3 in `human` | the loop reaches a second and a third run; nothing else depends on the number. `loop` needs runs long enough that a client's cursor is neither at the start nor past the end of the next buffer, and `human` long enough that its join runs before the barrier goes through JSON |
| `RecursionLimit` | 3 to 5; 6 in `loop` | the limit falls in a run started by a continue-as-new |
| `MaxUpdates` | 0 to 2 | two updates may hit the same superstep, or different runs |
| `MaxAnswers` | 0 to 2 | a pause answered twice leaves an answer that arrives in or after the next pause |
| graphs | 3 to 5 nodes | loop, parallel nodes with a join, fan-out with Sends and goto; one node of every kind |
| `MaxSupersteps`, `MaxCrashes` (`affinity`) | 3; 2 | a superstep before and after a continue-as-new; both workers, or one worker twice |
| `MaxVisits`, `MaxSteps`, `MaxEvictions`, `MaxCrashes` (`subgraphs`) | 2 each, two processes | a second visit after a first one left something behind; parent and child evicted, or the parent twice; both processes, or one twice |
| `MaxAttempts` | 2 | two executions of one activity overlap, in one process or two; an attempt sees no more than the one before and the one after |
| `MaxRequests`, `MaxCrashes` (`attempts`) | 1; 1 | each of two executions has a request of its own to lose; a crash at every point of an offload |

Deadlock is checked in every run: `Stay` is the only step of an ended workflow, of one that waits for
people, or of one that waits for a worker, and is in no fairness condition.

### Fairness

- `RunMethod`: workers poll and the workflow's code is run when it can go on.
- Activities and children end, one way or another: activities have a `start_to_close_timeout` (`NodeActivityOptions`) and
  children an execution timeout, and Temporal's server enforces both. That an activity which fails on every try ends as
  well needs a `max_attempts` or a `schedule_to_close_timeout`: by default Temporal retries it forever, and `Terminates` is
  claimed for nodes that do not need it or have one. `ActivityEnds` shows that either is enough.
- `ResumeSignal`: Temporal delivers an accepted signal.
- `SendAnswer`: somebody answers a pause. An assumption about people, not about the code.
- `UpdateStateSignal` and crashes have no fairness.
- `WorkerAffinity`: each node's activity ends or times out. `TimesOut` requires a
  `schedule_to_close_timeout` (off by default), so `Ends` is claimed for nodes that have it. Processes that die are started again.
- `Subgraphs`: workers poll, processes are started again, a workflow task that fails with a `KeyError` is
  retried until a process that knows the graph gets it. Evictions, crashes, the server's termination of children, answers to a paused child and the failure of a sibling have no fairness.
- `NodeActivity`: workers poll and are started again, timeouts come. Nothing is assumed of node code: an execution may hang.
- `Poll`: the client goes on polling as long as its loop does; nothing obliges a query to fail.

## What the code does otherwise

Each of these runs checks one sentence of the documentation, a comment or a test, and ends with a counterexample.

- `dropped_interrupt`: a node with two `interrupt()` calls, answered once, does not pause again
  (REQUIREMENTS.md:176 says multiple calls must be supported). The results of re-executed nodes are never
  looked at for interrupts; the second one is dropped with the node's writes.
- `lost_update`: an `update_state` handled before `run()` has built the channels, also in the first
  moments after a continue-as-new, is lost.
- `join_lost`: a join that a continue-as-new finds full, or half full, is not run in the new run: the barrier's set has become
  a list (REQUIREMENTS.md:238 says the full channel state is carried). A late member's write raises AttributeError.
- `concurrent_loss`: of two activities that lose the same worker, the second finds the pin already
  cleared and fails the workflow without a retry (guides/worker-affinity.md:91).
- `restart`: a restarted worker with a queue file polls the same queue, but does not know the
  reference of the workflow's graph, so neither the workflow nor its activities go on
  (guides/worker-affinity.md:87, REQUIREMENTS.md:334). The run has one process. With several, the same
  happens once all that knew the reference are gone.
- `subgraph_evicted`: the reference a subgraph's child was started with is unregistered when the cached parent is
  evicted, and the replay registers another one: the child finds its graph nowhere, and the parent waits forever
  (workflow.py:496 promises "full durability").

Other differences, met while modelling, have no run of their own:

- A node that ran without writing anything runs again at the next superstep, because only results with writes reach
  `apply_writes` and so `versions_seen` (against the comment at workflow.py:308). `NoRerunWithoutNewInput` is therefore
  stated for nodes that wrote, and `Supersteps!RoundWrites` leaves such outputs out.
- Two values for one LastValue raise `InvalidUpdateError` in workflow code: the workflow task is retried forever, and nothing
  "fails permanently" (DESIGN.md:1355). The `fan` run reaches this state (`stuck`).
- An exception that `retry_on` refuses is retried unless `retry_on` is a predicate that the activity finds on the node's
  policy (activities.py:241; REQUIREMENTS.md:213 and DESIGN.md:932 say that it is asked). For sequences of types and for
  exception types the code shows it; that it finds no predicate either rests on what a compiled node of LangGraph 1.0
  holds. `NoAttemptAfterTheLast` is therefore stated for a `retry_on` that is asked.
- When the worker found after a loss is lost, too, or a node just fails twice, the workflow is stuck in its own RuntimeError
  (workflow.py:419), with another worker there (guides/worker-affinity.md:98 says it "never gets stuck"). `Ends` counts that as an end.
- `astream` polls until a query raises, and completed workflows answer queries, so that it never ends (streaming.py:103 and
  tests/test_streaming.py:62 take a completed workflow for one whose queries raise).
- At the recursion limit the workflow completes as `"done"` (DESIGN.md:1354 says it fails).
- `update_state` does not pass on `as_node` (graph.py:344).
- A node's `Command` is returned with its whole `update`, `UntrackedValue` channels included, although
  activities.py:349 says such writes never appear in the history.
- A `Command` with a goto and no update skips the node's writers (activities.py:201).
- The events of a run's last superstep are emitted in the segment that starts the new run and no query can see them; a
  client whose cursor is past the new buffer's start misses its first events (`GapsOnlyAtNewRun` says that these are the
  only holes).
- A state's checkpoint id is its step (checkpoint.py:68): the states before and after an update in one step share it.
- A blob whose reference was never recorded is kept forever; nothing calls `delete`.

## Proofs

Each theorem is for every graph (`Node`, `Chan`, `Kind`, `Members`, `Triggers`), every node behaviour (`Body`, `Interrupts`,
`Subgraph`, `MayFail`, ...) and every value of the bounds, or for any number of processes, attempts, visits and
crashes. Only the safety part of a specification is used: fairness is never assumed.

| module | theorem | says |
| --- | --- | --- |
| `LangGraphWorkflowProofs` | `TypeCorrect` | `Spec => []TypeOK` |
| | `VersionsCorrect` | `Spec => []VersionsConsistent` |
| | `StatusCorrect` | `Spec => []StatusTellsThePause` |
| | `ResumeCorrect` | `Spec => []ResumedWithAnswer` |
| `WorkflowStateProofs` | `SuperstepsAtomic` | `Spec => []NoPartialSuperstep` |
| | `UpdatesDurable` | `Spec => []LiveUpdatesAreKept` |
| | `StreamTruthful` | `Spec => []StreamTellsTheState` |
| | `TriggersRun` | `Spec => []CommittedTriggersRun` |
| | `NoIdleRerun` | `Spec => []NoRerunWithoutNewInput` |
| | `VersionsHonest` | `Spec => VersionsTrackValues` |
| | `LimitHolds` | `Spec => []WithinLimit`: all runs together stay within the recursion limit |
| `WorkflowSuperstepProofs` | `SuperstepsImplemented` | `Spec => ImplementsSupersteps`, the refinement |
| | `ChildIdsDistinct` | `Spec => []ConcurrentChildrenHaveDistinctIds` |
| | `ChildrenReport` | `Spec => []EveryChildReports` |
| | `InterruptsPause` | `Spec => NodeInterruptPauses` |
| `ClientProofs` | `DeliveryInOrder` | `SpecClient => []DeliveredInOrder` |
| | `GapsCorrect` | `SpecClient => []GapsOnlyAtNewRun` |
| | `ReadsMonotone` | `SpecClient => ReadsNeverGoBack` |
| | `ClientOnlyWatches` | `SpecClient => Spec`: all of the above holds with a client |
| `SubgraphsProofs` | `TypeCorrect`, `RegistriesCorrect`, `StarterCorrect` | `[]TypeOK`, `[]NoReferenceLeaks`, `[]StarterKeepsReference` |
| `NodeActivityProofs` | `TypeCorrect`, `InputCorrect`, `RequestsCorrect` | `[]TypeOK`, `[]NodesSeeTheirInput`, `[]RequestsAreOfOneExecution` |
| | `StoreCorrect`, `AttemptsCorrect`, `ReplaysCorrect` | `[]NoDanglingReference`, `[]NoAttemptAfterTheLast`, `ReplaysReadTheSame` |
| `WorkerAffinityProofs` | `TypeCorrect`, `QueuesCorrect`, `LossCorrect` | `[]TypeOK`, `[]NodesRunOnAWorkerQueue`, `[]OneLossIsSurvived` |
| | `PinCorrect` | `PinLeftOnlyOnFailure` |

Assumptions, all on constants:

- `GraphAssumption`: kinds, barrier members and triggers are functions of the graph's channels and nodes; a barrier has a
  member (it is made for the start nodes of a join); no node is called `"__input__"` or `"__update__"`, the names under which the
  workflow applies the input and updates (workflow.py:172, 858).
- `WorkflowAssumption`: paths order the nodes; `"__end__"` is no node and `"__resume__"` no channel; updates go to no barrier; bounds are numbers, and
  `Threshold` is not zero.
- `AffinityAssumption`, `SubgraphAssumption`, `CodecAssumption` and that of `NodeActivity`: names that stand for nothing
  differ from names of something, and bounds are numbers.

### The workflow (`LangGraphWorkflowProofs`)

The invariant is `IInv`. Typing alone is not inductive enough for the other facts. `StatusTellsThePause` and
`VersionsConsistent` are about one instance, but a continue-as-new replaces it: versions must be consistent in the input as
well, which is why the invariant speaks of both `ck` and `input.ck`. `ResumedWithAnswer` follows from two facts about the
wait: while `run()` waits or works through the interrupted nodes every recorded value was received in the current pause, and
once the event is set there is at least one (`AnswersOfThisPause`); and no activity is under way during a pause
(`NoWorkWhilePaused`), so none carries answers of an older one. A lemma for each piece of the loop body shows that it
re-establishes the invariant at the next await (`WaitStep` up to `ProcessChildrenStep`), so that an action is one or two citations.

### The state over supersteps and runs (`WorkflowStateProofs`)

Over `IInv`, the invariant is `History`. Its parts speak of the superstep a value was written in, and none of them can be
stated with `step`: it lags behind the state during an `interrupt_after`, and is 0 in an instance that has not begun. `Round`
is the number of supersteps whose writes are in the durable state. Then

- `NoPartialSuperstep` and `StreamTellsTheState` need that the buffer has an entry per superstep of the run
  (`StreamIsComplete`), and that a first run restores nothing (`FirstRunStartsEmpty`);
- `CommittedTriggersRun` is about the moment a plan is made. It is inductive only with the reason why a plan contains a
  triggered node: no node has seen the version of what the last superstep wrote (`NewsIsUnseen`), and with an extension to
  the pause for interrupted nodes, during which updates arrive (`NewsIsPlanned`). An update leaves every older value's
  token or takes it away, and makes none that looks like a node's;
- `NoRerunWithoutNewInput` needs the converse: a version a node has not seen is of something written since it ran, or the
  value is gone (`NewVersionsSinceLast`), and nobody has run in a superstep to come (`LastIsPast`);
- the exceptions for barriers are as small as they are because only channels with a version are ever lists
  (`ListsHaveVersions`), so that a continue-as-new, which makes a list of every such barrier, takes none off `lists`.

What happens to the state is one of five things, whatever the action: `Start`, `WakeAfter`, an update, a commit, or a step
that leaves it alone (`StepKinds`). Each part of `History` is proved over these five. `Follows` says once what the writes
of a superstep do to a checkpoint, and `ApplyWritesFollows` and `ApplyResultsFollows` prove it of `apply_writes`.
`LimitHolds` uses the same five kinds: `run()` compares the limit with a counter that only starts where the run before ended.

### One superstep, and the refinement (`WorkflowSuperstepProofs`)

`Course` follows a superstep from its plan to its commit. `EveryChildReports` is about results that are complete, but
children report one by one while the loop over the results is still under way; so it is proved with which results the loop
has passed and whose children it waits for (`ChildrenAreServed`). Child ids are made of the step and a position in one
node's requests, so that they are distinct only because the loop serves one node at a time (`ChildrenOfOneNode`). For the
refinement, `Commit` of the abstract specification is enabled only when all planned nodes have an output, which is
`EveryTaskIsServed` at the end of the superstep, and an output must be of a node that was planned or reached
(`OnlyPlannedOrReached`). `SuperstepsImplemented` then maps `Start` to `Begin`, to `Plan` or to a stutter, `WakeAfter` to `Plan` or a stutter,
an update to `Update` or a stutter, a commit to `Commit`, and everything else to `Report` or a stutter. A commit that is
followed by a continue-as-new is a `Commit` when the checkpoint came through `Json` as it was, which `JsonIntact` says of
one without a barrier in `lists`.

### The client (`ClientProofs`)

A cursor counts in the buffer of the run it was taken in, and is used in any later one. What `DeliveredInOrder` needs is
not about the cursor alone: the supersteps of a new run come after everything that was received (`ReceivedIsPast`). Within a
run, the next event follows the last one received because either the cursor is just behind that one, or it is of an older
run (`CursorFollowsLast`). That "an older run" is what the property means by it rests on `RunsAreAligned`: a run that is continued
has executed exactly `Threshold` supersteps. `ReadsNeverGoBack` holds because what was read is never ahead of the
durable state (`SeenIsPast`), although what a query returns, `ck`, is reset by a continue-as-new: a query waits for the
first workflow task of the new run, and before that of a first run both are empty (`NothingBuiltYet`).

### Subgraphs and activities (`SubgraphsProofs`, `NodeActivityProofs`)

`NoReferenceLeaks` holds because the finally clause unregisters the reference of the coroutine that is torn down; that
is enough as long as a parent has a reference exactly while its coroutine is inside the node, also when it gets there in a replay.

The activity's properties are facts about payloads. A payload stands for a value (`StandsFor`) if no process can decode it
to anything else, now or after another step of the blob store; every offered, recorded or computed payload stands for the
value it was made from, which gives `NodesSeeTheirInput` and `ReplaysReadTheSame` for any mix of keys, codecs and stores.
`RequestsAreOfOneExecution` follows an execution's list from the moment its context variable is set. `NoAttemptAfterTheLast`
needs that all attempts before the current one ended in something that may be retried (`AttemptsOK`); it says nothing of a
`retry_on` the activity does not ask.

### Affinity (`WorkerAffinityProofs`)

`NodesRunOnAWorkerQueue` depends on a fact about the coroutines together: the pin is missing only
while some coroutine looks for a new worker (`PinMissingOnlyInRediscovery`), at most one does at a time (`RediscoveryIsExclusive`), and only
one that lost an activity looks or retries (`OnlyLosersRetry`). A coroutine that finds the pin missing raises
instead of dispatching, which keeps nodes off the shared queue, and is also what `concurrent_loss` shows.

### Only model-checked

- Liveness, because TLAPS has neither fairness nor ENABLED here: `Terminates`, `FirstRunDelivered`, `Ends`, `ReferencesAreReleased`,
  `ReturnsWhileGraphIsKnown`, `ActivityEnds`.
- The runs that end with a counterexample.

The models have no recursive definition, so that nothing is left unproved for want of induction over data.

## Not modelled

- What the child workflow of a subgraph node does inside, in `LangGraphWorkflow`: one step that ends with writes. (`Subgraphs`
  has its steps, and no data.) The same for sub-agents: their run is one step that ends with a message, or a failure
  turned into one. A child is a `LangGraphWorkflow` with another graph, for which the other runs stand.
- On which task queue a subgraph's child runs its activities: its input carries no affinity.
- Effects of node code outside the state: they may happen once per attempt. The overlay of a task's own writes on what
  `read_handler` reads.
- `stream_mode`: it filters the kinds of event, and the model has one entry for the kinds together.
- A second `ainvoke` of a thread whose workflow is still there: what happens is decided by Temporal's id reuse policy.
- Registration of the graph's metadata (`extract_graph_metadata`), the registry's lock, the local test server, serializer, metrics
  and tools: conversions, counters and wrappers (see the components in `PROJECT.json`).
- `evaluate_conditional_edge` and `_resolve_conditional_edges`: nothing calls them.

## Plan

Built, in this order, by importance: `Pregel` and `LangGraphWorkflow` (supersteps, signals, continue-as-new), their
proofs, `WorkerAffinity` and its proofs, `Client` (first its stream), `Supersteps` and the refinement, `Subgraphs`,
`PayloadCodec` and `NodeActivity`, `Client`'s reads.

The proofs: the workflow's types and pauses, affinity, `Subgraphs`, `NodeActivity`, then the workflow's state over supersteps and
runs, the course of a superstep with the refinement, and the client.

Next:

1. Properties for the hazards that have none (see "hazards" in `PROJECT.json`), where the code promises something: an update
   of a trigger channel while the node it triggers runs, and what a plan made before an `interrupt_before` is worth afterwards.
2. What `Supersteps` itself implies, stated there and inherited through the refinement, in place of facts proved of the workflow.
3. Safety halves of the liveness properties: when a workflow has stopped, why it has.
