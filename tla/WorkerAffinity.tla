---------------------------- MODULE WorkerAffinity ----------------------------
(***************************************************************************)
(* Where a workflow's node activities run when it asks for worker affinity *)
(* (workflow.py), on the worker processes of worker.py, each with the      *)
(* GraphRegistry of converter.py in its memory.                            *)
(*                                                                         *)
(* A worker process polls two queues: the shared one, for workflow tasks   *)
(* and get_available_task_queue, and its own, for node activities.  The    *)
(* workflow is pinned to one process' own queue.  When an activity fails   *)
(* there, the coroutine that waits for it forgets the pin, asks for        *)
(* another queue and tries once more; the coroutines of the superstep's    *)
(* other nodes share the pin.                                              *)
(*                                                                         *)
(* What the nodes compute is left out (see LangGraphWorkflow): a superstep *)
(* is any set of nodes, and any superstep may be the last.                 *)
(***************************************************************************)
EXTENDS Naturals

CONSTANTS
  Process,         \* worker processes
  Node,            \* the graph's nodes
  NodeQueue,       \* node_task_queues: node -> a queue, or None
  Timed,           \* nodes with a schedule_to_close_timeout in their options
  MayFail,         \* nodes that may fail with no retry left
  QueueFile,       \* processes started with a worker_queue_file
  None,            \* no queue
  Shared,          \* the shared task queue
  Threshold,       \* CONTINUE_AS_NEW_THRESHOLD
  MaxSupersteps,   \* bound: supersteps over all runs
  MaxCrashes       \* bound: crashes of processes

\* _resolve_worker_queue makes a new name for each start without a queue file.
WorkerQueue == [of : Process, start : Nat]
Queue == WorkerQueue \cup {Shared}

ASSUME AffinityAssumption ==
  /\ None \notin Queue /\ Shared \notin WorkerQueue
  /\ NodeQueue \in [Node -> {None, Shared}]
  /\ Timed \subseteq Node /\ MayFail \subseteq Node /\ QueueFile \subseteq Process
  /\ Threshold \in Nat \ {0} /\ MaxSupersteps \in Nat /\ MaxCrashes \in Nat

VARIABLES
  up,          \* processes that run
  start,       \* process -> the start it took its queue name at
  registered,  \* processes whose GraphRegistry holds the reference the workflow was
               \* started with: the client's, and what was forked from it
  pc,          \* "start", "discovering", "superstep", "closed", "failed" or "stuck"
  sticky,      \* self._sticky_task_queue
  carried,     \* input.sticky_task_queue
  co,          \* node -> its _execute_single_activity: "idle", "first" attempt,
               \* "rediscover", "second" attempt or "done"
  queue,       \* node -> the queue its activity was last dispatched to
  done,        \* supersteps over all runs
  crashes,
  errors       \* node -> ActivityErrors in this superstep; the properties refer to it

processes == <<up, start, registered, crashes>>
workflow == <<pc, sticky, carried, co, queue, done, errors>>
vars == <<processes, workflow>>

Ended == {"closed", "failed", "stuck"}
Attempt == {"first", "second"}

QueueOf(p) == [of |-> p, start |-> start[p]]

\* Workflow code runs on a process whose registry has the graph: run() looks it
\* up, on every replay, and its KeyError fails the workflow task.
WorkflowRuns == up \cap registered # {}

\* A node activity ends well on the process that polls its queue, if that process
\* has the graph.
Serves(q) == \E p \in up \cap registered : QueueOf(p) = q

-----------------------------------------------------------------------------
\* _task_queue_for_node: the pin, then the node's own queue, then the default.
TaskQueueForNode(pin, n) ==
  IF pin # None THEN pin ELSE IF NodeQueue[n] # None THEN NodeQueue[n] ELSE Shared

\* _execute_nodes with a given pin.
Superstep(pin) ==
  \E ns \in (SUBSET Node) \ {{}} :
    /\ pc' = "superstep"
    /\ sticky' = pin
    /\ co' = [n \in Node |-> IF n \in ns THEN "first" ELSE "idle"]
    /\ queue' = [n \in Node |-> IF n \in ns THEN TaskQueueForNode(pin, n) ELSE None]
    /\ errors' = [n \in Node |-> 0]

Init ==
  /\ up = Process /\ start = [p \in Process |-> 0] /\ crashes = 0
  /\ registered \in (SUBSET Process) \ {{}}
  /\ pc = "start"
  /\ sticky = None
  /\ carried \in {None} \cup {QueueOf(p) : p \in Process}
  /\ co = [n \in Node |-> "idle"] /\ queue = [n \in Node |-> None]
  /\ done = 0 /\ errors = [n \in Node |-> 0]

\* run(): discover a queue, unless one came with the input.
Start ==
  /\ pc = "start" /\ WorkflowRuns
  /\ \/ /\ carried = None
        /\ pc' = "discovering"
        /\ UNCHANGED <<sticky, co, queue, errors>>
     \/ /\ carried # None
        /\ Superstep(carried)
  /\ UNCHANGED <<processes, carried, done>>

\* get_available_task_queue, on whichever process takes it from the shared queue.
Discover(p) ==
  /\ pc = "discovering" /\ p \in up /\ WorkflowRuns
  /\ Superstep(QueueOf(p))
  /\ UNCHANGED <<processes, carried, done>>

Complete(n) ==
  /\ pc = "superstep" /\ co[n] \in Attempt /\ Serves(queue[n]) /\ WorkflowRuns
  /\ co' = [co EXCEPT ![n] = "done"]
  /\ UNCHANGED <<processes, pc, sticky, carried, queue, done, errors>>

\* Bug: the retry is dispatched without the schedule_to_close_timeout.
BugRetryUntimed(n) == n \in Timed /\ co[n] = "first"

\* Without a schedule_to_close_timeout an activity waits for its queue to be polled.
TimesOut(n) == n \in Timed

\* Bug: an ActivityError is passed on although there is a pin to give up.
BugNoFallback == FALSE

\* The except clause of _dispatch_activity.
FallsBack == sticky # None

\* Bug: the activity is dispatched again without waiting for the new queue.
BugDoNotWait(n) ==
  /\ co' = [co EXCEPT ![n] = "second"]
  /\ queue' = [queue EXCEPT ![n] = TaskQueueForNode(None, n)]

\* _rediscover_worker, up to its await.
AskForWorker(n) == co' = [co EXCEPT ![n] = "rediscover"] /\ UNCHANGED queue

\* An activity ends with an ActivityError.
ActivityFails(n) ==
  /\ pc = "superstep" /\ co[n] \in Attempt /\ WorkflowRuns
  /\ TimesOut(n) \/ (n \in MayFail /\ Serves(queue[n]))
  /\ errors' = [errors EXCEPT ![n] = @ + 1]
  /\ \/ /\ ~FallsBack                          \* raise: the workflow fails
        /\ pc' = "failed"
        /\ UNCHANGED <<sticky, co, queue>>
     \/ /\ FallsBack /\ co[n] = "first"
        /\ sticky' = None
        /\ AskForWorker(n)
        /\ UNCHANGED pc
     \/ /\ FallsBack /\ co[n] = "second"       \* RuntimeError in workflow code
        /\ pc' = "stuck"
        /\ UNCHANGED <<sticky, co, queue>>
  /\ UNCHANGED <<processes, carried, done>>

\* The rest of _rediscover_worker, and the second attempt.
Rediscover(n, p) ==
  /\ pc = "superstep" /\ co[n] = "rediscover" /\ p \in up /\ WorkflowRuns
  /\ sticky' = QueueOf(p)
  /\ co' = [co EXCEPT ![n] = "second"]
  /\ queue' = [queue EXCEPT ![n] = TaskQueueForNode(QueueOf(p), n)]
  /\ UNCHANGED <<processes, pc, carried, done, errors>>

\* Bugs: the new run has to discover a queue again, or takes the shared one for its own.
BugPinNotCarried == None
BugSharedQueueCarried == Shared

PinForNewRun == sticky

\* The superstep is over: the run ends, continues as a new one, or goes on.
EndSuperstep ==
  /\ pc = "superstep" /\ (\A n \in Node : co[n] \in {"idle", "done"}) /\ WorkflowRuns
  /\ done' = done + 1
  /\ \/ /\ pc' = "closed"
        /\ UNCHANGED <<sticky, carried, co, queue, errors>>
     \/ /\ done' < MaxSupersteps /\ done' % Threshold = 0
        /\ pc' = "start"
        /\ carried' = PinForNewRun
        /\ sticky' = None
        /\ co' = [n \in Node |-> "idle"] /\ queue' = [n \in Node |-> None]
        /\ errors' = [n \in Node |-> 0]
     \/ /\ done' < MaxSupersteps /\ done' % Threshold # 0
        /\ Superstep(sticky)
        /\ UNCHANGED carried
  /\ UNCHANGED processes

-----------------------------------------------------------------------------
\* A process dies, and its registry with it.
Crash(p) ==
  /\ p \in up /\ crashes < MaxCrashes
  /\ up' = up \ {p}
  /\ registered' = registered \ {p}
  /\ crashes' = crashes + 1
  /\ UNCHANGED <<start, workflow>>

\* It is started again: create_worker registers the graph under a new reference,
\* and takes the queue name from the file if there is one.
Restart(p) ==
  /\ p \notin up
  /\ up' = up \cup {p}
  /\ start' = IF p \in QueueFile THEN start ELSE [start EXCEPT ![p] = @ + 1]
  /\ UNCHANGED <<registered, crashes, workflow>>

\* The workflow ended, or what it waits for is up to no process that runs.
Waits == ~WorkflowRuns \/ \E n \in Node : co[n] \in Attempt /\ ~Serves(queue[n])
Stay == (pc \in Ended \/ Waits) /\ UNCHANGED vars

Next ==
  \/ Start \/ EndSuperstep
  \/ \E p \in Process : Discover(p) \/ Crash(p) \/ Restart(p)
  \/ \E n \in Node : Complete(n) \/ ActivityFails(n)
  \/ \E n \in Node, p \in Process : Rediscover(n, p)
  \/ Stay

Spec == Init /\ [][Next]_vars

\* Workers poll, timeouts fire, and processes that die are started again.
Fairness ==
  /\ WF_vars(Start) /\ WF_vars(EndSuperstep)
  /\ WF_vars(\E p \in Process : Discover(p))
  /\ \A n \in Node : WF_vars(Complete(n) \/ ActivityFails(n))
  /\ WF_vars(\E n \in Node, p \in Process : Rediscover(n, p))
  /\ WF_vars(\E p \in Process : Restart(p))

FairSpec == Spec /\ Fairness

-----------------------------------------------------------------------------
(***************************************************************************)
(* Properties.                                                             *)
(***************************************************************************)
TypeOK ==
  /\ up \subseteq Process /\ start \in [Process -> Nat] /\ registered \subseteq Process
  /\ pc \in {"start", "discovering", "superstep"} \cup Ended
  /\ sticky \in {None} \cup WorkerQueue /\ carried \in {None} \cup WorkerQueue
  /\ co \in [Node -> {"idle", "first", "rediscover", "second", "done"}]
  /\ queue \in [Node -> {None} \cup Queue]
  /\ done \in Nat /\ crashes \in Nat /\ errors \in [Node -> Nat]

\* All node activities go to a worker's own queue, never to the shared queue, where
\* nobody polls for them, although a coroutine takes the shared pin away from the
\* others while it looks for a new one.
NodesRunOnAWorkerQueue ==
  pc = "superstep" => \A n \in Node : co[n] \in Attempt => queue[n] \in WorkerQueue

\* One lost activity, whatever its cause, never ends the workflow.
OneLossIsSurvived ==
  pc \in {"failed", "stuck"} =>
    \E m, n \in Node : errors[m] > 0 /\ errors[n] > 0 /\ (m # n \/ errors[n] > 1)

\* A workflow keeps the worker it is pinned to, over supersteps and continue-as-new,
\* until an activity fails.
Pin == IF pc = "start" THEN carried ELSE sticky
PinLeftOnlyOnFailure ==
  [][Pin # None /\ Pin' # Pin => \E n \in Node : errors'[n] > errors[n]]_vars

\* With timeouts on every node, and as long as some process has the graph, the workflow
\* ends: no coroutine waits forever for a worker that is gone, or for one without the graph.
Ends == []WorkflowRuns => <>(pc \in Ended)

\* docs/guides/worker-affinity.md:91: when a pinned worker dies, the workflow discovers
\* another and retries the activity there.  So it fails only on an activity that failed
\* on its retry too.
FailsOnlyOnARetry ==
  pc \in {"failed", "stuck"} => \E n \in Node : errors[n] > 1

\* docs/guides/worker-affinity.md:87: a worker that is restarted with its queue file goes
\* on with the activities in flight.
ResumesAfterRestart == <>(pc \in Ended)
=============================================================================
