----------------------------- MODULE NodeActivity -----------------------------
(***************************************************************************)
(* The activity of one node, from the workflow task that schedules it to   *)
(* those that read its result: the attempts Temporal makes, the executions *)
(* of activities.py they start, and the payloads that go through codecs.   *)
(*                                                                         *)
(* An execution is named by its attempt.  Its process may crash, and       *)
(* Temporal may give the attempt up and make the next one while the        *)
(* execution goes on: nothing in the process stops it.  Executions of one  *)
(* activity may overlap, in one process or in several.                     *)
(***************************************************************************)
EXTENDS PayloadCodec, Sequences

CONSTANTS
  Process,        \* worker processes on the node's task queue
  Deployments,    \* how they may be set up: Process -> Setup, and the blob store used
  Policies,       \* retry policies and options the node may have
  MaxAttempts,    \* bound: attempts
  MaxRequests,    \* bound: child workflow requests of one execution
  MaxCrashes      \* bound: crashes

Attempt == 1..MaxAttempts

\* `shared': one blob store for all, or InMemoryBlobStore, one in each process.
Deployment == [setup : [Process -> Setup], shared : BOOLEAN]

\* The node's retry_on, which refuses "permanent" exceptions if there is one: "predicate" is
\* a function that getattr(policy, "retry_on") finds; "unasked" one that the activity does
\* not find (a compiled node holds a tuple of policies) or that tells it nothing (a sequence
\* of exception types is not callable, and calling one exception type makes an exception).
RetryOn == {"none", "predicate", "unasked"}

\* max: max_attempts (0 is unlimited).  deadline: a schedule_to_close_timeout is set.
Policy == [max : Nat, retryOn : RetryOn, deadline : BOOLEAN]

ASSUME ActivityAssumption ==
  /\ Deployments \subseteq Deployment
  /\ Policies \subseteq Policy
  /\ {MaxAttempts, MaxRequests, MaxCrashes} \subseteq Nat
  /\ \A m \in Policies : m.max <= MaxAttempts

VARIABLES
  deployment,   \* how the processes are set up
  policy,       \* the node's retry policy and options
  up,           \* the processes that run
  offered,      \* the input a process has encoded and not yet sent, and the process
  act,          \* the server's record of the activity
  run,          \* attempt -> its execution
  lists,        \* attempt -> _child_workflow_requests_var of its context
  blobs,        \* the blobs kept: id -> content and the process that put it
  made,         \* ids made so far
  got,          \* what the workflow read as the node's result
  answered,     \* attempt -> what the server took for its outcome
  crashes

server == <<act, answered>>
worker == <<run, lists>>
store == <<blobs, made>>
setting == <<deployment, policy>>
vars == <<setting, up, offered, server, worker, store, got, crashes>>

\* What is encoded: the node's input, or what an execution returns.  `requests' holds
\* for each child workflow request the execution that made it.
Input == [by |-> 0, kind |-> "input", requests |-> <<>>]
Output == [by : Attempt, kind : {"value", "interrupt"}, requests : Seq(Attempt)]
Content == Output \cup {Input}

Activity ==
  [status : {"none", "scheduled", "started", "completed", "failed"}, attempt : 0..MaxAttempts,
   input : Payload(Content) \cup {None}, result : Payload(Content) \cup {None}]

Error == {"transient", "permanent"}

Execution ==
  [stage : {"none", "started", "running", "encoding", "encoded", "raised"},
   at : Process \cup {None}, input : Content \cup {None}, output : Content \cup {None},
   payload : Payload(Content) \cup {None}, error : Error \cup {None}, final : BOOLEAN]

NoExecution ==
  [stage |-> "none", at |-> None, input |-> None, output |-> None, payload |-> None,
   error |-> None, final |-> FALSE]

Outcome == {"none", "value", "interrupt", "timeout"} \cup Error

TypeOK ==
  /\ deployment \in Deployments /\ policy \in Policies
  /\ up \subseteq Process
  /\ offered \in [at : Process, payload : Payload(Content)] \cup {None}
  /\ act \in Activity
  /\ run \in [Attempt -> Execution]
  /\ lists \in [Attempt -> Seq(Attempt)]
  /\ made \in Nat /\ DOMAIN blobs \subseteq 1..made
  /\ \A i \in DOMAIN blobs : blobs[i] \in [content : Content, at : Process]
  /\ got \in Output \cup {None}
  /\ answered \in [Attempt -> Outcome]
  /\ crashes \in 0..MaxCrashes

Init ==
  /\ deployment \in Deployments /\ policy \in Policies
  /\ up = Process /\ offered = None
  /\ act = [status |-> "none", attempt |-> 0, input |-> None, result |-> None]
  /\ run = [k \in Attempt |-> NoExecution]
  /\ lists = [k \in Attempt |-> <<>>]
  /\ blobs = <<>> /\ made = 0
  /\ got = None
  /\ answered = [k \in Attempt |-> "none"]
  /\ crashes = 0

-----------------------------------------------------------------------------
(***************************************************************************)
(* Encoding and decoding by a process.                                     *)
(***************************************************************************)
SetupOf(p) == deployment.setup[p]

\* Bug: blobs are named after the node.
BugBlobOfNode == 1

\* A blob's name is random.
NewBlob == made + 1

\* Bug: put is not awaited: a crash may come first.
BugPutNotAwaited(p, v) == made' = made + 1 /\ UNCHANGED blobs

Put(p, v) ==
  /\ blobs' = [i \in DOMAIN blobs \cup {NewBlob} |->
                 IF i = NewBlob THEN [content |-> v, at |-> p] ELSE blobs[i]]
  /\ made' = made + 1

\* encode stores what it offloads before it returns the reference.
Store(p, v, large) ==
  IF Offloads(SetupOf(p), large) THEN Put(p, v) ELSE UNCHANGED store

Encode(p, v, large) == Encoded(SetupOf(p), v, large, NewBlob)

InReach(p) == {i \in DOMAIN blobs : deployment.shared \/ blobs[i].at = p}

Decode(p, payload) ==
  Decoded(SetupOf(p), [i \in InReach(p) |-> blobs[i].content], payload)

-----------------------------------------------------------------------------
(***************************************************************************)
(* The workflow's side: _dispatch_activity, on whatever process runs the   *)
(* workflow task.                                                          *)
(***************************************************************************)
EncodeInput(p) ==
  /\ act.status = "none" /\ offered = None /\ p \in up
  /\ \E large \in BOOLEAN :
       /\ Store(p, Input, large)
       /\ offered' = [at |-> p, payload |-> Encode(p, Input, large)]
  /\ UNCHANGED <<setting, up, server, worker, got, crashes>>

Schedule ==
  /\ offered # None
  /\ act' = [act EXCEPT !.status = "scheduled", !.input = offered.payload]
  /\ offered' = None
  /\ UNCHANGED <<setting, up, answered, worker, store, got, crashes>>

\* The result is read when it comes, and again whenever the workflow is replayed.
ReadResult(p) ==
  /\ act.status = "completed" /\ p \in up
  /\ \E v \in Decode(p, act.result) : got' = v
  /\ UNCHANGED <<setting, up, offered, server, worker, store, crashes>>

-----------------------------------------------------------------------------
(***************************************************************************)
(* The server.                                                             *)
(***************************************************************************)

\* Bug: the node's max_attempts is not passed on.
BugUnlimited == TRUE

\* max_attempts as _to_temporal_retry_policy passes it.
AttemptsLeft == policy.max = 0 \/ act.attempt < policy.max

StartAttempt(p) ==
  /\ act.status = "scheduled" /\ p \in up /\ act.attempt < MaxAttempts
  /\ act' = [act EXCEPT !.status = "started", !.attempt = @ + 1]
  /\ run' = [run EXCEPT ![act.attempt + 1] = [NoExecution EXCEPT !.stage = "started", !.at = p]]
  /\ UNCHANGED <<setting, up, offered, answered, lists, store, got, crashes>>

Current(k) == act.status = "started" /\ act.attempt = k

\* An attempt failed.
GiveUp(k, outcome, final) ==
  /\ act' = [act EXCEPT !.status = IF final \/ ~AttemptsLeft THEN "failed" ELSE "scheduled"]
  /\ answered' = [answered EXCEPT ![k] = outcome]

\* start_to_close_timeout, or a heartbeat timeout.  The execution is not told.
TimeOut ==
  /\ act.status = "started"
  /\ GiveUp(act.attempt, "timeout", FALSE)
  /\ UNCHANGED <<setting, up, offered, worker, store, got, crashes>>

\* schedule_to_close_timeout
Expire ==
  /\ policy.deadline /\ act.status \in {"scheduled", "started"}
  /\ act' = [act EXCEPT !.status = "failed"]
  /\ UNCHANGED <<setting, up, offered, answered, worker, store, got, crashes>>

-----------------------------------------------------------------------------
(***************************************************************************)
(* An execution.                                                           *)
(***************************************************************************)

\* Bug: the list of requests belongs to the process.
BugListOfProcess(k) ==
  CHOOSE j \in Attempt : run[j].at = run[k].at /\ \A i \in 1..(j - 1) : run[i].at # run[k].at

\* Every execution has a context of its own.
ListOf(k) == k

\* The input is decoded; _execute_node_impl sets the context variable to a new list.
StartNode(k) ==
  /\ run[k].stage = "started"
  /\ \E v \in Decode(run[k].at, act.input) :
       run' = [run EXCEPT ![k].stage = "running", ![k].input = v]
  /\ lists' = [lists EXCEPT ![ListOf(k)] = <<>>]
  /\ UNCHANGED <<setting, up, offered, server, store, got, crashes>>

\* The input cannot be decoded, which retry_on is not asked about.
RefuseInput(k) ==
  /\ run[k].stage = "started" /\ Decode(run[k].at, act.input) = {}
  /\ run' = [run EXCEPT ![k].stage = "raised", ![k].error = "transient"]
  /\ UNCHANGED <<setting, up, offered, server, lists, store, got, crashes>>

\* Middleware in the node asks for a child workflow.
Request(k) ==
  /\ run[k].stage = "running" /\ Len(lists[ListOf(k)]) < MaxRequests
  /\ lists' = [lists EXCEPT ![ListOf(k)] = Append(@, k)]
  /\ UNCHANGED <<setting, up, offered, server, run, store, got, crashes>>

\* Bug: the predicate is not asked.
BugPredicateIgnored(e) == FALSE

\* Only a predicate that the lookup finds is asked about an exception.
NonRetryable(e) == policy.retryOn = "predicate" /\ e = "permanent"

Raise(k, e) ==
  run' = [run EXCEPT ![k].stage = "raised", ![k].error = e, ![k].final = NonRetryable(e)]

\* Bug: GraphInterrupt is caught with the other exceptions.
BugInterruptRaised(k) == Raise(k, "interrupt")

\* GraphInterrupt: an output like another, without writes and requests.
Interrupt(k) ==
  run' = [run EXCEPT ![k].stage = "encoding",
                     ![k].output = [by |-> k, kind |-> "interrupt", requests |-> <<>>]]

\* The node and its writers are through.
Return(k) ==
  run' = [run EXCEPT ![k].stage = "encoding",
                     ![k].output = [by |-> k, kind |-> "value", requests |-> lists[ListOf(k)]]]

NodeEnds(k) ==
  /\ run[k].stage = "running"
  /\ Return(k) \/ Interrupt(k) \/ \E e \in Error : Raise(k, e)
  /\ UNCHANGED <<setting, up, offered, server, lists, store, got, crashes>>

EncodeOutput(k) ==
  /\ run[k].stage = "encoding"
  /\ \E large \in BOOLEAN :
       /\ Store(run[k].at, run[k].output, large)
       /\ run' = [run EXCEPT ![k].stage = "encoded",
                             ![k].payload = Encode(run[k].at, run[k].output, large)]
  /\ UNCHANGED <<setting, up, offered, server, lists, got, crashes>>

\* The result or the failure reaches the server, which takes it only if it waits for it.
Report(k) ==
  /\ run[k].stage \in {"encoded", "raised"}
  /\ run' = [run EXCEPT ![k] = NoExecution]
  /\ \/ ~Current(k) /\ UNCHANGED server
     \/ /\ Current(k) /\ run[k].stage = "encoded"
        /\ act' = [act EXCEPT !.status = "completed", !.result = run[k].payload]
        /\ answered' = [answered EXCEPT ![k] = run[k].output.kind]
     \/ /\ Current(k) /\ run[k].stage = "raised"
        /\ GiveUp(k, run[k].error, run[k].final)
  /\ UNCHANGED <<setting, up, offered, lists, store, got, crashes>>

-----------------------------------------------------------------------------
Crash(p) ==
  /\ p \in up /\ crashes < MaxCrashes
  /\ up' = up \ {p} /\ crashes' = crashes + 1
  /\ run' = [k \in Attempt |-> IF run[k].at = p THEN NoExecution ELSE run[k]]
  /\ blobs' = [i \in {i \in DOMAIN blobs : deployment.shared \/ blobs[i].at # p} |-> blobs[i]]
  /\ offered' = IF offered # None /\ offered.at = p THEN None ELSE offered
  /\ UNCHANGED <<setting, server, lists, made, got>>

Restart(p) ==
  /\ p \notin up
  /\ up' = up \cup {p}
  /\ UNCHANGED <<setting, offered, server, worker, store, got, crashes>>

\* The activity is over, or has had as many attempts as the model follows.
Stay ==
  /\ act.status \in {"completed", "failed"} \/ act.attempt = MaxAttempts
  /\ UNCHANGED vars

Work(k) ==
  StartNode(k) \/ RefuseInput(k) \/ NodeEnds(k) \/ EncodeOutput(k) \/ Report(k)

Next ==
  \/ \E p \in Process :
       EncodeInput(p) \/ ReadResult(p) \/ StartAttempt(p) \/ Crash(p) \/ Restart(p)
  \/ Schedule \/ TimeOut \/ Expire
  \/ \E k \in Attempt : Work(k) \/ Request(k)
  \/ Stay

\* Workers poll and are restarted; timeouts come.  That node code ends is not assumed.
Fairness ==
  /\ WF_vars(\E p \in Process : EncodeInput(p)) /\ WF_vars(Schedule)
  /\ WF_vars(\E p \in Process : StartAttempt(p)) /\ WF_vars(TimeOut)
  /\ WF_vars(\E p \in Process : Restart(p))
  /\ WF_vars(Expire)

Spec == Init /\ [][Next]_vars /\ Fairness

-----------------------------------------------------------------------------
(***************************************************************************)
(* Properties.                                                             *)
(***************************************************************************)

\* Node code runs on the input the workflow passed or not at all, whichever codec and key
\* the workflow's process and the worker's have, and whatever became of the blobs.
NodesSeeTheirInput ==
  \A k \in Attempt : run[k].stage \in {"running", "encoding", "encoded"} => run[k].input = Input

\* The requests an output carries are those its own execution made: none of an execution
\* that Temporal gave up and that runs on next to it, in the same process.
RequestsAreOfOneExecution ==
  \A k \in Attempt : run[k].output # None =>
    \A i \in 1..Len(run[k].output.requests) : run[k].output.requests[i] = k

\* With a store that all processes share, whatever was recorded can be fetched for good,
\* although a process may crash at any point of an offload.
Recorded == {act.input, act.result} \ {None}
NoDanglingReference ==
  deployment.shared => \A p \in Recorded : p.enc = "blob" => p.key \in DOMAIN blobs

\* Every replay of the workflow reads the result it read first, although executions that
\* were given up go on and store theirs.
ReplaysReadTheSame == [][got # None => got' = got]_vars

\* No attempt follows one whose outcome the server took as returned, as interrupted, or as an
\* exception which a predicate that the activity finds refuses.
NoAttemptAfterTheLast ==
  \A k \in Attempt : k < act.attempt =>
    answered[k] \in {"transient", "timeout"}
                      \cup (IF policy.retryOn = "predicate" THEN {} ELSE {"permanent"})

\* An activity with a maximum of attempts or a schedule_to_close_timeout ends, although
\* workers crash, hang, or cannot read its input.
ActivityEnds ==
  (policy.max > 0 \/ policy.deadline) ~> act.status \in {"completed", "failed"}
=============================================================================
