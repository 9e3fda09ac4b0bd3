-------------------------- MODULE LangGraphWorkflow --------------------------
(***************************************************************************)
(* The Temporal workflow class LangGraphWorkflow of workflow.py.           *)
(*                                                                         *)
(* A workflow runs on a cooperative event loop: between two awaits nothing *)
(* else happens, so an action is the code from one await to the next.  pc  *)
(* names the await the run method is suspended at:                         *)
(*   "pending"      not started, or discovering a worker queue             *)
(*   "before"       _wait_for_resume of interrupt_before                   *)
(*   "nodes"        the activities of the superstep's nodes                *)
(*   "children"     child workflows one result asked for                   *)
(*   "interrupted"  _wait_for_resume after a node called interrupt()       *)
(*   "resumed"      the re-execution of one interrupted node               *)
(*   "push"         the activities of the superstep's Sends                *)
(*   "goto"         the activities of the superstep's Command.goto targets *)
(*   "after"        _wait_for_resume of interrupt_after                    *)
(*   "closed"       returned; "failed" an activity failed for good;        *)
(*   "stuck"        an exception that fails the workflow task on every try *)
(* Signals are handled at any await.  A human (or several) answers pauses; *)
(* an answer may take any time to arrive and may be sent twice.            *)
(***************************************************************************)
EXTENDS Pregel, Sequences

CONSTANTS
  Rank,            \* node -> its place in sorted(tasks, key=path)
  StartChan,       \* graph.input_channels
  Messages,        \* the channel child workflow results are written to
  End,             \* a goto target that is no node of the graph ("__end__")
  Body,            \* node -> what one execution of it may return
  Interrupts,      \* node -> how many times its code calls interrupt()
  Subgraph,        \* nodes whose bound runnable is a graph itself
  SubgraphChan,    \* channels of this graph that such a graph has too
  MayFail,         \* nodes whose activity may fail with no retry left
  InterruptBefore, InterruptAfter,   \* input.interrupt_before / _after
  RecursionLimit,  \* input.recursion_limit
  Threshold,       \* CONTINUE_AS_NEW_THRESHOLD
  UpdateChan,      \* the channels update_state is used on
  MaxUpdates,      \* bound: update_state signals over all runs
  MaxAnswers       \* bound: resume signals sent in answer to one pause

\* What a node's execution returns: the channels it writes, the Sends
\* <<node, argument>> it emits, its Command.goto targets, and how many child
\* workflows it asks for.
NodeReturn ==
  [writes : SUBSET Chan, sends : SUBSET (Node \X Nat), gotos : SUBSET (Node \cup {End}),
   kids : Nat]

\* The channel of the resume values a node was given, which apply_writes skips.
Resume == "__resume__"

ASSUME WorkflowAssumption ==
  /\ End \notin Node /\ Resume \notin Chan
  /\ Rank \in [Node -> Nat] /\ \A m, n \in Node : Rank[m] = Rank[n] => m = n
  /\ StartChan \in Chan
  /\ Body \in [Node -> SUBSET NodeReturn]
  /\ Interrupts \in [Node -> Nat]
  /\ Subgraph \subseteq Node /\ SubgraphChan \subseteq Chan
  /\ MayFail \subseteq Node /\ InterruptBefore \subseteq Node /\ InterruptAfter \subseteq Node
  /\ RecursionLimit \in Nat /\ Threshold \in Nat \ {0}
  /\ UpdateChan \subseteq {c \in Chan : Kind[c] # "barrier"}
  /\ MaxUpdates \in Nat /\ MaxAnswers \in Nat

VARIABLES
  pc,            \* where run() is suspended
  input,         \* the WorkflowInput the current run was started with
  ck,            \* self.checkpoint and self.channels
  step,          \* self.step
  stepsInRun,    \* steps_in_this_run
  status,        \* self.status
  interrupts,    \* self.interrupts
  resumeValues,  \* self.resume_values
  resumeEvent,   \* self._resume_event.is_set()
  stream,        \* self.stream_buffer, the events of one superstep together
  tasks,         \* next_tasks
  inflight,      \* activities or child workflows the run method waits for
  todo,          \* tasks the current sequential loop has yet to reach
  results,       \* results
  mail,          \* resume signals under way
  \* The rest is no state of the program; the properties refer to it.
  pauses,        \* pauses so far, over all runs
  sent,          \* answers sent to the current pause
  updates,       \* the update_state signals handled so far, in order
  last           \* node -> its last execution: when, and whether it wrote

exec == <<tasks, inflight, todo, results>>
hitl == <<status, interrupts, resumeValues, resumeEvent, pauses, sent>>
state == <<ck, step, stepsInRun, stream, input>>
vars == <<pc, exec, hitl, state, mail, updates, last>>

\* An answer: the pause it was given to, and the pause during or after which it came.
Answer == [for : Nat, got : Nat]

\* An activity (or child workflow) execution.  `from' and `arg' tell the
\* Sends and gotos of different results apart; `resume' is the resume_values passed.
Task ==
  [kind : {"pull", "subgraph", "resume", "push", "goto", "child"}, node : Node \cup {End}, from : Node,
   arg : Nat, resume : Seq(Answer)]

\* NodeActivityOutput, with the task it came from.
Ran == {t \in Task : t.node \in Node}

Result ==
  [task : Ran, writes : SUBSET ((Chan \cup {Messages, Resume}) \X Nat), sends : SUBSET (Node \X Nat),
   gotos : SUBSET (Node \cup {End}), intr : BOOLEAN, kids : Nat]

Waiting == {"before", "interrupted", "after"}
Executing == {"nodes", "children", "resumed", "push", "goto"}
Ended == {"closed", "failed", "stuck"}

-----------------------------------------------------------------------------
(***************************************************************************)
(* The parts run() is put together from.  Each constrains the next state   *)
(* up to the next await; c and s are the checkpoint and step they see.     *)
(***************************************************************************)

\* Bug: values received before the pause count as answers to it.
BugOldAnswersKept == resumeEvent' = FALSE /\ UNCHANGED resumeValues

\* _wait_for_resume: a fresh event, no values, then wait.
ClearAnswers == resumeEvent' = FALSE /\ resumeValues' = <<>>

WaitForResume(at, what) ==
  /\ pc' = at
  /\ status' = "interrupted"
  /\ interrupts' = what
  /\ ClearAnswers
  /\ pauses' = pauses + 1
  /\ sent' = 0

\* Bugs: the status is not set back after a pause, or to none that clients know.
BugStatusLeftAlone == UNCHANGED status
BugUnknownStatus == status' = "resumed"

\* run() is on its way again: the last line of _wait_for_resume, or the line before the loop.
Running == status' = "running"

\* An await of activities or child workflows.
Await(at, ts) ==
  /\ pc' = at
  /\ inflight' = ts
  /\ Running
  /\ UNCHANGED <<interrupts, resumeValues, resumeEvent, pauses, sent>>

Nothing == inflight' = {} /\ todo' = {} /\ results' = {}

\* A node of the superstep: an activity, or a child workflow that runs its subgraph.
PullTask(n) ==
  [kind |-> IF n \in Subgraph THEN "subgraph" ELSE "pull", node |-> n, from |-> n, arg |-> 0,
   resume |-> <<>>]

\* Bug: the nodes interrupt_before paused for are left out when the workflow goes on.
BugPausedNodesSkipped(ns) ==
  /\ Await("nodes", {PullTask(n) : n \in ns \ InterruptBefore})
  /\ tasks' = ns \ InterruptBefore /\ todo' = {} /\ results' = {}

ExecuteNodes(ns) ==
  /\ Await("nodes", {PullTask(n) : n \in ns})
  /\ tasks' = ns /\ todo' = {} /\ results' = {}

\* Return: the loop ended, with no task left or at the recursion limit.
Return ==
  /\ pc' = "closed"
  /\ status' = "done"
  /\ tasks' = {} /\ Nothing
  /\ UNCHANGED <<interrupts, resumeValues, resumeEvent, pauses, sent>>

\* The head of the while loop.
Tick(c, s) ==
  LET ns == PrepareNextTasks(c) IN
  \/ /\ s >= RecursionLimit \/ ns = {}
     /\ Return
  \/ /\ s < RecursionLimit /\ ns # {} /\ ns \cap InterruptBefore # {}
     /\ WaitForResume("before", {<<n, "before">> : n \in ns})
     /\ tasks' = ns /\ Nothing
  \/ /\ s < RecursionLimit /\ ns # {} /\ ns \cap InterruptBefore = {}
     /\ ExecuteNodes(ns)

NextStep(c) == step + 1

\* Bug: the new run starts counting supersteps afresh.
BugStepNotCarried(c) == [data |-> FALSE, restored |-> TRUE, ck |-> Json(c), step |-> 0]

\* Bug: versions_seen is not part of the restored checkpoint.
BugSeenNotCarried(c) ==
  [data |-> FALSE, restored |-> TRUE, ck |-> [Json(c) EXCEPT !.seen = EmptyCheckpoint.seen],
   step |-> NextStep(c)]

\* Bug: the restored channels get new versions.
BugVersionsNotCarried(c) ==
  [data |-> FALSE, restored |-> TRUE, step |-> NextStep(c),
   ck |-> [Json(c) EXCEPT !.ver = EmptyCheckpoint.ver, !.top = EmptyCheckpoint.top]]

\* The input goes through Temporal's data converter.
NextInput(c) == [data |-> FALSE, restored |-> TRUE, ck |-> Json(c), step |-> NextStep(c)]

\* After a superstep: the next iteration, or a new run that restores c.
ContinueAsNew(c) ==
  /\ pc' = "pending"
  /\ input' = NextInput(c)
  /\ ck' = EmptyCheckpoint /\ step' = 0 /\ stepsInRun' = 0 /\ stream' = <<>>
  /\ status' = "pending" /\ interrupts' = {} /\ resumeValues' = <<>> /\ resumeEvent' = FALSE
  /\ tasks' = {} /\ Nothing
  /\ UNCHANGED <<pauses, sent>>

Advance(c, st) ==
  \/ /\ stepsInRun + 1 >= Threshold
     /\ ContinueAsNew(c)
  \/ /\ stepsInRun + 1 < Threshold
     /\ ck' = c /\ step' = NextStep(c) /\ stepsInRun' = stepsInRun + 1 /\ stream' = st
     /\ UNCHANGED input
     /\ Tick(c, NextStep(c))

\* Bug: what re-executed nodes write is forgotten.
BugResumedForgotten(rs) == {r \in rs : r.writes # {} /\ r.task.kind # "resume"}

\* Bug: the results of Sends are not added to those of the superstep.
BugSendsForgotten(rs) == {r \in rs : r.writes # {} /\ r.task.kind # "push"}

\* The results that wrote something.
Wrote(rs) == {r \in rs : r.writes # {}}

\* The tasks handed to apply_writes.
TaskWrites(rs) ==
  {[name |-> r.task.node, path |-> r.task, writes |-> r.writes,
    triggers |-> Triggers[r.task.node]] : r \in Wrote(rs)}

ApplyResults(rs) ==
  IF Wrote(rs) = {} THEN ck ELSE ApplyWrites(ck, TaskWrites(rs), step)

\* Bug: only the nodes the superstep was planned with are announced.
BugPushedNotStreamed(rs) == Append(stream, [step |-> step, nodes |-> tasks])

\* _emit_stream_events: a "values" event, and an "updates" event per writing result.
EmitStreamEvents(rs) ==
  Append(stream, [step |-> step, nodes |-> {r.task.node : r \in Wrote(rs)}])

Executed(rs) ==
  [n \in Node |->
     IF \E r \in rs : r.task.node = n
       THEN [at |-> step + 1, wrote |-> \E r \in rs : r.task.node = n /\ r.writes # {}]
       ELSE last[n]]

\* The end of a superstep.
FinishSuperstep(rs) ==
  \/ /\ Raises(ck, TaskWrites(rs), step)    \* an error in workflow code
     /\ pc' = "stuck"
     /\ UNCHANGED <<exec, hitl, state, last>>
  \/ /\ ~Raises(ck, TaskWrites(rs), step)
     /\ last' = Executed(rs)
     /\ \/ /\ tasks \cap InterruptAfter # {}
           /\ ck' = ApplyResults(rs)
           /\ stream' = EmitStreamEvents(rs)
           /\ WaitForResume("after", {<<n, "after">> : n \in tasks})
           /\ results' = rs /\ inflight' = {} /\ todo' = {}
           /\ UNCHANGED <<step, stepsInRun, input, tasks>>
        \/ /\ tasks \cap InterruptAfter = {}
           /\ Advance(ApplyResults(rs), EmitStreamEvents(rs))

\* Command.goto targets run in the same superstep.
GotoTasks(rs) ==
  UNION {{[kind |-> "goto", node |-> n, from |-> r.task.from, arg |-> r.task.arg,
           resume |-> <<>>] : n \in r.gotos} : r \in rs}

AfterPush(rs) ==
  \/ /\ GotoTasks(rs) = {}
     /\ FinishSuperstep(rs)
  \/ /\ GotoTasks(rs) # {}
     /\ Await("goto", GotoTasks(rs))
     /\ results' = rs /\ todo' = {}
     /\ UNCHANGED <<tasks, state, last>>

\* Sends run in the same superstep.
PushTasks(rs) ==
  UNION {{[kind |-> "push", node |-> s[1], from |-> r.task.node, arg |-> s[2],
           resume |-> <<>>] : s \in r.sends} : r \in rs}

AfterResume(rs) ==
  \/ /\ PushTasks(rs) = {}
     /\ AfterPush(rs)
  \/ /\ PushTasks(rs) # {}
     /\ Await("push", PushTasks(rs))
     /\ results' = rs /\ todo' = {}
     /\ UNCHANGED <<tasks, state, last>>

Interrupted(rs) == {r \in rs : r.intr}

\* Bug: the workflow pauses only when every node of the superstep is interrupted.
BugPauseIfAllInterrupted(rs) == Interrupted(rs) = rs

MustPause(rs) == Interrupted(rs) # {}

\* Pause once, for all the nodes of the superstep that called interrupt().
AfterChildren(rs) ==
  \/ /\ ~MustPause(rs)
     /\ AfterResume(rs)
  \/ /\ MustPause(rs)
     /\ WaitForResume("interrupted", {<<r.task.node, "node">> : r \in Interrupted(rs)})
     /\ results' = rs /\ inflight' = {} /\ todo' = {}
     /\ UNCHANGED <<tasks, state, last>>

\* The task a sequential loop comes to first: the least in path order.
First(ts) == {t \in ts : \A u \in ts : Rank[t.node] <= Rank[u.node]}

Children(r) ==
  {[kind |-> "child", node |-> r.task.node, from |-> r.task.node, arg |-> i, resume |-> <<>>] :
     i \in 1..r.kids}

\* Bug: the requests of all results are dispatched together.
BugAllChildrenAtOnce(rs, t) == UNION {Children(r) : r \in rs}

ChildrenOf(rs, t) == UNION {Children(r) : r \in {r \in rs : r.task = t}}

\* Bugs: the loop serves the first result only, or does not move on.
BugFirstOnly(rest, t) == {}
BugSameAgain(rest, t) == rest

Later(rest, t) == rest \ {t}

\* _process_child_workflow_requests: one result after another, the requests of one
\* result together.
ProcessChildren(rs, rest) ==
  \/ /\ rest = {}
     /\ AfterChildren(rs)
  \/ \E t \in First(rest) :
       /\ Await("children", ChildrenOf(rs, t))
       /\ todo' = Later(rest, t)
       /\ results' = rs
       /\ UNCHANGED <<tasks, state, last>>

-----------------------------------------------------------------------------
Init ==
  /\ pc = "pending"
  /\ input \in [data : BOOLEAN, restored : {FALSE}, ck : {EmptyCheckpoint}, step : {0}]
  /\ ck = EmptyCheckpoint /\ step = 0 /\ stepsInRun = 0
  /\ status = "pending" /\ interrupts = {} /\ resumeValues = <<>> /\ resumeEvent = FALSE
  /\ stream = <<>>
  /\ tasks = {} /\ inflight = {} /\ todo = {} /\ results = {}
  /\ mail = {} /\ pauses = 0 /\ sent = 0 /\ updates = <<>>
  /\ last = [n \in Node |-> [at |-> 0, wrote |-> FALSE]]

InputWrites ==
  {[name |-> "__input__", path |-> "__input__", writes |-> {<<StartChan, 0>>}, triggers |-> {}]}

\* Bug: a restored run takes every version for one its nodes have seen.
BugRestoredAsSeen ==
  IF input.restored THEN [input.ck EXCEPT !.seen = [n \in Node |-> input.ck.ver]]
  ELSE IF input.data THEN ApplyWrites(EmptyCheckpoint, InputWrites, 0) ELSE EmptyCheckpoint

\* What the first segment of run() builds, over whatever the instance held.
Restored ==
  IF input.restored THEN input.ck
  ELSE IF input.data THEN ApplyWrites(EmptyCheckpoint, InputWrites, 0) ELSE EmptyCheckpoint

RestoredStep == IF input.restored THEN input.step ELSE 0

\* run(), up to its first await after the channels are there.
Start ==
  /\ pc = "pending"
  /\ ck' = Restored /\ step' = RestoredStep /\ stepsInRun' = 0
  /\ Tick(Restored, RestoredStep)
  /\ UNCHANGED <<stream, input, mail, updates, last>>

\* An activity returns.  A node that calls interrupt() more often than it was
\* given values is interrupted; otherwise it returns one of its outcomes, and an
\* interrupt() that returned has sent the values it was given among the node's writes.
Resumes(t) == IF t.kind = "resume" THEN {<<Resume, 0>>} ELSE {}

Returned(t, b) ==
  [task |-> t, writes |-> {<<c, 0>> : c \in b.writes} \cup Resumes(t), sends |-> b.sends,
   gotos |-> b.gotos, intr |-> FALSE, kids |-> b.kids]

InterruptOutput(t) ==
  [task |-> t, writes |-> {}, sends |-> {}, gotos |-> {}, intr |-> TRUE, kids |-> 0]

Outputs(t) ==
  IF Len(t.resume) < Interrupts[t.node]
    THEN {InterruptOutput(t)}
    ELSE {Returned(t, b) : b \in Body[t.node]}

CompleteActivity(t) ==
  /\ t \in inflight /\ t.kind \notin {"child", "subgraph"} /\ t.node # End
  /\ \E r \in Outputs(t) : results' = results \cup {r}
  /\ inflight' = inflight \ {t}
  /\ UNCHANGED <<pc, tasks, todo, hitl, state, mail, updates, last>>

\* The child workflow of a subgraph node ends.  Its channel values are the node's writes;
\* the node's own writers do not run, and interrupt() in a node of it paused the child only.
SubgraphOutput(t, b) ==
  [task |-> t, writes |-> {<<c, 0>> : c \in b.writes \cap SubgraphChan}, sends |-> {},
   gotos |-> {}, intr |-> FALSE, kids |-> 0]

CompleteSubgraph(t) ==
  /\ t \in inflight /\ t.kind = "subgraph" /\ t.node # End
  /\ \E b \in Body[t.node] : results' = results \cup {SubgraphOutput(t, b)}
  /\ inflight' = inflight \ {t}
  /\ UNCHANGED <<pc, tasks, todo, hitl, state, mail, updates, last>>

\* An activity or a subgraph's workflow fails for good: its error leaves run() and fails
\* the workflow.
FailActivity(t) ==
  /\ t \in inflight /\ t.kind # "child" /\ t.node \in MayFail
  /\ pc' = "failed"
  /\ UNCHANGED <<exec, hitl, state, mail, updates, last>>

\* A child workflow ends; its result, or its failure, becomes a message the
\* result that asked for it writes.
CompleteChild(t) ==
  /\ t \in inflight /\ t.kind = "child"
  /\ results' = {IF r.task.node = t.node
                   THEN [r EXCEPT !.writes = @ \cup {<<Messages, t.arg>>}] ELSE r : r \in results}
  /\ inflight' = inflight \ {t}
  /\ UNCHANGED <<pc, tasks, todo, hitl, state, mail, updates, last>>

\* _execute_nodes returns.
NodesReturn ==
  /\ pc = "nodes" /\ inflight = {}
  /\ ProcessChildren(results, {r.task : r \in {r \in results : r.kids > 0}})
  /\ UNCHANGED <<mail, updates>>

\* The gather over one result's children returns.
ChildrenReturn ==
  /\ pc = "children" /\ inflight = {}
  /\ ProcessChildren(results, todo)
  /\ UNCHANGED <<mail, updates>>

ResumeTask(t) == [t EXCEPT !.kind = "resume", !.resume = resumeValues]

ExecuteResumed(rs, rest) ==
  \E t \in First(rest) :
    /\ Await("resumed", {ResumeTask(t)})
    /\ todo' = Later(rest, t)
    /\ results' = rs
    /\ UNCHANGED <<tasks, state, last>>

ResumedReturn ==
  /\ pc = "resumed" /\ inflight = {}
  /\ \/ todo # {} /\ ExecuteResumed(results, todo)
     \/ todo = {} /\ AfterResume(results)
  /\ UNCHANGED <<mail, updates>>

PushReturn ==
  /\ pc = "push" /\ inflight = {}
  /\ AfterPush(results)
  /\ UNCHANGED <<mail, updates>>

GotoReturn ==
  /\ pc = "goto" /\ inflight = {}
  /\ FinishSuperstep(results)
  /\ UNCHANGED <<mail, updates>>

\* wait_condition sees the event.  What follows depends on the pause.
WakeBefore ==
  /\ pc = "before" /\ resumeEvent
  /\ ExecuteNodes(tasks)
  /\ UNCHANGED <<state, mail, updates, last>>

WakeInterrupted ==
  /\ pc = "interrupted" /\ resumeEvent
  /\ ExecuteResumed(results \ Interrupted(results), {r.task : r \in Interrupted(results)})
  /\ UNCHANGED <<mail, updates>>

WakeAfter ==
  /\ pc = "after" /\ resumeEvent
  /\ Advance(ck, stream)
  /\ UNCHANGED <<mail, updates, last>>

-----------------------------------------------------------------------------
(***************************************************************************)
(* Signals and the people who send them.                                   *)
(***************************************************************************)

\* Somebody saw the pause in get_current_state and answers it.
SendAnswer ==
  /\ pc \in Waiting /\ sent < MaxAnswers
  /\ sent' = sent + 1
  /\ mail' = mail \cup {<<pauses, sent + 1>>}
  /\ UNCHANGED <<pc, exec, status, interrupts, resumeValues, resumeEvent, pauses, state,
                 updates, last>>

\* Bug: the value is recorded but the waiting run method is not told.
BugEventNotSet(m) ==
  /\ pc \notin Ended
  /\ mail' = mail \ {m}
  /\ resumeValues' = Append(resumeValues, [for |-> m[1], got |-> pauses])
  /\ UNCHANGED <<pc, exec, status, interrupts, resumeEvent, pauses, sent, state, updates, last>>

\* resume_signal, at any await, in any order.
ResumeSignal(m) ==
  /\ pc \notin Ended
  /\ mail' = mail \ {m}
  /\ resumeValues' = Append(resumeValues, [for |-> m[1], got |-> pauses])
  /\ resumeEvent' = TRUE
  /\ UNCHANGED <<pc, exec, status, interrupts, pauses, sent, state, updates, last>>

\* update_state_signal.  Before run() built the channels there is none to write to.
UpdateWrites(c, id) ==
  {[name |-> "__update__", path |-> "__update__", writes |-> {<<c, id>>}, triggers |-> {}]}

\* Bug: an update that comes during a pause is not applied.
BugNoUpdateInPause(c) ==
  /\ pc \notin Ended /\ Len(updates) < MaxUpdates
  /\ updates' = Append(updates, [chan |-> c, live |-> pc # "pending"])
  /\ ck' = IF pc = "pending" \/ status = "interrupted" THEN ck
           ELSE ApplyWrites(ck, UpdateWrites(c, Len(updates) + 1), step)
  /\ UNCHANGED <<pc, exec, hitl, step, stepsInRun, stream, input, mail, last>>

UpdateStateSignal(c) ==
  /\ pc \notin Ended /\ Len(updates) < MaxUpdates
  /\ updates' = Append(updates, [chan |-> c, live |-> pc # "pending"])
  /\ ck' = IF pc = "pending" THEN ck
           ELSE ApplyWrites(ck, UpdateWrites(c, Len(updates) + 1), step)
  /\ UNCHANGED <<pc, exec, hitl, step, stepsInRun, stream, input, mail, last>>

RunMethod ==
  \/ Start \/ NodesReturn \/ ChildrenReturn \/ ResumedReturn \/ PushReturn \/ GotoReturn
  \/ WakeBefore \/ WakeInterrupted \/ WakeAfter

Completes(t) ==
  CompleteActivity(t) \/ CompleteSubgraph(t) \/ FailActivity(t) \/ CompleteChild(t)

\* An ended workflow stays as it is, and a paused one until somebody answers.
Stay == pc \in Ended \cup Waiting /\ UNCHANGED vars

Next ==
  \/ RunMethod
  \/ \E t \in inflight : Completes(t)
  \/ SendAnswer
  \/ \E m \in mail : ResumeSignal(m)
  \/ \E c \in UpdateChan : UpdateStateSignal(c)
  \/ Stay

Spec == Init /\ [][Next]_vars

\* Workers poll, so the workflow's code runs and every activity and child
\* workflow ends (activities have a start-to-close timeout and children an
\* execution timeout); Temporal delivers signals.  That somebody answers a
\* pause is an assumption about people.
Fairness ==
  /\ WF_vars(RunMethod)
  /\ WF_vars(\E t \in inflight : Completes(t))
  /\ WF_vars(\E m \in mail : ResumeSignal(m))
  /\ WF_vars(SendAnswer)

FairSpec == Spec /\ Fairness

-----------------------------------------------------------------------------
(***************************************************************************)
(* Properties.                                                             *)
(***************************************************************************)

\* The variables hold what the code puts in them.
ControlOK ==
  /\ pc \in {"pending"} \cup Waiting \cup Executing \cup Ended
  /\ tasks \subseteq Node
  /\ inflight \subseteq Task /\ todo \subseteq Ran
  /\ results \subseteq Result

HumanOK ==
  /\ status \in {"pending", "running", "interrupted", "done"}
  /\ interrupts \subseteq Node \X {"before", "after", "node"}
  /\ resumeValues \in Seq(Answer) /\ resumeEvent \in BOOLEAN
  /\ pauses \in Nat /\ sent \in Nat

StateOK ==
  /\ input \in [data : BOOLEAN, restored : BOOLEAN, ck : Checkpoint, step : Nat]
  /\ ck \in Checkpoint
  /\ step \in Nat /\ stepsInRun \in Nat
  /\ stream \in Seq([step : Nat, nodes : SUBSET Node])

OutsideOK ==
  /\ mail \subseteq Nat \X Nat
  /\ updates \in Seq([chan : UpdateChan, live : BOOLEAN])

TypeOK ==
  /\ ControlOK /\ HumanOK /\ StateOK /\ OutsideOK
  /\ last \in [Node -> [at : Nat, wrote : BOOLEAN]]

\* What a crash of the worker or a continue-as-new leaves of the state: the run's
\* input until run() has built the channels, then what its history replays to.
Durable == IF pc = "pending" THEN input.ck ELSE ck
DurableStep == IF pc = "pending" THEN input.step ELSE step

\* No node has seen a version that does not exist, and a new version is newer than
\* every version: the two facts prepare_next_tasks' comparison relies on, across
\* update_state signals in the middle of a superstep and continue-as-new.
SeenBounded(c0) ==
  \A c \in Chan : c0.ver[c] <= c0.top /\ \A n \in Node : c0.seen[n][c] <= c0.ver[c]
VersionsConsistent == SeenBounded(ck) /\ SeenBounded(input.ck)

\* Versions only grow, and a channel never changes under an unchanged version, whichever
\* of input, update_state, superstep or continue-as-new changes the state, with one
\* exception: a continue-as-new makes the set of a barrier that has a version a list.
VersionsTrackValues ==
  [][\A c \in Chan :
       /\ Durable'.ver[c] >= Durable.ver[c]
       /\ Durable'.val[c] # Durable.val[c] => Durable'.ver[c] > Durable.ver[c]
       /\ c \in Durable.lists => c \in Durable'.lists
       /\ c \in Durable'.lists \ Durable.lists =>
            pc' = "pending" /\ Kind[c] = "barrier" /\ Durable'.ver[c] > 0]_vars

\* A superstep is all or nothing: while its nodes run, fail or wait for a human, no
\* channel holds a value any of them wrote, although their activities end one by one.
NoPartialSuperstep ==
  \A c \in Chan : \A t \in Durable.val[c] :
    t.by \in Node => t.at < DurableStep \/ (pc = "after" /\ t.at = step)

\* What the last superstep wrote to a trigger that is not among `except' (and to a barrier
\* as the last of its members) runs the triggered node in this one; a workflow does not
\* end before the recursion limit with such a node left.
TriggeredRun(except) ==
  pc \in {"before"} \cup Executing \/ (pc = "closed" /\ step < RecursionLimit) =>
    \A n \in Node : \A c \in Triggers[n] \ except : \A t \in ck.val[c] :
      (t.by \in Node /\ t.at + 1 = step /\ (Kind[c] = "barrier" => Full(ck, c))) => n \in tasks

\* What a superstep wrote to a trigger runs the triggered node in the next one, even when
\* a pause, an update or a continue-as-new lies between.  The exception are the barriers
\* that came through a continue-as-new.
CommittedTriggersRun == TriggeredRun(ck.lists)

\* REQUIREMENTS FR-08.2: a continue-as-new carries the full channel state, so that a
\* join, too, runs when all of its members have written.
JoinsSurviveANewRun == TriggeredRun({})

\* A node that has run and written runs again only after a trigger of it was written
\* again: in the superstep it ran in, or later.
NoRerunWithoutNewInput ==
  pc \in {"before", "nodes"} =>
    \A n \in tasks : last[n].wrote =>
      \E c \in Triggers[n] : \E t \in ck.val[c] : t.at + 1 >= last[n].at

\* An update_state signal to a reducer channel, once handled by a run that has its
\* channels, is part of the state for good: no superstep that was running when it came,
\* no pause and no continue-as-new drops it.
ToReducer(i) == Kind[updates[i].chan] = "reduce"
Reached(i) == \E t \in Durable.val[updates[i].chan] : t.by = "__update__" /\ t.k = i
LiveUpdatesAreKept ==
  \A i \in 1..Len(updates) : updates[i].live /\ ToReducer(i) => Reached(i)

\* Every accepted update_state signal to a reducer channel reaches the state.
UpdatesReachTheState ==
  pc # "pending" => \A i \in 1..Len(updates) : ToReducer(i) => Reached(i)

\* What a poller of get_stream_buffer is told agrees with the state: one entry per
\* superstep of this run, in order, and every value of a reducer that a superstep of
\* this run wrote was announced with its writer (Sends and gotos included).
StreamTellsTheState ==
  LET first == RestoredStep IN
    pc # "pending" =>
      /\ \A i \in 1..Len(stream) : stream[i].step = first + i - 1
      /\ \A c \in Chan : \A t \in ck.val[c] :
           Kind[c] = "reduce" /\ t.by \in Node /\ t.at >= first =>
             t.at - first + 1 \in 1..Len(stream) /\ t.by \in stream[t.at - first + 1].nodes

\* get_current_state says "interrupted" exactly while run() waits for a resume signal,
\* whatever signals come before, during and after the wait.
StatusTellsThePause == (status = "interrupted") <=> (pc \in Waiting)

\* A node is re-executed with at least one resume value, and with none that came before
\* the pause it is resumed from, however late earlier answers arrive.
ResumedWithAnswer ==
  \A t \in inflight : t.kind = "resume" =>
    Len(t.resume) > 0 /\ \A i \in 1..Len(t.resume) : t.resume[i].got = pauses

\* interrupt() in a node of the superstep pauses the workflow before anything the
\* superstep did is applied, even when other nodes go on to ask for child workflows.
NodeInterruptPauses ==
  [][(\E r \in results : r.intr /\ r.task.kind = "pull") /\ pc \in {"nodes", "children"}
       => pc' \in {"nodes", "children", "interrupted", "failed"}]_vars

\* Sub-agents that run at the same time have different workflow ids (the id is made of
\* the step and the position among one result's requests), or Temporal would refuse one.
ConcurrentChildrenHaveDistinctIds ==
  \A t, u \in inflight : t.kind = "child" /\ u.kind = "child" /\ t.arg = u.arg => t = u

\* Before the superstep goes on, every child workflow a node asked for has ended and put
\* its own message among that node's writes, whatever order the children end in.
EveryChildReports ==
  pc \in {"interrupted", "push", "goto", "after"} =>
    \A r \in results : r.task.kind = "pull" =>
      \A i \in 1..r.kids : <<Messages, i>> \in r.writes

\* Every interrupt() pauses the workflow: no superstep ends with one unanswered.
EveryInterruptPauses ==
  [][(\E r \in results : r.intr) => DurableStep' = DurableStep]_vars

\* If people answer, the workflow ends: no pause waits for an answer that was given, no
\* superstep waits for a result that came, and the recursion limit holds over all runs.
Terminates == <>(pc \in Ended)

-----------------------------------------------------------------------------
(***************************************************************************)
(* The workflow implements Supersteps.  The state is the durable one; the  *)
(* round is over when its writes are applied, although a pause or a        *)
(* continue-as-new may come before the step is counted.                    *)
(***************************************************************************)
Reaches(r) == {s[1] : s \in r.sends} \cup r.gotos

Abstract == INSTANCE Supersteps WITH
  state <- Durable,
  round <- IF pc = "after" THEN step + 1 ELSE DurableStep,
  planned <- IF pc \in {"pending", "after"} THEN {} ELSE tasks,
  outputs <- IF pc = "after" THEN {}
             ELSE {[node |-> r.task.node, path |-> r.task, writes |-> r.writes,
                    reaches |-> Reaches(r)] : r \in results}

\* No barrier that has a version has gone through a continue-as-new.
BarriersIntact == Durable.lists = {}

\* Whatever the order of activities, children, pauses, answers, updates and new runs, the
\* workflow executes rounds: each planned from the state, complete before it counts, and
\* applied as a whole to the state as it is then.  It does so for good if the graph has
\* no barrier, and until a continue-as-new carries a barrier if it has one.
ImplementsSupersteps ==
  Abstract!Init /\ [][BarriersIntact' => Abstract!Next]_(Abstract!bsp)
=============================================================================
