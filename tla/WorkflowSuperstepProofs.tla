------------------------ MODULE WorkflowSuperstepProofs ------------------------
(***************************************************************************)
(* The course of one superstep, from the nodes it is planned with over     *)
(* their child workflows, the pause for those that were interrupted, Sends *)
(* and gotos to the commit; and that LangGraphWorkflow implements          *)
(* Supersteps.                                                             *)
(***************************************************************************)
EXTENDS WorkflowStateProofs

(***************************************************************************)
(* The inductive invariant, over IInv and History.  EveryChildReports is   *)
(* about the results a superstep has passed, but their children are        *)
(* reported while the loop is still on its way; the refinement needs that  *)
(* only planned and reached nodes run, and that all of them have run when  *)
(* the superstep ends.                                                     *)
(***************************************************************************)

\* Nothing is left of a superstep when the next begins, and within one there are nodes to run.
NothingBetweenSupersteps ==
  /\ pc \in {"pending", "closed"} <=> tasks = {}
  /\ pc \in {"pending", "closed", "before"} => inflight = {} /\ todo = {} /\ results = {}

\* A node that results of the superstep reach by a Send or a goto.
ReachedBy(n, rs) == \E r \in rs : n \in Reaches(r)

\* Only planned nodes run, and, after them, those that are reached.
PlannedOrReached(n, rs) == n \in tasks \/ ReachedBy(n, rs)
OnlyPlannedOrReached ==
  /\ \A r \in results : PlannedOrReached(r.task.node, results)
  /\ \A t \in inflight : PlannedOrReached(t.node, results)
  /\ pc \in {"nodes", "children", "interrupted", "resumed"} =>
       /\ \A r \in results : r.task.node \in tasks
       /\ \A t \in inflight \cup todo : t.node \in tasks

\* Every planned node has a result, or its execution is under way or to come.
HasResult(n) == \E r \in results : r.task.node = n
EveryTaskIsServed ==
  pc \in {"interrupted"} \cup Executing =>
    \A n \in tasks :
      \/ HasResult(n)
      \/ pc \in {"nodes", "resumed"} /\ \E t \in inflight : t.node = n
      \/ pc = "resumed" /\ \E t \in todo : t.node = n

\* The child workflows that run are those of one node.
ChildTask(n, i) == [kind |-> "child", node |-> n, from |-> n, arg |-> i, resume |-> <<>>]
ChildrenOfOneNode ==
  \A t, u \in inflight : t.kind = "child" /\ u.kind = "child" =>
    t = ChildTask(t.node, t.arg) /\ t.node = u.node

\* Planned nodes run first, and child workflows while run() waits for children.
InTheirPlace ==
  \A t \in inflight :
    /\ pc \in Executing \ {"nodes"} => t.kind # "pull"
    /\ pc \in Executing \ {"children"} => t.kind # "child"

\* Once the loop has passed a result, each child it asked for has reported or is running.
Reported(r, i) == <<Messages, i>> \in r.writes
AllReported(rs) == \A r \in rs : r.task.kind = "pull" => \A i \in 1..r.kids : Reported(r, i)
ChildrenAreServed ==
  /\ pc = "children" =>
       \A r \in results : r.task.kind = "pull" /\ r.task \notin todo =>
         \A i \in 1..r.kids : Reported(r, i) \/ ChildTask(r.task.node, i) \in inflight
  /\ pc \in {"interrupted", "resumed", "push", "goto", "after"} => AllReported(results)

Course ==
  /\ NothingBetweenSupersteps
  /\ OnlyPlannedOrReached
  /\ EveryTaskIsServed
  /\ ChildrenOfOneNode
  /\ InTheirPlace
  /\ ChildrenAreServed

-----------------------------------------------------------------------------
(***************************************************************************)
(* The batches a superstep dispatches.                                     *)
(***************************************************************************)

\* Sends are executions of nodes the results reach.
LEMMA PushKinds ==
  ASSUME NEW rs, NEW t \in PushTasks(rs)
  PROVE  t.kind = "push" /\ ReachedBy(t.node, rs)
<1>1. PICK r \in rs : \E s \in r.sends :
        t = [kind |-> "push", node |-> s[1], from |-> r.task.node, arg |-> s[2], resume |-> <<>>]
  BY DEF PushTasks
<1>2. PICK s \in r.sends : t.kind = "push" /\ t.node = s[1]
  BY <1>1
<1>3. s[1] \in Reaches(r)
  BY DEF Reaches
<1> QED BY <1>2, <1>3 DEF ReachedBy

\* So are gotos.
LEMMA GotoKinds ==
  ASSUME NEW rs, NEW t \in GotoTasks(rs)
  PROVE  t.kind = "goto" /\ ReachedBy(t.node, rs)
<1>1. PICK r \in rs : \E n \in r.gotos :
        t = [kind |-> "goto", node |-> n, from |-> r.task.from, arg |-> r.task.arg,
             resume |-> <<>>]
  BY DEF GotoTasks
<1>2. PICK n \in r.gotos : t.kind = "goto" /\ t.node = n
  BY <1>1
<1>3. n \in Reaches(r)
  BY DEF Reaches
<1> QED BY <1>2, <1>3 DEF ReachedBy

\* The children of one result: one per request, all of one node.
LEMMA ChildKinds ==
  ASSUME NEW rs, NEW t, NEW u \in ChildrenOf(rs, t)
  PROVE  u.kind = "child" /\ u.node = t.node /\ u = ChildTask(t.node, u.arg)
<1>1. PICK r \in rs : r.task = t /\ u \in Children(r)
  BY DEF ChildrenOf
<1>2. PICK i \in 1..r.kids : u = ChildTask(t.node, i)
  BY <1>1 DEF Children, ChildTask
<1> QED BY <1>2 DEF ChildTask

LEMMA ChildrenComplete ==
  ASSUME NEW rs, NEW r \in rs, NEW i \in 1..r.kids
  PROVE  ChildTask(r.task.node, i) \in ChildrenOf(rs, r.task)
<1>1. ChildTask(r.task.node, i) \in Children(r)
  BY DEF ChildTask, Children
<1> QED BY <1>1 DEF ChildrenOf

-----------------------------------------------------------------------------
(***************************************************************************)
(* The segments of run().                                                  *)
(***************************************************************************)

\* A superstep begins from nothing: at the head of the loop, or after interrupt_before.
LEMMA FreshCourse ==
  ASSUME pc' \in {"closed", "before", "nodes"}, pc' = "closed" <=> tasks' = {},
         inflight' = IF pc' = "nodes" THEN {PullTask(n) : n \in tasks'} ELSE {},
         todo' = {}, results' = {}
  PROVE  Course'
<1>1. ASSUME NEW t \in inflight'
      PROVE  t.node \in tasks' /\ t.kind \in {"pull", "subgraph"}
  BY <1>1 DEF PullTask
<1>2. pc' = "nodes" => \A n \in tasks' : \E t \in inflight' : t.node = n
  <2>1. ASSUME pc' = "nodes", NEW n \in tasks' PROVE \E t \in inflight' : t.node = n
    <3>1. PullTask(n) \in inflight' /\ PullTask(n).node = n
      BY <2>1 DEF PullTask
    <3> QED BY <3>1
  <2> QED BY <2>1
<1>3. NothingBetweenSupersteps' /\ InTheirPlace' /\ ChildrenAreServed'
  BY <1>1 DEF NothingBetweenSupersteps, InTheirPlace, ChildrenAreServed, Executing
<1>4. OnlyPlannedOrReached' /\ ChildrenOfOneNode'
  BY <1>1 DEF OnlyPlannedOrReached, PlannedOrReached, ChildrenOfOneNode
<1>5. EveryTaskIsServed'
  BY <1>2 DEF EveryTaskIsServed, Executing
<1> QED BY <1>3, <1>4, <1>5 DEF Course

LEMMA TickedCourse ==
  ASSUME NEW c, NEW s, Ticked(c, s)
  PROVE  Course'
<1>1. /\ pc' \in {"closed", "before", "nodes"} /\ todo' = {} /\ results' = {}
      /\ pc' = "closed" <=> tasks' = {}
      /\ inflight' = IF pc' = "nodes" THEN {PullTask(n) : n \in tasks'} ELSE {}
  BY DEF Ticked
<1> QED BY <1>1, FreshCourse

\* So does a new run.
LEMMA RestCourse ==
  ASSUME pc' = "pending", tasks' = {}, inflight' = {}, todo' = {}, results' = {}
  PROVE  Course'
BY DEF Course, NothingBetweenSupersteps, OnlyPlannedOrReached, EveryTaskIsServed,
       ChildrenOfOneNode, InTheirPlace, ChildrenAreServed, Executing

LEMMA AdvancedCourse ==
  ASSUME NEW c, NEW st, Advanced(c, st)
  PROVE  Course'
BY TickedCourse, RestCourse DEF Advanced

\* What the loop over the children leaves to the rest of the superstep.
Complete ==
  /\ tasks # {} /\ inflight = {}
  /\ \A r \in results : PlannedOrReached(r.task.node, results)
  /\ \A n \in tasks : HasResult(n)
  /\ AllReported(results)

\* The end of a superstep.
LEMMA FinishCourse ==
  ASSUME IInv, Complete, FinishSuperstep(results)
  PROVE  Course'
<1>1. CASE pc' = "stuck" /\ UNCHANGED <<exec, hitl, state, last>>
  BY <1>1 DEF Complete, exec, Course, NothingBetweenSupersteps, OnlyPlannedOrReached,
              PlannedOrReached, EveryTaskIsServed, ChildrenOfOneNode, InTheirPlace,
              ChildrenAreServed, Executing
<1>2. CASE /\ WaitForResume("after", {<<n, "after">> : n \in tasks})
           /\ results' = results /\ inflight' = {} /\ todo' = {} /\ UNCHANGED tasks
  <2>1. pc' = "after"
    BY <1>2 DEF WaitForResume
  <2> QED BY <1>2, <2>1 DEF Complete, Course, NothingBetweenSupersteps, OnlyPlannedOrReached,
              PlannedOrReached, EveryTaskIsServed, ChildrenOfOneNode, InTheirPlace,
              ChildrenAreServed, Executing
<1>3. CASE Advance(ApplyResults(results), EmitStreamEvents(results))
  BY <1>3, AdvanceAdvances, AdvancedCourse DEF IInv
<1> QED BY <1>1, <1>2, <1>3 DEF FinishSuperstep

\* A batch of executions that the results reach.
LEMMA ReachedCourse ==
  ASSUME Complete, pc' \in {"push", "goto"}, results' = results, tasks' = tasks,
         \A t \in inflight' : t.kind \in {"push", "goto"} /\ ReachedBy(t.node, results)
  PROVE  Course'
<1>1. NothingBetweenSupersteps' /\ OnlyPlannedOrReached'
  BY DEF Complete, NothingBetweenSupersteps, OnlyPlannedOrReached, PlannedOrReached
<1>2. EveryTaskIsServed'
  BY DEF Complete, EveryTaskIsServed, HasResult
<1>3. ChildrenOfOneNode' /\ InTheirPlace' /\ ChildrenAreServed'
  BY DEF Complete, ChildrenOfOneNode, InTheirPlace, ChildrenAreServed
<1> QED BY <1>1, <1>2, <1>3 DEF Course

LEMMA AfterPushCourse ==
  ASSUME IInv, Complete, AfterPush(results)
  PROVE  Course'
<1>1. CASE FinishSuperstep(results)
  BY <1>1, FinishCourse
<1>2. CASE /\ Await("goto", GotoTasks(results))
           /\ results' = results /\ UNCHANGED <<tasks, state, last>>
  BY <1>2, GotoKinds, ReachedCourse DEF Await
<1> QED BY <1>1, <1>2 DEF AfterPush

LEMMA AfterResumeCourse ==
  ASSUME IInv, Complete, AfterResume(results)
  PROVE  Course'
<1>1. CASE AfterPush(results)
  BY <1>1, AfterPushCourse
<1>2. CASE /\ Await("push", PushTasks(results))
           /\ results' = results /\ UNCHANGED <<tasks, state, last>>
  BY <1>2, PushKinds, ReachedCourse DEF Await
<1> QED BY <1>1, <1>2 DEF AfterResume

\* The pause for interrupted nodes.
LEMMA AfterChildrenCourse ==
  ASSUME IInv, Complete, \A r \in results : r.task.node \in tasks, AfterChildren(results)
  PROVE  Course'
<1>1. CASE AfterResume(results)
  BY <1>1, AfterResumeCourse
<1>2. CASE /\ WaitForResume("interrupted", {<<r.task.node, "node">> : r \in Interrupted(results)})
           /\ results' = results /\ inflight' = {} /\ todo' = {}
           /\ UNCHANGED <<tasks, state, last>>
  <2>1. pc' = "interrupted" /\ tasks' = tasks
    BY <1>2 DEF WaitForResume
  <2>2. NothingBetweenSupersteps' /\ OnlyPlannedOrReached'
    BY <1>2, <2>1 DEF Complete, NothingBetweenSupersteps, OnlyPlannedOrReached, PlannedOrReached
  <2>3. EveryTaskIsServed'
    BY <1>2, <2>1 DEF Complete, EveryTaskIsServed, HasResult
  <2>4. ChildrenOfOneNode' /\ InTheirPlace' /\ ChildrenAreServed'
    BY <1>2, <2>1 DEF Complete, ChildrenOfOneNode, InTheirPlace, ChildrenAreServed, Executing
  <2> QED BY <2>2, <2>3, <2>4 DEF Course
<1> QED BY <1>1, <1>2 DEF AfterChildren

\* The loop over the results that asked for children: what it has passed has reported.
LEMMA ProcessChildrenCourse ==
  ASSUME IInv, tasks # {}, inflight = {},
         \A r \in results : r.task.node \in tasks,
         \A n \in tasks : HasResult(n),
         NEW rest, \A t \in rest : t.node \in tasks,
         \A r \in results : r.task.kind = "pull" /\ r.task \notin rest =>
           \A i \in 1..r.kids : Reported(r, i),
         ProcessChildren(results, rest)
  PROVE  Course'
<1>1. CASE rest = {} /\ AfterChildren(results)
  <2>1. Complete
    BY <1>1 DEF Complete, AllReported, PlannedOrReached
  <2> QED BY <1>1, <2>1, AfterChildrenCourse
<1>2. ASSUME NEW t \in First(rest),
             Await("children", ChildrenOf(results, t)),
             todo' = Later(rest, t), results' = results, UNCHANGED <<tasks, state, last>>
      PROVE  Course'
  <2>1. pc' = "children" /\ inflight' = ChildrenOf(results, t) /\ todo' = rest \ {t}
        /\ tasks' = tasks /\ t \in rest
    BY <1>2 DEF Await, Later, First
  <2>2. \A u \in inflight' : u.kind = "child" /\ u.node = t.node /\ u = ChildTask(t.node, u.arg)
    BY <2>1, ChildKinds
  <2>3. NothingBetweenSupersteps' /\ OnlyPlannedOrReached'
    BY <1>2, <2>1, <2>2 DEF NothingBetweenSupersteps, OnlyPlannedOrReached, PlannedOrReached
  <2>4. EveryTaskIsServed'
    BY <1>2, <2>1 DEF EveryTaskIsServed, HasResult
  <2>5. ChildrenOfOneNode' /\ InTheirPlace'
    BY <2>1, <2>2 DEF ChildrenOfOneNode, InTheirPlace
  <2>6. ChildrenAreServed'
    <3>1. ASSUME NEW r \in results, r.task.kind = "pull", r.task \notin todo', NEW i \in 1..r.kids
          PROVE  Reported(r, i) \/ ChildTask(r.task.node, i) \in inflight'
      <4>1. CASE r.task = t
        BY <2>1, <4>1, ChildrenComplete
      <4>2. CASE r.task \notin rest
        BY <3>1, <4>2
      <4> QED BY <2>1, <3>1, <4>1, <4>2
    <3> QED BY <1>2, <2>1, <3>1 DEF ChildrenAreServed
  <2> QED BY <2>3, <2>4, <2>5, <2>6 DEF Course
<1> QED BY <1>1, <1>2 DEF ProcessChildren

\* The re-execution of one interrupted node.
LEMMA ExecuteResumedCourse ==
  ASSUME IInv, tasks # {}, NEW rs \in SUBSET results, NEW rest,
         \A r \in results : r.task.node \in tasks,
         \A t \in rest : t.node \in tasks,
         \A n \in tasks : (\E r \in rs : r.task.node = n) \/ (\E t \in rest : t.node = n),
         AllReported(results), rest \in SUBSET Ran,
         ExecuteResumed(rs, rest)
  PROVE  Course'
<1>1. PICK t \in First(rest) : /\ Await("resumed", {ResumeTask(t)})
                               /\ todo' = Later(rest, t) /\ results' = rs
                               /\ UNCHANGED <<tasks, state, last>>
  BY DEF ExecuteResumed
<1>2. t \in rest /\ t \in Task
  BY DEF First, Ran
<1>3. ResumeTask(t).kind = "resume" /\ ResumeTask(t).node = t.node
  BY <1>2 DEF ResumeTask, Task
<1>4. /\ pc' = "resumed" /\ inflight' = {ResumeTask(t)} /\ todo' = rest \ {t}
      /\ results' = rs /\ tasks' = tasks
  BY <1>1 DEF Await, Later
<1>5. NothingBetweenSupersteps' /\ OnlyPlannedOrReached'
  BY <1>2, <1>3, <1>4 DEF NothingBetweenSupersteps, OnlyPlannedOrReached, PlannedOrReached
<1>6. EveryTaskIsServed'
  BY <1>2, <1>3, <1>4 DEF EveryTaskIsServed, HasResult
<1>7. ChildrenOfOneNode' /\ InTheirPlace' /\ ChildrenAreServed'
  BY <1>3, <1>4 DEF ChildrenOfOneNode, InTheirPlace, ChildrenAreServed, AllReported
<1> QED BY <1>5, <1>6, <1>7 DEF Course

-----------------------------------------------------------------------------
(***************************************************************************)
(* Activities and child workflows ending.                                  *)
(***************************************************************************)

\* One more result, of an execution that is not a child workflow.
LEMMA ResultCourse ==
  ASSUME IInv, Course, NEW t \in inflight, t.kind # "child", NEW r, r.task = t,
         results' = results \cup {r}, inflight' = inflight \ {t}, UNCHANGED <<pc, tasks, todo>>
  PROVE  Course'
<1>1. /\ pc \notin {"pending", "closed", "before", "interrupted", "after"}
      /\ pc \in {"children", "resumed", "push", "goto"} => t.kind # "pull"
  BY DEF Course, NothingBetweenSupersteps, IInv, Core, NoWorkWhilePaused, Waiting, InTheirPlace,
         Executing
<1>2. \A n : ReachedBy(n, results) => ReachedBy(n, results')
  BY DEF ReachedBy
<1>3. NothingBetweenSupersteps'
  BY <1>1 DEF Course, NothingBetweenSupersteps
<1>4. OnlyPlannedOrReached'
  BY <1>1, <1>2 DEF Course, OnlyPlannedOrReached, PlannedOrReached
<1>5. EveryTaskIsServed'
  BY DEF Course, EveryTaskIsServed, HasResult
<1>6. ChildrenOfOneNode' /\ InTheirPlace'
  BY DEF Course, ChildrenOfOneNode, InTheirPlace
<1>7. ChildrenAreServed'
  <2>1. ASSUME pc \in {"children", "resumed", "push", "goto"} PROVE ChildrenAreServed'
    <3>1. r.task.kind # "pull"
      BY <1>1, <2>1
    <3>2. ASSUME NEW n, NEW i, ChildTask(n, i) \in inflight PROVE ChildTask(n, i) \in inflight'
      BY <3>2 DEF ChildTask
    <3> QED BY <2>1, <3>1, <3>2 DEF Course, ChildrenAreServed, AllReported
  <2>2. CASE pc \notin {"children", "resumed", "push", "goto"}
    BY <1>1, <2>2 DEF ChildrenAreServed
  <2> QED BY <2>1, <2>2
<1> QED BY <1>3, <1>4, <1>5, <1>6, <1>7 DEF Course

\* A child's message among the writes of the node that asked for it.
WithMessage(r, t) ==
  IF r.task.node = t.node THEN [r EXCEPT !.writes = @ \cup {<<Messages, t.arg>>}] ELSE r

LEMMA MessageKeeps ==
  ASSUME NEW r \in Result, NEW t
  PROVE  LET m == WithMessage(r, t) IN
         /\ m.task = r.task /\ m.kids = r.kids /\ Reaches(m) = Reaches(r)
         /\ r.writes \subseteq m.writes
         /\ r.task.node = t.node => Reported(m, t.arg)
<1> DEFINE m == WithMessage(r, t)
<1>1. CASE r.task.node = t.node
  <2>1. m = [r EXCEPT !.writes = r.writes \cup {<<Messages, t.arg>>}]
    BY <1>1 DEF WithMessage
  <2>2. /\ m.task = r.task /\ m.kids = r.kids /\ m.sends = r.sends /\ m.gotos = r.gotos
        /\ m.writes = r.writes \cup {<<Messages, t.arg>>}
    BY <2>1 DEF Result
  <2> HIDE DEF m
  <2> QED BY <2>2 DEF Reaches, Reported, m
<1>2. CASE r.task.node # t.node
  BY <1>2 DEF WithMessage
<1> QED BY <1>1, <1>2

\* A child workflow ends.
LEMMA ChildCourse ==
  ASSUME IInv, Course, NEW t \in inflight, CompleteChild(t)
  PROVE  Course'
<1>1. /\ results' = {WithMessage(r, t) : r \in results} /\ t.kind = "child"
      /\ inflight' = inflight \ {t} /\ UNCHANGED <<pc, tasks, todo>>
  BY DEF CompleteChild, WithMessage
<1>2. /\ pc \notin {"pending", "closed", "before", "interrupted", "after"}
      /\ pc \in Executing => pc = "children"
  BY <1>1 DEF Course, NothingBetweenSupersteps, IInv, Core, NoWorkWhilePaused, Waiting,
              InTheirPlace, Executing
<1>3. results \subseteq Result
  BY DEF IInv, Core, ControlOK
<1>4. ASSUME NEW r \in results
      PROVE  \E m \in results' : m.task = r.task /\ Reaches(m) = Reaches(r)
  BY <1>1, <1>3, MessageKeeps
<1>5. ASSUME NEW m \in results'
      PROVE  \E r \in results :
               /\ m.task = r.task /\ m.kids = r.kids /\ r.writes \subseteq m.writes
               /\ r.task.node = t.node => Reported(m, t.arg)
  BY <1>1, <1>3, MessageKeeps
<1>6. \A n : ReachedBy(n, results) => ReachedBy(n, results')
  BY <1>4 DEF ReachedBy
<1>7. NothingBetweenSupersteps'
  BY <1>1, <1>2 DEF Course, NothingBetweenSupersteps
<1>8. OnlyPlannedOrReached'
  BY <1>1, <1>2, <1>5, <1>6 DEF Course, OnlyPlannedOrReached, PlannedOrReached, Executing
<1>9. EveryTaskIsServed'
  BY <1>1, <1>2, <1>4 DEF Course, EveryTaskIsServed, HasResult
<1>10. ChildrenOfOneNode' /\ InTheirPlace'
  BY <1>1 DEF Course, ChildrenOfOneNode, InTheirPlace
<1>11. ChildrenAreServed'
  <2>1. ASSUME pc = "children", NEW m \in results', m.task.kind = "pull", m.task \notin todo,
               NEW i \in 1..m.kids
        PROVE  Reported(m, i) \/ ChildTask(m.task.node, i) \in inflight'
    <3>1. PICK r \in results :
            /\ m.task = r.task /\ m.kids = r.kids /\ r.writes \subseteq m.writes
            /\ r.task.node = t.node => Reported(m, t.arg)
      BY <1>5
    <3>2. Reported(r, i) \/ ChildTask(r.task.node, i) \in inflight
      BY <2>1, <3>1 DEF Course, ChildrenAreServed
    <3>3. CASE Reported(r, i)
      BY <3>1, <3>3 DEF Reported
    <3>4. CASE ChildTask(r.task.node, i) = t
      <4>1. t.node = r.task.node /\ t.arg = i
        BY <3>4 DEF ChildTask
      <4> QED BY <3>1, <4>1
    <3> QED BY <1>1, <3>1, <3>2, <3>3, <3>4
  <2> QED BY <1>1, <1>2, <2>1 DEF ChildrenAreServed, Executing
<1> QED BY <1>7, <1>8, <1>9, <1>10, <1>11 DEF Course

LEMMA CompletionCourse ==
  ASSUME IInv, Course, NEW t \in inflight, Completes(t)
  PROVE  Course'
<1>1. CASE FailActivity(t)
  <2>1. pc' = "failed" /\ UNCHANGED exec /\ tasks # {}
    BY <1>1 DEF FailActivity, Course, NothingBetweenSupersteps
  <2> QED BY <2>1 DEF exec, Course, NothingBetweenSupersteps, OnlyPlannedOrReached,
                PlannedOrReached, EveryTaskIsServed, ChildrenOfOneNode, InTheirPlace,
                ChildrenAreServed, Executing
<1>2. CASE CompleteActivity(t)
  <2>1. PICK r \in Outputs(t) : results' = results \cup {r}
    BY <1>2 DEF CompleteActivity
  <2>2. r.task = t
    BY <2>1 DEF Outputs, InterruptOutput, Returned
  <2> QED BY <1>2, <2>1, <2>2, ResultCourse DEF CompleteActivity
<1>3. CASE CompleteSubgraph(t)
  <2>1. PICK b \in Body[t.node] : results' = results \cup {SubgraphOutput(t, b)}
    BY <1>3 DEF CompleteSubgraph
  <2>2. SubgraphOutput(t, b).task = t
    BY DEF SubgraphOutput
  <2> QED BY <1>3, <2>1, <2>2, ResultCourse DEF CompleteSubgraph
<1>4. CASE CompleteChild(t)
  BY <1>4, ChildCourse
<1> QED BY <1>1, <1>2, <1>3, <1>4 DEF Completes

-----------------------------------------------------------------------------
(***************************************************************************)
(* The invariant.                                                          *)
(***************************************************************************)
LEMMA InitCourse == Init => Course
BY DEF Init, Course, NothingBetweenSupersteps, OnlyPlannedOrReached, EveryTaskIsServed,
       ChildrenOfOneNode, InTheirPlace, ChildrenAreServed, Executing

\* The segments of run() in a superstep.
LEMMA SegmentCourse ==
  ASSUME IInv, Course,
         \/ NodesReturn \/ ChildrenReturn \/ ResumedReturn \/ PushReturn \/ GotoReturn
         \/ WakeInterrupted
  PROVE  Course'
<1>0. /\ results \in SUBSET Result /\ todo \in SUBSET Ran
      /\ pc \in {"nodes", "children", "interrupted", "resumed", "push", "goto"} /\ tasks # {}
  BY DEF IInv, Core, ControlOK, Course, NothingBetweenSupersteps, NodesReturn, ChildrenReturn,
         ResumedReturn, PushReturn, GotoReturn, WakeInterrupted
<1>1. CASE NodesReturn
  <2> DEFINE rest == {r.task : r \in {r \in results : r.kids > 0}}
  <2>1. pc = "nodes" /\ inflight = {} /\ ProcessChildren(results, rest)
    BY <1>1 DEF NodesReturn
  <2>2. /\ \A r \in results : r.task.node \in tasks
        /\ \A n \in tasks : HasResult(n)
    BY <2>1, ExecutingNames DEF Course, OnlyPlannedOrReached, EveryTaskIsServed
  <2>3. \A t \in rest : t.node \in tasks
    BY <2>2
  <2>4. ASSUME NEW r \in results, r.task \notin rest, NEW i \in 1..r.kids PROVE FALSE
    <3>1. r.kids \in Nat /\ r.kids > 0
      BY <1>0, <2>4 DEF Result
    <3> QED BY <2>4, <3>1
  <2> HIDE DEF rest
  <2> QED BY <1>0, <2>1, <2>2, <2>3, <2>4, ProcessChildrenCourse
<1>2. CASE ChildrenReturn
  <2>1. pc = "children" /\ inflight = {} /\ ProcessChildren(results, todo)
    BY <1>2 DEF ChildrenReturn
  <2>2. /\ \A r \in results : r.task.node \in tasks
        /\ \A t \in todo : t.node \in tasks
        /\ \A n \in tasks : HasResult(n)
    BY <2>1, ExecutingNames DEF Course, OnlyPlannedOrReached, EveryTaskIsServed
  <2>3. \A r \in results : r.task.kind = "pull" /\ r.task \notin todo =>
          \A i \in 1..r.kids : Reported(r, i)
    BY <2>1 DEF Course, ChildrenAreServed
  <2> QED BY <1>0, <2>1, <2>2, <2>3, ProcessChildrenCourse
<1>3. CASE ResumedReturn
  <2>1. /\ pc = "resumed" /\ inflight = {} /\ AllReported(results)
        /\ \A r \in results : r.task.node \in tasks
        /\ \A t \in todo : t.node \in tasks
        /\ \A n \in tasks : HasResult(n) \/ \E t \in todo : t.node = n
    BY <1>3, ExecutingNames
       DEF ResumedReturn, Course, OnlyPlannedOrReached, EveryTaskIsServed, ChildrenAreServed
  <2>2. CASE ExecuteResumed(results, todo)
    BY <1>0, <2>1, <2>2, ExecuteResumedCourse DEF HasResult
  <2>3. CASE todo = {} /\ AfterResume(results)
    <3>1. Complete
      BY <1>0, <2>1, <2>3 DEF Complete, PlannedOrReached
    <3> QED BY <2>3, <3>1, AfterResumeCourse
  <2> QED BY <1>3, <2>2, <2>3 DEF ResumedReturn
<1>4. CASE PushReturn \/ GotoReturn
  <2>1. /\ pc \in {"push", "goto"} /\ inflight = {}
        /\ AfterPush(results) \/ FinishSuperstep(results)
    BY <1>4 DEF PushReturn, GotoReturn
  <2>2. Complete
    BY <1>0, <2>1, ExecutingNames
       DEF Complete, Course, OnlyPlannedOrReached, EveryTaskIsServed, ChildrenAreServed
  <2> QED BY <2>1, <2>2, AfterPushCourse, FinishCourse
<1>5. CASE WakeInterrupted
  <2> DEFINE rs == results \ Interrupted(results)
             rest == {r.task : r \in Interrupted(results)}
  <2>1. pc = "interrupted" /\ ExecuteResumed(rs, rest)
    BY <1>5 DEF WakeInterrupted
  <2>2. /\ \A r \in results : r.task.node \in tasks
        /\ \A n \in tasks : HasResult(n)
        /\ AllReported(results)
    BY <2>1 DEF Course, OnlyPlannedOrReached, EveryTaskIsServed, ChildrenAreServed
  <2>3. rest \in SUBSET Ran /\ \A t \in rest : t.node \in tasks
    BY <1>0, <2>2 DEF Interrupted, Result
  <2>4. \A n \in tasks : (\E r \in rs : r.task.node = n) \/ (\E t \in rest : t.node = n)
    BY <2>2 DEF HasResult
  <2>5. rs \in SUBSET results
    OBVIOUS
  <2> HIDE DEF rs, rest
  <2> QED BY <1>0, <2>1, <2>2, <2>3, <2>4, <2>5, ExecuteResumedCourse
<1> QED BY <1>1, <1>2, <1>3, <1>4, <1>5

\* Every step keeps it.
LEMMA StepCourse ==
  ASSUME IInv, Course, [Next]_vars
  PROVE  Course'
<1>1. CASE Start
  BY <1>1, StartRestores, TickedCourse
<1>2. CASE \/ NodesReturn \/ ChildrenReturn \/ ResumedReturn \/ PushReturn \/ GotoReturn
           \/ WakeInterrupted
  BY <1>2, SegmentCourse
<1>3. CASE WakeBefore
  <2>1. /\ pc' = "nodes" /\ tasks' = tasks /\ tasks # {} /\ todo' = {} /\ results' = {}
        /\ inflight' = {PullTask(n) : n \in tasks}
    BY <1>3 DEF WakeBefore, ExecuteNodes, Await, Course, NothingBetweenSupersteps
  <2> QED BY <2>1, FreshCourse
<1>4. CASE WakeAfter
  BY <1>4, WakeAdvances, AdvancedCourse
<1>5. ASSUME NEW t \in inflight, Completes(t)
      PROVE  Course'
  BY <1>5, CompletionCourse
<1>6. CASE UNCHANGED <<pc, exec>>
  BY <1>6 DEF exec, Course, NothingBetweenSupersteps, OnlyPlannedOrReached, PlannedOrReached,
              EveryTaskIsServed, HasResult, ChildrenOfOneNode, InTheirPlace, ChildrenAreServed,
              AllReported
<1>7. CASE \/ SendAnswer \/ \E m \in mail : ResumeSignal(m)
           \/ \E c \in UpdateChan : UpdateStateSignal(c)
           \/ UNCHANGED vars
  <2>1. UNCHANGED <<pc, exec>>
    BY <1>7 DEF SendAnswer, ResumeSignal, UpdateStateSignal, vars
  <2> QED BY <1>6, <2>1
<1> QED BY <1>1, <1>2, <1>3, <1>4, <1>5, <1>7 DEF Next, RunMethod, Stay

\* The inductive invariant holds in every reachable state, of every graph.
THEOREM CourseHolds == Spec => [](IInv /\ History /\ Course)
<1>1. Init => IInv /\ History /\ Course
  BY InitInvariant, InitHistory, InitCourse
<1>2. IInv /\ History /\ Course /\ [Next]_vars => (IInv /\ History /\ Course)'
  BY StepInvariant, StepHistory, StepCourse
<1> QED BY <1>1, <1>2, PTL DEF Spec

-----------------------------------------------------------------------------
(***************************************************************************)
(* The results.                                                            *)
(***************************************************************************)

\* Temporal never refuses a sub-agent because another one with its workflow id runs.
THEOREM ChildIdsDistinct == Spec => []ConcurrentChildrenHaveDistinctIds
<1>1. Course => ConcurrentChildrenHaveDistinctIds
  <2>1. ASSUME Course, NEW t \in inflight, NEW u \in inflight,
               t.kind = "child", u.kind = "child", t.arg = u.arg
        PROVE  t = u
    <3>1. t = ChildTask(t.node, t.arg) /\ u = ChildTask(u.node, u.arg) /\ t.node = u.node
      BY <2>1 DEF Course, ChildrenOfOneNode
    <3> QED BY <2>1, <3>1
  <2> QED BY <2>1 DEF ConcurrentChildrenHaveDistinctIds
<1> QED BY <1>1, CourseHolds, PTL

\* When the superstep goes on, each child workflow a node asked for has its message among
\* the node's writes, in whatever order the children ended.
THEOREM ChildrenReport == Spec => []EveryChildReports
<1>1. Course => EveryChildReports
  BY DEF Course, ChildrenAreServed, AllReported, Reported, EveryChildReports
<1> QED BY <1>1, CourseHolds, PTL

\* What follows the nodes and their children, when one of them called interrupt().
LEMMA PauseStep ==
  ASSUME [Next]_vars, NEW r \in results, r.intr, pc \in {"nodes", "children"}
  PROVE  pc' \in {"nodes", "children", "interrupted", "failed"}
<1>1. MustPause(results)
  BY DEF MustPause, Interrupted
<1>2. ASSUME NEW rest, ProcessChildren(results, rest)
      PROVE  pc' \in {"children", "interrupted"}
  BY <1>1, <1>2 DEF ProcessChildren, AfterChildren, Await, WaitForResume
<1>3. CASE NodesReturn \/ ChildrenReturn
  BY <1>2, <1>3 DEF NodesReturn, ChildrenReturn
<1>4. CASE UNCHANGED pc
  BY <1>4
<1>5. ASSUME NEW t \in inflight, Completes(t) PROVE UNCHANGED pc \/ pc' = "failed"
  BY <1>5 DEF Completes, CompleteActivity, CompleteSubgraph, FailActivity, CompleteChild
<1>6. CASE \/ SendAnswer \/ \E m \in mail : ResumeSignal(m)
           \/ \E c \in UpdateChan : UpdateStateSignal(c)
           \/ UNCHANGED vars
  BY <1>4, <1>6 DEF SendAnswer, ResumeSignal, UpdateStateSignal, vars
<1> QED BY <1>3, <1>4, <1>5, <1>6
        DEF Next, RunMethod, Stay, Start, ResumedReturn, PushReturn, GotoReturn, WakeBefore,
            WakeInterrupted, WakeAfter

\* interrupt() in a planned node pauses the workflow before the superstep goes on, also when
\* nodes that were not interrupted have children to wait for first.
THEOREM InterruptsPause == Spec => NodeInterruptPauses
<1> DEFINE Pauses ==
      (\E r \in results : r.intr /\ r.task.kind = "pull") /\ pc \in {"nodes", "children"}
        => pc' \in {"nodes", "children", "interrupted", "failed"}
<1>1. [Next]_vars => Pauses
  BY PauseStep
<1>2. NodeInterruptPauses <=> [][Pauses]_vars
  BY DEF NodeInterruptPauses
<1> HIDE DEF Pauses
<1> QED BY <1>1, <1>2, PTL DEF Spec

-----------------------------------------------------------------------------
(***************************************************************************)
(* The workflow implements Supersteps.  The state, the number and the plan *)
(* of the abstract round are Durable, Round and the tasks of a superstep   *)
(* that is not over.                                                       *)
(***************************************************************************)
PlanOf == IF pc \in {"pending", "after"} THEN {} ELSE tasks
OutputOf(r) == [node |-> r.task.node, path |-> r.task, writes |-> r.writes, reaches |-> Reaches(r)]
OutputsOf == IF pc = "after" THEN {} ELSE {OutputOf(r) : r \in results}

\* The two modules speak of the same prepare_next_tasks and apply_writes.
LEMMA SamePregel ==
  /\ Abstract!EmptyCheckpoint = EmptyCheckpoint
  /\ \A c0 : Abstract!PrepareNextTasks(c0) = PrepareNextTasks(c0)
  /\ \A ts : Abstract!Conflict(ts) <=> Conflict(ts)
  /\ \A c0, ts, at : Abstract!ApplyWrites(c0, ts, at) = ApplyWrites(c0, ts, at)
<1>1. Abstract!EmptyCheckpoint = EmptyCheckpoint
  BY DEF Abstract!EmptyCheckpoint, EmptyCheckpoint
<1>2. \A c0, c : Abstract!Available(c0, c) <=> Available(c0, c)
  BY DEF Abstract!Available, Available, Abstract!Full, Full
<1>3. \A c0 : Abstract!PrepareNextTasks(c0) = PrepareNextTasks(c0)
  BY <1>2 DEF Abstract!PrepareNextTasks, PrepareNextTasks
<1>4. \A ts : Abstract!Conflict(ts) <=> Conflict(ts)
  BY DEF Abstract!Conflict, Conflict
<1>5. \A ts, c, at : Abstract!WrittenTo(ts, c, at) = WrittenTo(ts, c, at)
  BY DEF Abstract!WrittenTo, WrittenTo
<1>6. \A c0, ts : Abstract!Consumed(c0, ts) = Consumed(c0, ts)
  BY <1>2 DEF Abstract!Consumed, Consumed
<1>7. \A c0, ts, c : Abstract!Left(c0, ts, c) = Left(c0, ts, c)
  BY <1>6 DEF Abstract!Left, Left
<1>8. \A c0, ts, c, at : Abstract!News(c0, ts, c, at) = News(c0, ts, c, at)
  BY <1>5, <1>7 DEF Abstract!News, News
<1>9. \A c0, ts, at : Abstract!Expired(c0, ts, at) = Expired(c0, ts, at)
  BY <1>5 DEF Abstract!Expired, Expired
<1>10. \A c0, ts, at : Abstract!Changed(c0, ts, at) = Changed(c0, ts, at)
  BY <1>6, <1>8, <1>9 DEF Abstract!Changed, Changed
<1>11. \A c0, ts, c, at : Abstract!NewValue(c0, ts, c, at) = NewValue(c0, ts, c, at)
  BY <1>7, <1>8, <1>9 DEF Abstract!NewValue, NewValue
<1>12. \A c0, ts, n, c : Abstract!SeenBy(c0, ts, n, c) = SeenBy(c0, ts, n, c)
  BY DEF Abstract!SeenBy, SeenBy
<1>13. \A c0, ts, at : Abstract!ApplyWrites(c0, ts, at) = ApplyWrites(c0, ts, at)
  BY <1>10, <1>11, <1>12 DEF Abstract!ApplyWrites, ApplyWrites
<1> QED BY <1>1, <1>3, <1>4, <1>13

\* A step of the abstract specification, in the terms of this one.
BeginStep ==
  /\ Durable = EmptyCheckpoint /\ PlanOf = {}
  /\ Durable' = ApplyWrites(EmptyCheckpoint, InputWrites, 0)
  /\ PlanOf' \in {{}, PrepareNextTasks(Durable')}
  /\ UNCHANGED <<Round, OutputsOf>>
PlanStep ==
  /\ PlanOf = {} /\ OutputsOf = {} /\ PlanOf' = PrepareNextTasks(Durable)
  /\ UNCHANGED <<Durable, Round, OutputsOf>>
ReportStep ==
  /\ PlanOf # {} /\ OutputsOf' # OutputsOf
  /\ \A o \in OutputsOf' : o.node \in PlanOf \/ \E p \in OutputsOf' : o.node \in p.reaches
  /\ UNCHANGED <<Durable, Round, PlanOf>>
WritesOf ==
  {[name |-> o.node, path |-> o.path, writes |-> o.writes, triggers |-> Triggers[o.node]] :
     o \in {o \in OutputsOf : o.writes # {}}}
CommitStep ==
  /\ PlanOf # {} /\ \A n \in PlanOf : \E o \in OutputsOf : o.node = n
  /\ ~Conflict(WritesOf)
  /\ Durable' = IF WritesOf = {} THEN Durable ELSE ApplyWrites(Durable, WritesOf, Round)
  /\ Round' = Round + 1 /\ OutputsOf' = {}
  /\ PlanOf' \in {{}, PrepareNextTasks(Durable')}
UpdateStep ==
  /\ \E c \in UpdateChan, k \in 1..MaxUpdates, at \in {Round, Round - 1} :
       Durable' = ApplyWrites(Durable, UpdateWrites(c, k), at)
  /\ UNCHANGED <<Round, PlanOf, OutputsOf>>
AbstractStep ==
  \/ BeginStep \/ PlanStep \/ ReportStep \/ CommitStep \/ UpdateStep
  \/ UNCHANGED <<Durable, Round, PlanOf, OutputsOf>>

LEMMA AbstractStepIsOne ==
  ASSUME AbstractStep
  PROVE  [Abstract!Next]_(Abstract!bsp)
<1>1. CASE BeginStep
  <2>1. Abstract!Begin
    BY <1>1, SamePregel DEF BeginStep, Abstract!Begin, Abstract!MayPlan, InputWrites, PlanOf,
       OutputsOf, OutputOf, Round
  <2> QED BY <2>1 DEF Abstract!Next
<1>2. CASE PlanStep
  <2>1. Abstract!Plan
    BY <1>2, SamePregel DEF PlanStep, Abstract!Plan, PlanOf, OutputsOf, OutputOf, Round
  <2> QED BY <2>1 DEF Abstract!Next
<1>3. CASE ReportStep
  <2>1. Abstract!Report
    BY <1>3 DEF ReportStep, Abstract!Report, Abstract!Legitimate, PlanOf, OutputsOf, OutputOf, Round
  <2> QED BY <2>1 DEF Abstract!Next
<1>4. CASE CommitStep
  <2>1. Abstract!RoundWrites = WritesOf
    BY DEF Abstract!RoundWrites, WritesOf, OutputsOf, OutputOf
  <2>2. Abstract!Commit
    BY <1>4, <2>1, SamePregel DEF CommitStep, Abstract!Commit, Abstract!MayPlan, PlanOf, OutputsOf,
       OutputOf, Round
  <2> QED BY <2>2 DEF Abstract!Next
<1>5. CASE UpdateStep
  <2>1. Abstract!Update
    BY <1>5, SamePregel DEF UpdateStep, Abstract!Update, UpdateWrites, PlanOf, OutputsOf, OutputOf,
       Round
  <2> QED BY <2>1 DEF Abstract!Next
<1>6. CASE UNCHANGED <<Durable, Round, PlanOf, OutputsOf>>
  BY <1>6 DEF Abstract!bsp, PlanOf, OutputsOf, OutputOf, Round
<1> QED BY <1>1, <1>2, <1>3, <1>4, <1>5, <1>6 DEF AbstractStep

\* The writes of the abstract round are those handed to apply_writes.
LEMMA SameWrites ==
  ASSUME pc # "after"
  PROVE  WritesOf = TaskWrites(results)
<1>1. OutputsOf = {OutputOf(r) : r \in results}
  BY DEF OutputsOf
<1>2. \A r : /\ OutputOf(r).node = r.task.node /\ OutputOf(r).path = r.task
             /\ OutputOf(r).writes = r.writes
  BY DEF OutputOf
<1> DEFINE Handed(o) == [name |-> o.node, path |-> o.path, writes |-> o.writes,
                         triggers |-> Triggers[o.node]]
<1>3. WritesOf = {Handed(o) : o \in {o \in OutputsOf : o.writes # {}}}
  BY DEF WritesOf
<1>4. TaskWrites(results) = {Handed(OutputOf(r)) : r \in Wrote(results)}
  BY <1>2 DEF TaskWrites
<1> HIDE DEF Handed
<1>5. {o \in OutputsOf : o.writes # {}} = {OutputOf(r) : r \in Wrote(results)}
  BY <1>1, <1>2 DEF Wrote
<1> QED BY <1>3, <1>4, <1>5

\* JSON leaves a state without barriers of a version as it is.
LEMMA JsonIntact ==
  ASSUME NEW c0 \in Checkpoint, Json(c0).lists = {},
         \A c \in c0.lists : c \in Chan /\ Kind[c] = "barrier" /\ c0.ver[c] > 0
  PROVE  Json(c0) = c0
<1>1. Json(c0).lists = {c \in Chan : Kind[c] = "barrier" /\ c0.ver[c] > 0}
  BY JsonType
<1>2. c0.lists = {}
  BY <1>1
<1>3. Json(c0) = [c0 EXCEPT !.lists = {}]
  BY <1>1 DEF Json
<1> QED BY <1>2, <1>3 DEF Checkpoint

\* A run begins: the input arrives, or the round a new run restored is planned.
LEMMA StartAbstract ==
  ASSUME IInv, History, Course, Start
  PROVE  AbstractStep
<1>0. /\ pc = "pending" /\ Durable = input.ck /\ Round = input.step
      /\ pc' \notin {"pending", "after"} /\ Durable' = Restored /\ Round' = RestoredStep
      /\ ck' = Restored /\ Ticked(ck', step')
  BY StartRestores
<1>1. results = {} /\ results' = {}
  BY <1>0 DEF Course, NothingBetweenSupersteps, Ticked
<1>2. PlanOf = {} /\ OutputsOf = {} /\ OutputsOf' = {}
  BY <1>0, <1>1 DEF PlanOf, OutputsOf
<1>3. PlanOf' \in {{}, PrepareNextTasks(Durable')}
  BY <1>0 DEF PlanOf, Ticked
<1>4. CASE Durable' = Durable /\ Round' = Round
  <2>1. CASE PlanOf' = {}
    BY <1>2, <1>4, <2>1 DEF AbstractStep
  <2>2. CASE PlanOf' = PrepareNextTasks(Durable')
    BY <1>2, <1>4, <2>2 DEF AbstractStep, PlanStep
  <2> QED BY <1>3, <2>1, <2>2
<1>5. CASE input.restored
  BY <1>0, <1>4, <1>5 DEF Restored, RestoredStep
<1>6. CASE ~input.restored
  <2>1. Durable = EmptyCheckpoint /\ Round' = Round
    BY <1>0, <1>6 DEF History, FirstRunStartsEmpty, RestoredStep
  <2>2. CASE input.data
    <3>1. Durable' = ApplyWrites(EmptyCheckpoint, InputWrites, 0)
      BY <1>0, <1>6, <2>2 DEF Restored
    <3> QED BY <1>2, <1>3, <2>1, <3>1 DEF AbstractStep, BeginStep
  <2>3. CASE ~input.data
    BY <1>0, <1>4, <1>6, <2>1, <2>3 DEF Restored
  <2> QED BY <2>2, <2>3
<1> QED BY <1>5, <1>6

\* interrupt_after ends: the next round is planned, here or in a new run.
LEMMA WakeAbstract ==
  ASSUME IInv, History, Course, WakeAfter, BarriersIntact'
  PROVE  AbstractStep
<1>0. Advanced(ck, stream) /\ pc = "after" /\ Durable = ck /\ Round = step + 1
  BY WakeAdvances
<1>1. Advanced(ck, stream) /\ pc = "after" /\ Durable' = Durable /\ Round' = Round /\ Durable = ck
  <2>1. Json(ck).lists = {} => Json(ck) = ck
    BY <1>0, DurableType, JsonIntact DEF History, ListsHaveVersions
  <2> QED BY <1>0, <2>1 DEF Advanced, BarriersIntact
<1>2. PlanOf = {} /\ OutputsOf = {}
  BY <1>1 DEF PlanOf, OutputsOf
<1>3. OutputsOf' = {} /\ PlanOf' \in {{}, PrepareNextTasks(ck)}
  <2>1. results' = {}
    BY <1>1 DEF Advanced, Ticked
  <2> QED BY <1>1, <2>1 DEF PlanOf, OutputsOf, Advanced, Ticked
<1>4. CASE PlanOf' = {}
  BY <1>1, <1>2, <1>3, <1>4 DEF AbstractStep
<1>5. CASE PlanOf' = PrepareNextTasks(ck)
  BY <1>1, <1>2, <1>3, <1>5 DEF AbstractStep, PlanStep
<1> QED BY <1>3, <1>4, <1>5

\* An update, accounted to the round before while interrupt_after pauses.
LEMMA UpdateAbstract ==
  ASSUME IInv, NEW d \in UpdateChan, UpdateStateSignal(d)
  PROVE  AbstractStep
<1>1. /\ pc' = pc /\ Round' = Round /\ PlanOf' = PlanOf /\ OutputsOf' = OutputsOf
      /\ Len(updates) < MaxUpdates
  BY DEF UpdateStateSignal, Round, DurableStep, PlanOf, OutputsOf, exec
<1>2. CASE pc = "pending"
  <2>1. Durable' = Durable
    BY <1>2 DEF UpdateStateSignal, Durable, state
  <2> QED BY <1>1, <2>1 DEF AbstractStep
<1>3. CASE pc # "pending"
  <2>1. Durable' = ApplyWrites(Durable, UpdateWrites(d, Len(updates) + 1), step)
    BY <1>3 DEF UpdateStateSignal, Durable
  <2>2. Len(updates) + 1 \in 1..MaxUpdates
    BY <1>1, WorkflowAssumption DEF IInv, OutsideOK
  <2>3. step \in {Round, Round - 1}
    BY <1>3, DurableType DEF Round, DurableStep
  <2> QED BY <1>1, <2>1, <2>2, <2>3 DEF AbstractStep, UpdateStep
<1> QED BY <1>2, <1>3

\* The end of a superstep.
LEMMA CommitAbstract ==
  ASSUME IInv, History, Course, Commits, BarriersIntact'
  PROVE  AbstractStep
<1>0. /\ pc \in Executing /\ pc \notin {"pending", "after"} /\ Durable = ck /\ Round = step
      /\ inflight = {} /\ (pc = "resumed" => todo = {}) /\ Round' = step + 1
      /\ \/ Durable' = ApplyResults(results)
         \/ Durable' = Json(ApplyResults(results))
  BY DEF Commits, Advanced, Durable, DurableStep, Round, Executing
<1>1. /\ pc \in Executing /\ pc \notin {"pending", "after"} /\ Durable = ck /\ Round = step
      /\ inflight = {} /\ (pc = "resumed" => todo = {})
      /\ Durable' = ApplyResults(results) /\ Round' = step + 1
  <2>1. Past
    BY DEF History, Past
  <2>2. Follows(Durable', ck, TaskWrites(results), step)
    BY <1>0, <2>1, CommitFollows
  <2>3. ck.lists = {}
    BY <2>2 DEF Follows, BarriersIntact
  <2>4. ApplyResults(results).lists = {}
    BY <2>3 DEF ApplyResults, ApplyWrites
  <2>5. ApplyResults(results) \in Checkpoint
    BY ApplyResultsOK DEF IInv, Core, ControlOK
  <2>6. CASE Durable' = Json(ApplyResults(results))
    BY <1>0, <2>4, <2>5, <2>6, JsonIntact DEF BarriersIntact
  <2> QED BY <1>0, <2>6
<1>2. PlanOf = tasks /\ tasks # {}
  BY <1>1 DEF PlanOf, Course, NothingBetweenSupersteps, Executing
<1>3. \A n \in PlanOf : \E o \in OutputsOf : o.node = n
  <2>1. ASSUME NEW n \in tasks PROVE \E o \in OutputsOf : o.node = n
    <3>1. PICK r \in results : r.task.node = n
      BY <1>1 DEF Course, EveryTaskIsServed, HasResult
    <3>2. OutputOf(r) \in OutputsOf /\ OutputOf(r).node = n
      BY <1>1, <3>1 DEF OutputsOf, OutputOf
    <3> QED BY <3>2
  <2> QED BY <1>2, <2>1
<1>4. WritesOf = TaskWrites(results)
  BY <1>1, SameWrites
<1>5. ApplyResults(results) =
        IF WritesOf = {} THEN Durable ELSE ApplyWrites(Durable, WritesOf, Round)
  <2>1. TaskWrites(results) = {} <=> Wrote(results) = {}
    BY DEF TaskWrites
  <2> QED BY <1>1, <1>4, <2>1 DEF ApplyResults
<1>6. OutputsOf' = {} /\ PlanOf' \in {{}, PrepareNextTasks(Durable')}
  <2>1. CASE pc' = "after"
    BY <2>1 DEF OutputsOf, PlanOf
  <2>2. CASE Advanced(ApplyResults(results), EmitStreamEvents(results))
    <3>1. results' = {}
      BY <2>2 DEF Advanced, Ticked
    <3> QED BY <1>1, <2>2, <3>1 DEF OutputsOf, PlanOf, Advanced, Ticked
  <2> QED BY <2>1, <2>2 DEF Commits
<1>7. ~Conflict(WritesOf)
  BY <1>4 DEF Commits, Raises
<1> QED BY <1>1, <1>2, <1>3, <1>5, <1>6, <1>7 DEF AbstractStep, CommitStep

\* Everything else in a superstep reports results, or is not seen.
LEMMA BetweenAbstract ==
  ASSUME IInv, Course, Course', Between
  PROVE  AbstractStep
<1>1. Durable' = Durable /\ Round' = Round /\ tasks' = tasks
  BY BetweenKeeps DEF Between
<1>2. (pc \in {"pending", "after"} <=> pc' \in {"pending", "after"}) /\ (pc = "after" <=> pc' = "after")
  BY DEF Between, Executing
<1>3. PlanOf' = PlanOf
  BY <1>1, <1>2 DEF PlanOf
<1>4. CASE OutputsOf' = OutputsOf
  BY <1>1, <1>3, <1>4 DEF AbstractStep
<1>5. CASE OutputsOf' # OutputsOf
  <2>1. pc # "after" /\ pc' # "after" /\ results' # results
    BY <1>2, <1>5 DEF OutputsOf
  <2>2. tasks # {} /\ pc # "pending"
    BY <1>1, <2>1 DEF Course, NothingBetweenSupersteps
  <2>3. PlanOf = tasks
    BY <2>1, <2>2 DEF PlanOf
  <2>4. ASSUME NEW o \in OutputsOf'
        PROVE  o.node \in PlanOf \/ \E p \in OutputsOf' : o.node \in p.reaches
    <3>1. OutputsOf' = {OutputOf(r) : r \in results'}
      BY <2>1 DEF OutputsOf, OutputOf, Reaches
    <3>2. PICK r \in results' : o = OutputOf(r)
      BY <2>4, <3>1
    <3>3. r.task.node \in tasks \/ \E q \in results' : r.task.node \in Reaches(q)
      BY <1>1, <3>2 DEF Course, OnlyPlannedOrReached, PlannedOrReached, ReachedBy
    <3>4. o.node = r.task.node /\ \A q : OutputOf(q).reaches = Reaches(q)
      BY <3>2 DEF OutputOf
    <3> QED BY <2>3, <3>1, <3>3, <3>4
  <2> QED BY <1>1, <1>3, <1>5, <2>2, <2>3, <2>4 DEF AbstractStep, ReportStep
<1> QED BY <1>4, <1>5

\* The workflow begins as an abstract computation does.
LEMMA InitAbstract == Init => Abstract!Init
BY SamePregel DEF Init, Abstract!Init, Durable, DurableStep

\* The workflow of every graph executes rounds: each planned from the state, complete before
\* it counts, and applied as a whole to the state as it is then, whatever the order of
\* activities, children, pauses, answers, updates and new runs.  Of a graph with barriers,
\* every step does that is taken before a continue-as-new makes a barrier's set a list.
THEOREM SuperstepsImplemented == Spec => ImplementsSupersteps
<1> DEFINE Rounds == BarriersIntact' => Abstract!Next
<1>1. IInv /\ History /\ Course /\ Course' /\ [Next]_vars => [Rounds]_(Abstract!bsp)
  <2> SUFFICES ASSUME IInv, History, Course, Course', [Next]_vars, BarriersIntact'
               PROVE  [Abstract!Next]_(Abstract!bsp)
    OBVIOUS
  <2>1. AbstractStep
    BY StepKinds, StartAbstract, WakeAbstract, UpdateAbstract, CommitAbstract, BetweenAbstract
  <2> QED BY <2>1, AbstractStepIsOne
<1>2. IInv /\ History /\ Course /\ [Next]_vars => Course'
  BY StepCourse
<1>3. Init => Abstract!Init
  BY InitAbstract
<1>4. ImplementsSupersteps <=> Abstract!Init /\ [][Rounds]_(Abstract!bsp)
  BY DEF ImplementsSupersteps
<1> HIDE DEF Rounds
<1> QED BY <1>1, <1>2, <1>3, <1>4, CourseHolds, PTL DEF Spec
=============================================================================
