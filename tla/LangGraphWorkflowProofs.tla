----------------------- MODULE LangGraphWorkflowProofs -----------------------
(***************************************************************************)
(* Safety of LangGraphWorkflow for every graph, every node behaviour and   *)
(* every value of the bounds: type correctness, the order of versions, the *)
(* agreement of status and pause, and the isolation of resume values.      *)
(***************************************************************************)
EXTENDS LangGraphWorkflow, SequenceTheorems, TLAPS

Writer == Node \cup {"__input__", "__update__"}

\* What apply_writes is called with.
TasksOK(ts) == \A t \in ts : t.name \in Writer /\ \A w \in t.writes : w[2] \in Nat

-----------------------------------------------------------------------------
(***************************************************************************)
(* apply_writes.                                                           *)
(***************************************************************************)

\* The values written are tokens.
LEMMA WrittenToType ==
  ASSUME NEW ts, TasksOK(ts), NEW c, NEW at \in Nat
  PROVE  WrittenTo(ts, c, at) \subseteq Token
BY DEF WrittenTo, TasksOK, Token, Writer

\* apply_writes turns a checkpoint into a checkpoint.
LEMMA ApplyWritesType ==
  ASSUME NEW c0 \in Checkpoint, NEW ts, TasksOK(ts), NEW at \in Nat
  PROVE  ApplyWrites(c0, ts, at) \in Checkpoint
<1>1. /\ c0.ver \in [Chan -> Nat] /\ c0.top \in Nat
      /\ c0.val \in [Chan -> SUBSET Token] /\ c0.seen \in [Node -> [Chan -> Nat]]
  BY DEF Checkpoint
<1>2. ASSUME NEW c \in Chan PROVE NewValue(c0, ts, c, at) \subseteq Token
  <2>1. News(c0, ts, c, at) \subseteq Token
    BY WrittenToType DEF News
  <2>2. Left(c0, ts, c) \subseteq Token
    BY <1>1 DEF Left
  <2> QED BY <2>1, <2>2 DEF NewValue
<1>3. ASSUME NEW c \in Chan, NEW n \in Node PROVE SeenBy(c0, ts, n, c) \in Nat
  BY <1>1 DEF SeenBy
<1> DEFINE r == ApplyWrites(c0, ts, at)
<1>4. r.ver \in [Chan -> Nat] /\ r.top \in Nat
  BY <1>1 DEF ApplyWrites
<1>5. r.val \in [Chan -> SUBSET Token]
  BY <1>2 DEF ApplyWrites
<1>6. r.seen \in [Node -> [Chan -> Nat]]
  BY <1>3 DEF ApplyWrites
<1>7. /\ r = [ver |-> r.ver, top |-> r.top, val |-> r.val, seen |-> r.seen, lists |-> r.lists]
      /\ r.lists = c0.lists
  BY DEF ApplyWrites
<1>8. r.lists \subseteq Chan
  BY <1>7 DEF Checkpoint
<1> HIDE DEF r
<1> QED BY <1>4, <1>5, <1>6, <1>7, <1>8 DEF Checkpoint, r

\* The converter changes nothing but which barriers have a list, and never gives one back.
LEMMA JsonType ==
  ASSUME NEW c0 \in Checkpoint
  PROVE  /\ Json(c0) \in Checkpoint
         /\ Json(c0).ver = c0.ver /\ Json(c0).top = c0.top
         /\ Json(c0).val = c0.val /\ Json(c0).seen = c0.seen
         /\ Json(c0).lists = {c \in Chan : Kind[c] = "barrier" /\ c0.ver[c] > 0}
<1> DEFINE ls == {c \in Chan : Kind[c] = "barrier" /\ c0.ver[c] > 0}
<1>1. Json(c0) = [c0 EXCEPT !.lists = ls]
  BY DEF Json
<1>2. ls \in SUBSET Chan
  OBVIOUS
<1> HIDE DEF ls
<1>3. /\ Json(c0) \in Checkpoint
      /\ Json(c0).ver = c0.ver /\ Json(c0).top = c0.top
      /\ Json(c0).val = c0.val /\ Json(c0).seen = c0.seen
      /\ Json(c0).lists = ls
  BY <1>1, <1>2 DEF Checkpoint
<1> QED BY <1>3 DEF ls

\* apply_writes keeps what is seen behind what exists, and what exists behind the top.
LEMMA ApplyWritesBounded ==
  ASSUME NEW c0 \in Checkpoint, SeenBounded(c0), NEW ts, NEW at \in Nat
  PROVE  SeenBounded(ApplyWrites(c0, ts, at))
<1>1. /\ c0.ver \in [Chan -> Nat] /\ c0.top \in Nat
      /\ c0.seen \in [Node -> [Chan -> Nat]]
  BY DEF Checkpoint
<1> DEFINE r == ApplyWrites(c0, ts, at)
<1>2. SUFFICES ASSUME NEW c \in Chan
               PROVE  r.ver[c] <= r.top /\ \A n \in Node : r.seen[n][c] <= r.ver[c]
  BY DEF SeenBounded
<1>3. r.ver[c] = IF c \in Changed(c0, ts, at) THEN c0.top + 1 ELSE c0.ver[c]
  BY DEF ApplyWrites
<1>4. r.top = IF Changed(c0, ts, at) = {} THEN c0.top ELSE c0.top + 1
  BY DEF ApplyWrites
<1>5. c0.ver[c] <= r.ver[c]
  BY <1>1, <1>3 DEF SeenBounded
<1>6. r.ver[c] <= r.top
  BY <1>1, <1>3, <1>4 DEF SeenBounded
<1>7. ASSUME NEW n \in Node PROVE r.seen[n][c] <= r.ver[c]
  <2>1. r.seen[n][c] = SeenBy(c0, ts, n, c)
    BY DEF ApplyWrites
  <2>2. SeenBy(c0, ts, n, c) <= c0.ver[c]
    BY <1>1 DEF SeenBy, SeenBounded
  <2> QED BY <1>1, <1>3, <1>5, <2>1, <2>2 DEF SeenBy
<1> QED BY <1>6, <1>7

-----------------------------------------------------------------------------
(***************************************************************************)
(* The inductive invariant.  The properties are not inductive alone:       *)
(*  - the versions of the state depend on those a continue-as-new left in  *)
(*    the input, hence VersionsConsistent covers both;                     *)
(*  - that a re-executed node gets answers of its own pause follows from   *)
(*    what resume_values may hold while run() waits and while it goes      *)
(*    through the interrupted nodes, AnswersOfThisPause.                   *)
(***************************************************************************)
AnswersOfThisPause ==
  /\ pc \in Waiting \cup {"resumed"} =>
       \A i \in 1..Len(resumeValues) : resumeValues[i].got = pauses
  /\ (pc \in Waiting /\ resumeEvent) \/ pc = "resumed" => Len(resumeValues) > 0

\* run() waits for activities or for people, never for both.
NoWorkWhilePaused == pc \in Waiting => inflight = {}

LastOK == last \in [Node -> [at : Nat, wrote : BOOLEAN]]

\* The part of it that is about the workflow, not about signals under way.
Core ==
  /\ ControlOK /\ HumanOK /\ StateOK /\ LastOK
  /\ VersionsConsistent
  /\ StatusTellsThePause
  /\ AnswersOfThisPause
  /\ NoWorkWhilePaused
  /\ ResumedWithAnswer

IInv == Core /\ OutsideOK

-----------------------------------------------------------------------------
(***************************************************************************)
(* The parts of run(): each re-establishes Core at the next await.         *)
(***************************************************************************)

\* The empty sequence is one over any set.
LEMMA EmptySequence == ASSUME NEW S PROVE <<>> \in Seq(S)
OBVIOUS

\* prepare_next_tasks plans nodes of the graph.
LEMMA PrepareType == ASSUME NEW c0 PROVE PrepareNextTasks(c0) \subseteq Node
BY DEF PrepareNextTasks

\* An instance starts with a checkpoint in which nothing has been seen.
LEMMA EmptyCheckpointOK == EmptyCheckpoint \in Checkpoint /\ SeenBounded(EmptyCheckpoint)
BY DEF EmptyCheckpoint, Checkpoint, SeenBounded

\* The state part of Core, with the checkpoint and step the segment ends with.
StateCore == StateOK /\ VersionsConsistent

\* The rest of Core.
FlowCore ==
  /\ ControlOK /\ HumanOK /\ StatusTellsThePause /\ AnswersOfThisPause
  /\ NoWorkWhilePaused /\ ResumedWithAnswer

\* The three parts a segment re-establishes separately.
LEMMA CoreParts == Core <=> StateCore /\ FlowCore /\ LastOK
BY DEF Core, StateCore, FlowCore

\* _wait_for_resume.
LEMMA WaitStep ==
  ASSUME FlowCore, NEW at \in Waiting, NEW what,
         what \subseteq Node \X {"before", "after", "node"}, WaitForResume(at, what),
         tasks' \subseteq Node, inflight' = {}, todo' = {}, results' \subseteq Result
  PROVE  FlowCore'
<1>1. ControlOK'
  BY DEF WaitForResume, ControlOK, Waiting
<1>2. HumanOK'
  <2>1. status' \in {"pending", "running", "interrupted", "done"}
    BY DEF WaitForResume
  <2>2. interrupts' \subseteq Node \X {"before", "after", "node"}
    BY DEF WaitForResume
  <2>3. resumeValues' \in Seq(Answer) /\ resumeEvent' \in BOOLEAN
    BY EmptySequence DEF WaitForResume, ClearAnswers
  <2>4. pauses' \in Nat /\ sent' \in Nat
    BY DEF FlowCore, WaitForResume, HumanOK
  <2> QED BY <2>1, <2>2, <2>3, <2>4 DEF HumanOK
<1>3. StatusTellsThePause'
  BY DEF WaitForResume, StatusTellsThePause
<1>4. AnswersOfThisPause'
  <2>1. Len(resumeValues') = 0 /\ ~resumeEvent' /\ pc' # "resumed"
    BY DEF WaitForResume, ClearAnswers, Waiting
  <2> QED BY <2>1 DEF AnswersOfThisPause
<1>5. ResumedWithAnswer' /\ NoWorkWhilePaused'
  BY DEF ResumedWithAnswer, NoWorkWhilePaused
<1> QED BY <1>1, <1>2, <1>3, <1>4, <1>5 DEF FlowCore

\* An await of activities of which none is a re-execution.
LEMMA AwaitStep ==
  ASSUME FlowCore, NEW at \in Executing \ {"resumed"}, NEW ts, ts \subseteq Task,
         \A t \in ts : t.kind # "resume", Await(at, ts),
         tasks' \subseteq Node, todo' \subseteq Ran, results' \subseteq Result
  PROVE  FlowCore'
<1>1. ControlOK'
  BY DEF Await, ControlOK
<1>2. HumanOK'
  BY DEF FlowCore, Await, Running, HumanOK
<1>3. StatusTellsThePause'
  BY DEF Await, Running, StatusTellsThePause, Waiting, Executing
<1>4. AnswersOfThisPause'
  BY DEF Await, AnswersOfThisPause, Waiting, Executing
<1>5. ResumedWithAnswer' /\ NoWorkWhilePaused'
  BY DEF Await, ResumedWithAnswer, NoWorkWhilePaused, Waiting, Executing
<1> QED BY <1>1, <1>2, <1>3, <1>4, <1>5 DEF FlowCore

\* _execute_nodes, up to its gather.
LEMMA ExecuteNodesStep ==
  ASSUME FlowCore, NEW ns \in SUBSET Node, ExecuteNodes(ns)
  PROVE  FlowCore'
<1> DEFINE ts == {PullTask(n) : n \in ns}
<1>1. ASSUME NEW n \in Node PROVE PullTask(n) \in Task /\ PullTask(n).kind # "resume"
  BY EmptySequence DEF PullTask, Task
<1>2. ts \subseteq Task /\ \A t \in ts : t.kind # "resume"
  BY <1>1
<1>3. /\ Await("nodes", ts) /\ tasks' \subseteq Node
      /\ todo' \subseteq Ran /\ results' \subseteq Result
  BY DEF ExecuteNodes
<1>4. "nodes" \in Executing \ {"resumed"}
  BY DEF Executing
<1> HIDE DEF ts
<1> QED BY <1>2, <1>3, <1>4, AwaitStep

\* run() returns.
LEMMA ReturnStep ==
  ASSUME FlowCore, Return
  PROVE  FlowCore'
<1>1. ControlOK'
  BY DEF Return, Nothing, ControlOK, Ended
<1>2. HumanOK'
  BY DEF FlowCore, Return, HumanOK
<1>3. /\ StatusTellsThePause' /\ AnswersOfThisPause'
      /\ NoWorkWhilePaused' /\ ResumedWithAnswer'
  BY DEF Return, Nothing, StatusTellsThePause, AnswersOfThisPause, NoWorkWhilePaused,
         ResumedWithAnswer, Waiting
<1> QED BY <1>1, <1>2, <1>3 DEF FlowCore

\* The head of the loop.
LEMMA TickStep ==
  ASSUME FlowCore, NEW c, NEW s, Tick(c, s)
  PROVE  FlowCore'
<1> DEFINE ns == PrepareNextTasks(c)
<1>1. ns \in SUBSET Node
  BY PrepareType
<1>2. CASE Return
  BY <1>2, ReturnStep
<1>3. CASE /\ WaitForResume("before", {<<n, "before">> : n \in ns})
           /\ tasks' = ns /\ Nothing
  <2>1. {<<n, "before">> : n \in ns} \subseteq Node \X {"before", "after", "node"}
    BY <1>1
  <2>2. "before" \in Waiting
    BY DEF Waiting
  <2> QED BY <1>1, <1>3, <2>1, <2>2, WaitStep DEF Nothing
<1>4. CASE ExecuteNodes(ns)
  BY <1>1, <1>4, ExecuteNodesStep
<1> QED BY <1>2, <1>3, <1>4 DEF Tick

\* A new run.
LEMMA ContinueStep ==
  ASSUME Core, NEW c0 \in Checkpoint, SeenBounded(c0), ContinueAsNew(c0)
  PROVE  StateCore' /\ FlowCore'
<1>1. StateOK'
  <2>1. input' \in [data : BOOLEAN, restored : BOOLEAN, ck : Checkpoint, step : Nat]
    BY JsonType DEF ContinueAsNew, NextInput, NextStep, Core, StateOK
  <2>2. ck' \in Checkpoint /\ step' \in Nat /\ stepsInRun' \in Nat
    BY EmptyCheckpointOK DEF ContinueAsNew
  <2>3. stream' \in Seq([step : Nat, nodes : SUBSET Node])
    BY EmptySequence DEF ContinueAsNew
  <2> QED BY <2>1, <2>2, <2>3 DEF StateOK
<1>2. VersionsConsistent'
  <2>1. ck' = EmptyCheckpoint /\ input'.ck = Json(c0)
    BY DEF ContinueAsNew, NextInput
  <2> QED BY <2>1, JsonType, EmptyCheckpointOK DEF VersionsConsistent, SeenBounded
<1>3. ControlOK'
  BY DEF ContinueAsNew, Nothing, ControlOK
<1>4. HumanOK'
  <2>1. resumeValues' \in Seq(Answer)
    BY EmptySequence DEF ContinueAsNew
  <2> QED BY <2>1 DEF ContinueAsNew, HumanOK, Core
<1>5. /\ StatusTellsThePause' /\ AnswersOfThisPause'
      /\ NoWorkWhilePaused' /\ ResumedWithAnswer'
  BY DEF ContinueAsNew, Nothing, StatusTellsThePause, AnswersOfThisPause, NoWorkWhilePaused,
         ResumedWithAnswer, Waiting
<1> QED BY <1>1, <1>2, <1>3, <1>4, <1>5 DEF StateCore, FlowCore

\* After a superstep: a new run, or the next iteration.
LEMMA AdvanceStep ==
  ASSUME Core, NEW c0 \in Checkpoint, SeenBounded(c0),
         NEW st \in Seq([step : Nat, nodes : SUBSET Node]), Advance(c0, st)
  PROVE  StateCore' /\ FlowCore'
<1>1. CASE ContinueAsNew(c0)
  BY <1>1, ContinueStep
<1>2. CASE /\ ck' = c0 /\ step' = NextStep(c0) /\ stepsInRun' = stepsInRun + 1
           /\ stream' = st /\ UNCHANGED input /\ Tick(c0, NextStep(c0))
  <2>1. StateOK'
    BY <1>2 DEF Core, StateOK, NextStep
  <2>2. VersionsConsistent'
    BY <1>2 DEF Core, VersionsConsistent, SeenBounded
  <2>3. FlowCore'
    BY <1>2, CoreParts, TickStep
  <2> QED BY <2>1, <2>2, <2>3 DEF StateCore
<1> QED BY <1>1, <1>2 DEF Advance

\* The writes of a superstep.
LEMMA TaskWritesOK ==
  ASSUME NEW rs \in SUBSET Result
  PROVE  TasksOK(TaskWrites(rs))
<1>1. SUFFICES ASSUME NEW t \in TaskWrites(rs)
               PROVE  t.name \in Writer /\ \A w \in t.writes : w[2] \in Nat
  BY DEF TasksOK
<1>2. PICK r \in rs : t.name = r.task.node /\ t.writes = r.writes
  BY DEF TaskWrites, Wrote
<1>3. r.task \in Ran /\ r.writes \in SUBSET ((Chan \cup {Messages, Resume}) \X Nat)
  BY DEF Result
<1> QED BY <1>2, <1>3 DEF Ran, Writer

\* The checkpoint a superstep commits is one, with its versions in order.
LEMMA ApplyResultsOK ==
  ASSUME Core, NEW rs \in SUBSET Result
  PROVE  ApplyResults(rs) \in Checkpoint /\ SeenBounded(ApplyResults(rs))
<1>1. ck \in Checkpoint /\ step \in Nat /\ SeenBounded(ck)
  BY DEF Core, StateOK, VersionsConsistent
<1>2. TasksOK(TaskWrites(rs))
  BY TaskWritesOK
<1> QED BY <1>1, <1>2, ApplyWritesType, ApplyWritesBounded DEF ApplyResults

\* Streamed events name the step and nodes of the graph.
LEMMA StreamOK ==
  ASSUME Core, NEW rs \in SUBSET Result
  PROVE  EmitStreamEvents(rs) \in Seq([step : Nat, nodes : SUBSET Node])
<1> DEFINE e == [step |-> step, nodes |-> {r.task.node : r \in Wrote(rs)}]
<1>1. {r.task.node : r \in Wrote(rs)} \subseteq Node
  BY DEF Wrote, Result, Ran
<1>2. step \in Nat /\ stream \in Seq([step : Nat, nodes : SUBSET Node])
  BY DEF Core, StateOK
<1>3. e \in [step : Nat, nodes : SUBSET Node]
  BY <1>1, <1>2
<1>4. EmitStreamEvents(rs) = Append(stream, e)
  BY DEF EmitStreamEvents
<1> HIDE DEF e
<1> QED BY <1>2, <1>3, <1>4, AppendProperties

\* The end of a superstep.
LEMMA FinishStep ==
  ASSUME Core, NEW rs \in SUBSET Result, pc \in Executing, FinishSuperstep(rs)
  PROVE  Core'
<1>1. CASE pc' = "stuck" /\ UNCHANGED <<exec, hitl, state, last>>
  <2>1. FlowCore'
    BY <1>1 DEF Core, FlowCore, exec, hitl, ControlOK, HumanOK, StatusTellsThePause,
                AnswersOfThisPause, NoWorkWhilePaused, ResumedWithAnswer, Waiting, Executing,
                Ended
  <2>2. StateCore' /\ LastOK'
    BY <1>1 DEF Core, StateCore, state, StateOK, VersionsConsistent, SeenBounded, LastOK
  <2> QED BY <2>1, <2>2 DEF Core, StateCore, FlowCore
<1>2. ASSUME last' = Executed(rs) PROVE LastOK'
  <2>1. step \in Nat /\ LastOK
    BY DEF Core, StateOK
  <2> QED BY <1>2, <2>1 DEF LastOK, Executed
<1>3. CASE /\ last' = Executed(rs)
           /\ ck' = ApplyResults(rs)
           /\ stream' = EmitStreamEvents(rs)
           /\ WaitForResume("after", {<<n, "after">> : n \in tasks})
           /\ results' = rs /\ inflight' = {} /\ todo' = {}
           /\ UNCHANGED <<step, stepsInRun, input, tasks>>
  <2>1. tasks \subseteq Node
    BY DEF Core, ControlOK
  <2>2. {<<n, "after">> : n \in tasks} \subseteq Node \X {"before", "after", "node"}
    BY <2>1
  <2>3. "after" \in Waiting
    BY DEF Waiting
  <2>4. FlowCore'
    BY <1>3, <2>1, <2>2, <2>3, CoreParts, WaitStep
  <2>5. StateOK'
    BY <1>3, ApplyResultsOK, StreamOK DEF Core, StateOK
  <2>6. VersionsConsistent'
    BY <1>3, ApplyResultsOK DEF Core, VersionsConsistent, SeenBounded
  <2> QED BY <1>2, <1>3, <2>4, <2>5, <2>6 DEF Core, FlowCore
<1>4. CASE last' = Executed(rs) /\ Advance(ApplyResults(rs), EmitStreamEvents(rs))
  <2>1. StateCore' /\ FlowCore'
    BY <1>4, ApplyResultsOK, StreamOK, AdvanceStep
  <2> QED BY <1>2, <1>4, <2>1 DEF Core, StateCore, FlowCore
<1> QED BY <1>1, <1>3, <1>4 DEF FinishSuperstep

\* The tasks of the later batches of a superstep.
LEMMA GotoTasksType ==
  ASSUME NEW rs \in SUBSET Result
  PROVE  GotoTasks(rs) \subseteq Task /\ \A t \in GotoTasks(rs) : t.kind # "resume"
<1>1. SUFFICES ASSUME NEW t \in GotoTasks(rs) PROVE t \in Task /\ t.kind # "resume"
  OBVIOUS
<1>2. PICK r \in rs : \E n \in r.gotos :
        t = [kind |-> "goto", node |-> n, from |-> r.task.from, arg |-> r.task.arg,
             resume |-> <<>>]
  BY DEF GotoTasks
<1>3. PICK n \in r.gotos :
        t = [kind |-> "goto", node |-> n, from |-> r.task.from, arg |-> r.task.arg,
             resume |-> <<>>]
  BY <1>2
<1>4. r.task \in Task /\ n \in Node \cup {End}
  BY DEF Result, Ran
<1>5. r.task.from \in Node /\ r.task.arg \in Nat
  BY <1>4 DEF Task
<1> QED BY <1>3, <1>4, <1>5, EmptySequence DEF Task

\* Likewise the tasks of Sends.
LEMMA PushTasksType ==
  ASSUME NEW rs \in SUBSET Result
  PROVE  PushTasks(rs) \subseteq Task /\ \A t \in PushTasks(rs) : t.kind # "resume"
<1>1. SUFFICES ASSUME NEW t \in PushTasks(rs) PROVE t \in Task /\ t.kind # "resume"
  OBVIOUS
<1>2. PICK r \in rs : \E s \in r.sends :
        t = [kind |-> "push", node |-> s[1], from |-> r.task.node, arg |-> s[2],
             resume |-> <<>>]
  BY DEF PushTasks
<1>3. PICK s \in r.sends :
        t = [kind |-> "push", node |-> s[1], from |-> r.task.node, arg |-> s[2],
             resume |-> <<>>]
  BY <1>2
<1>4. r.task \in Ran /\ s \in Node \X Nat
  BY DEF Result
<1>5. r.task.node \in Node /\ s[1] \in Node /\ s[2] \in Nat
  BY <1>4 DEF Ran
<1> QED BY <1>3, <1>5, EmptySequence DEF Task

\* Likewise the child workflows.
LEMMA ChildrenType ==
  ASSUME NEW rs \in SUBSET Result, NEW u
  PROVE  ChildrenOf(rs, u) \subseteq Task /\ \A t \in ChildrenOf(rs, u) : t.kind # "resume"
<1>1. SUFFICES ASSUME NEW t \in ChildrenOf(rs, u) PROVE t \in Task /\ t.kind # "resume"
  OBVIOUS
<1>2. PICK r \in rs : \E i \in 1..r.kids :
        t = [kind |-> "child", node |-> r.task.node, from |-> r.task.node, arg |-> i,
             resume |-> <<>>]
  BY DEF ChildrenOf, Children
<1>3. PICK i \in 1..r.kids :
        t = [kind |-> "child", node |-> r.task.node, from |-> r.task.node, arg |-> i,
             resume |-> <<>>]
  BY <1>2
<1>4. r.task \in Ran /\ r.kids \in Nat
  BY DEF Result
<1>5. r.task.node \in Node /\ i \in Nat
  BY <1>4 DEF Ran
<1> QED BY <1>3, <1>5, EmptySequence DEF Task

\* Awaiting another batch of the superstep leaves the state and the history alone.
LEMMA BatchStep ==
  ASSUME Core, NEW at \in Executing \ {"resumed"}, NEW ts, ts \subseteq Task,
         \A t \in ts : t.kind # "resume", Await(at, ts),
         NEW rs \in SUBSET Result, results' = rs, todo' \subseteq Ran,
         UNCHANGED <<tasks, state, last>>
  PROVE  Core'
<1>1. tasks' \subseteq Node
  BY DEF Core, ControlOK
<1>2. FlowCore'
  BY <1>1, CoreParts, AwaitStep
<1>3. StateCore' /\ LastOK'
  BY DEF Core, StateCore, state, StateOK, VersionsConsistent, SeenBounded, LastOK
<1> QED BY <1>2, <1>3 DEF Core, StateCore, FlowCore

\* The awaits of activities and children.
LEMMA ExecutingNames ==
  /\ Executing = {"nodes", "children", "resumed", "push", "goto"}
  /\ {"nodes", "children", "push", "goto"} \subseteq Executing \ {"resumed"}
BY DEF Executing

\* After the Sends: gotos, or the end of the superstep.
LEMMA AfterPushStep ==
  ASSUME Core, NEW rs \in SUBSET Result, pc \in Executing, AfterPush(rs)
  PROVE  Core'
<1>1. CASE FinishSuperstep(rs)
  BY <1>1, FinishStep
<1>2. CASE /\ Await("goto", GotoTasks(rs)) /\ results' = rs /\ todo' = {}
           /\ UNCHANGED <<tasks, state, last>>
  <2>1. todo' \subseteq Ran
    BY <1>2
  <2> QED BY <1>2, <2>1, GotoTasksType, ExecutingNames, BatchStep
<1> QED BY <1>1, <1>2 DEF AfterPush

\* After the interrupted nodes: Sends, gotos, or the end of the superstep.
LEMMA AfterResumeStep ==
  ASSUME Core, NEW rs \in SUBSET Result, pc \in Executing, AfterResume(rs)
  PROVE  Core'
<1>1. CASE AfterPush(rs)
  BY <1>1, AfterPushStep
<1>2. CASE /\ Await("push", PushTasks(rs)) /\ results' = rs /\ todo' = {}
           /\ UNCHANGED <<tasks, state, last>>
  <2>1. todo' \subseteq Ran
    BY <1>2
  <2> QED BY <1>2, <2>1, PushTasksType, ExecutingNames, BatchStep
<1> QED BY <1>1, <1>2 DEF AfterResume

\* After the child workflows: a pause for the interrupted nodes, or what follows it.
LEMMA AfterChildrenStep ==
  ASSUME Core, NEW rs \in SUBSET Result, pc \in Executing, AfterChildren(rs)
  PROVE  Core'
<1>1. CASE AfterResume(rs)
  BY <1>1, AfterResumeStep
<1> DEFINE what == {<<r.task.node, "node">> : r \in Interrupted(rs)}
<1>2. CASE /\ WaitForResume("interrupted", what)
           /\ results' = rs /\ inflight' = {} /\ todo' = {}
           /\ UNCHANGED <<tasks, state, last>>
  <2>1. what \subseteq Node \X {"before", "after", "node"}
    BY DEF Interrupted, Result, Ran
  <2>2. "interrupted" \in Waiting /\ tasks' \subseteq Node
    BY <1>2 DEF Waiting, Core, ControlOK
  <2>3. FlowCore'
    BY <1>2, <2>1, <2>2, CoreParts, WaitStep
  <2>4. StateCore' /\ LastOK'
    BY <1>2 DEF Core, StateCore, state, StateOK, VersionsConsistent, SeenBounded, LastOK
  <2> QED BY <2>3, <2>4 DEF Core, StateCore, FlowCore
<1> QED BY <1>1, <1>2 DEF AfterChildren

\* The child workflows of the next result, or what follows the last.
LEMMA ProcessChildrenStep ==
  ASSUME Core, NEW rs \in SUBSET Result, NEW rest \in SUBSET Ran, pc \in Executing,
         ProcessChildren(rs, rest)
  PROVE  Core'
<1>1. CASE AfterChildren(rs)
  BY <1>1, AfterChildrenStep
<1>2. ASSUME NEW t \in First(rest),
             Await("children", ChildrenOf(rs, t)), todo' = Later(rest, t), results' = rs,
             UNCHANGED <<tasks, state, last>>
      PROVE  Core'
  <2>1. todo' \subseteq Ran
    BY <1>2 DEF Later
  <2> QED BY <1>2, <2>1, ChildrenType, ExecutingNames, BatchStep
<1> QED BY <1>1, <1>2 DEF ProcessChildren

\* The re-execution of an interrupted node, from the pause or from the node before it.
LEMMA ExecuteResumedStep ==
  ASSUME Core, NEW rs \in SUBSET Result, NEW rest \in SUBSET Ran,
         pc = "resumed" \/ (pc \in Waiting /\ resumeEvent), ExecuteResumed(rs, rest)
  PROVE  Core'
<1>1. PICK t \in First(rest) :
        /\ Await("resumed", {ResumeTask(t)}) /\ todo' = Later(rest, t) /\ results' = rs
        /\ UNCHANGED <<tasks, state, last>>
  BY DEF ExecuteResumed
<1>2. t \in Task
  BY DEF First, Ran
<1>3. ResumeTask(t) \in Task /\ ResumeTask(t).resume = resumeValues
  BY <1>2 DEF ResumeTask, Task, Core, HumanOK
<1>4. /\ Len(resumeValues) > 0
      /\ \A i \in 1..Len(resumeValues) : resumeValues[i].got = pauses
  BY DEF Core, AnswersOfThisPause
<1>5. ControlOK'
  BY <1>1, <1>3 DEF Await, Later, Core, ControlOK, Executing
<1>6. HumanOK'
  BY <1>1 DEF Await, Running, Core, HumanOK
<1>7. StatusTellsThePause'
  BY <1>1 DEF Await, Running, StatusTellsThePause, Waiting
<1>8. AnswersOfThisPause'
  BY <1>1, <1>4 DEF Await, AnswersOfThisPause, Waiting
<1>9. ResumedWithAnswer' /\ NoWorkWhilePaused'
  BY <1>1, <1>3, <1>4 DEF Await, ResumedWithAnswer, NoWorkWhilePaused, Waiting
<1>10. StateOK' /\ VersionsConsistent' /\ LastOK'
  BY <1>1 DEF Core, state, StateOK, VersionsConsistent, SeenBounded, LastOK
<1> QED BY <1>5, <1>6, <1>7, <1>8, <1>9, <1>10 DEF Core

-----------------------------------------------------------------------------
(***************************************************************************)
(* The theorems.                                                           *)
(***************************************************************************)

\* It holds when the first run starts.
LEMMA InitInvariant == Init => IInv
<1> SUFFICES ASSUME Init PROVE IInv
  OBVIOUS
<1>1. ControlOK /\ OutsideOK /\ LastOK
  BY EmptySequence DEF Init, ControlOK, OutsideOK, LastOK
<1>2. HumanOK
  BY EmptySequence DEF Init, HumanOK
<1>3. StateOK
  <2>1. input \in [data : BOOLEAN, restored : BOOLEAN, ck : Checkpoint, step : Nat]
    <3>1. {EmptyCheckpoint} \subseteq Checkpoint /\ {0} \subseteq Nat /\ {FALSE} \subseteq BOOLEAN
      BY EmptyCheckpointOK
    <3>2. input \in [data : BOOLEAN, restored : {FALSE}, ck : {EmptyCheckpoint}, step : {0}]
      BY DEF Init
    <3> QED BY <3>1, <3>2
  <2>2. stream \in Seq([step : Nat, nodes : SUBSET Node])
    BY EmptySequence DEF Init
  <2> QED BY <2>1, <2>2, EmptyCheckpointOK DEF Init, StateOK
<1>4. VersionsConsistent
  BY EmptyCheckpointOK DEF Init, VersionsConsistent
<1>5. StatusTellsThePause /\ AnswersOfThisPause /\ NoWorkWhilePaused /\ ResumedWithAnswer
  BY DEF Init, StatusTellsThePause, AnswersOfThisPause, NoWorkWhilePaused, ResumedWithAnswer,
         Waiting
<1> QED BY <1>1, <1>2, <1>3, <1>4, <1>5 DEF IInv, Core

\* The checkpoint run() starts from is one.
LEMMA RestoredOK ==
  ASSUME Core
  PROVE  Restored \in Checkpoint /\ SeenBounded(Restored) /\ RestoredStep \in Nat
<1>1. input.ck \in Checkpoint /\ SeenBounded(input.ck) /\ input.step \in Nat
  BY DEF Core, StateOK, VersionsConsistent
<1>2. TasksOK(InputWrites)
  BY DEF TasksOK, InputWrites, Writer
<1>3. /\ ApplyWrites(EmptyCheckpoint, InputWrites, 0) \in Checkpoint
      /\ SeenBounded(ApplyWrites(EmptyCheckpoint, InputWrites, 0))
  BY <1>2, EmptyCheckpointOK, ApplyWritesType, ApplyWritesBounded
<1> QED BY <1>1, <1>3, EmptyCheckpointOK DEF Restored, RestoredStep

\* Every segment of the run method.
LEMMA RunMethodInvariant ==
  ASSUME Core, RunMethod
  PROVE  Core'
<1>0. results \in SUBSET Result /\ todo \in SUBSET Ran /\ tasks \in SUBSET Node
  BY DEF Core, ControlOK
<1>1. CASE Start
  <2>1. FlowCore'
    BY <1>1, CoreParts, TickStep DEF Start
  <2>2. StateOK' /\ VersionsConsistent' /\ LastOK'
    BY <1>1, RestoredOK DEF Start, Core, StateOK, VersionsConsistent, SeenBounded, LastOK
  <2> QED BY <2>1, <2>2 DEF Core, FlowCore
<1>2. CASE NodesReturn
  <2>1. {r.task : r \in {r \in results : r.kids > 0}} \in SUBSET Ran
    BY <1>0 DEF Result
  <2> QED BY <1>0, <1>2, <2>1, ExecutingNames, ProcessChildrenStep DEF NodesReturn
<1>3. CASE ChildrenReturn
  BY <1>0, <1>3, ExecutingNames, ProcessChildrenStep DEF ChildrenReturn
<1>4. CASE ResumedReturn
  <2>1. CASE ExecuteResumed(results, todo)
    BY <1>0, <1>4, <2>1, ExecuteResumedStep DEF ResumedReturn
  <2>2. CASE AfterResume(results)
    BY <1>0, <1>4, <2>2, ExecutingNames, AfterResumeStep DEF ResumedReturn
  <2> QED BY <1>4, <2>1, <2>2 DEF ResumedReturn
<1>5. CASE PushReturn
  BY <1>0, <1>5, ExecutingNames, AfterPushStep DEF PushReturn
<1>6. CASE GotoReturn
  BY <1>0, <1>6, ExecutingNames, FinishStep DEF GotoReturn
<1>7. CASE WakeBefore
  <2>1. FlowCore'
    BY <1>0, <1>7, CoreParts, ExecuteNodesStep DEF WakeBefore
  <2>2. StateCore' /\ LastOK'
    BY <1>7 DEF WakeBefore, Core, StateCore, state, StateOK, VersionsConsistent, SeenBounded,
                LastOK
  <2> QED BY <2>1, <2>2 DEF Core, StateCore, FlowCore
<1>8. CASE WakeInterrupted
  <2>1. results \ Interrupted(results) \in SUBSET Result
    BY <1>0
  <2>2. {r.task : r \in Interrupted(results)} \in SUBSET Ran
    BY <1>0 DEF Interrupted, Result
  <2>3. pc \in Waiting /\ resumeEvent
    BY <1>8 DEF WakeInterrupted, Waiting
  <2> QED BY <1>8, <2>1, <2>2, <2>3, ExecuteResumedStep DEF WakeInterrupted
<1>9. CASE WakeAfter
  <2>1. ck \in Checkpoint /\ SeenBounded(ck) /\ stream \in Seq([step : Nat, nodes : SUBSET Node])
    BY DEF Core, StateOK, VersionsConsistent
  <2>2. StateCore' /\ FlowCore'
    BY <1>9, <2>1, AdvanceStep DEF WakeAfter
  <2>3. LastOK'
    BY <1>9 DEF WakeAfter, Core, LastOK
  <2> QED BY <2>2, <2>3 DEF Core, StateCore, FlowCore
<1> QED BY <1>1, <1>2, <1>3, <1>4, <1>5, <1>6, <1>7, <1>8, <1>9 DEF RunMethod

\* Activities and child workflows ending.
LEMMA CompletionInvariant ==
  ASSUME Core, NEW t \in inflight, Completes(t)
  PROVE  Core'
<1>1. CASE FailActivity(t)
  <2>1. pc' = "failed" /\ UNCHANGED <<exec, hitl, state, last>>
    BY <1>1 DEF FailActivity
  <2>2. pc \notin Waiting
    BY DEF Core, NoWorkWhilePaused
  <2>3. ControlOK' /\ HumanOK'
    BY <2>1 DEF Core, exec, hitl, ControlOK, HumanOK, Ended
  <2>4. StateOK' /\ VersionsConsistent' /\ LastOK'
    BY <2>1 DEF Core, state, StateOK, VersionsConsistent, SeenBounded, LastOK
  <2>5. /\ StatusTellsThePause' /\ AnswersOfThisPause'
        /\ NoWorkWhilePaused' /\ ResumedWithAnswer'
    BY <2>1, <2>2 DEF Core, exec, hitl, StatusTellsThePause, AnswersOfThisPause,
                      NoWorkWhilePaused, ResumedWithAnswer, Waiting
  <2> QED BY <2>3, <2>4, <2>5 DEF Core
<1>2. ASSUME inflight' = inflight \ {t}, results' \subseteq Result,
             UNCHANGED <<pc, tasks, todo, hitl, state, last>>
      PROVE  Core'
  <2>1. ControlOK'
    BY <1>2 DEF Core, ControlOK
  <2>2. HumanOK' /\ StatusTellsThePause' /\ AnswersOfThisPause'
    BY <1>2 DEF Core, HumanOK, StatusTellsThePause, AnswersOfThisPause, hitl
  <2>3. StateOK' /\ VersionsConsistent' /\ LastOK'
    BY <1>2 DEF Core, StateOK, VersionsConsistent, SeenBounded, LastOK, state
  <2>4. NoWorkWhilePaused' /\ ResumedWithAnswer'
    BY <1>2 DEF Core, NoWorkWhilePaused, ResumedWithAnswer, hitl
  <2> QED BY <2>1, <2>2, <2>3, <2>4 DEF Core
<1>3. CASE CompleteActivity(t)
  <2>1. t \in Ran
    BY <1>3 DEF CompleteActivity, Core, ControlOK, Task, Ran
  <2>2. Outputs(t) \subseteq Result
    <3>1. InterruptOutput(t) \in Result
      BY <2>1 DEF InterruptOutput, Result
    <3>2. ASSUME NEW b \in Body[t.node] PROVE Returned(t, b) \in Result
      <4>1. b \in NodeReturn
        BY <2>1, WorkflowAssumption DEF Ran
      <4>2. {<<c, 0>> : c \in b.writes} \cup Resumes(t)
              \subseteq (Chan \cup {Messages, Resume}) \X Nat
        BY <4>1 DEF NodeReturn, Resumes
      <4> QED BY <2>1, <4>1, <4>2 DEF Returned, Result, NodeReturn
    <3> QED BY <3>1, <3>2 DEF Outputs
  <2>3. results' \subseteq Result
    BY <1>3, <2>2 DEF CompleteActivity, Core, ControlOK
  <2> QED BY <1>2, <1>3, <2>3 DEF CompleteActivity
<1>4. CASE CompleteChild(t)
  <2>1. t.arg \in Nat
    BY DEF Core, ControlOK, Task
  <2>2. ASSUME NEW r \in results
        PROVE  [r EXCEPT !.writes = @ \cup {<<Messages, t.arg>>}] \in Result
    BY <2>1 DEF Core, ControlOK, Result
  <2>3. results' \subseteq Result
    BY <1>4, <2>2 DEF CompleteChild, Core, ControlOK
  <2> QED BY <1>2, <1>4, <2>3 DEF CompleteChild
<1>5. CASE CompleteSubgraph(t)
  <2>1. t \in Ran
    BY <1>5 DEF CompleteSubgraph, Core, ControlOK, Task, Ran
  <2>2. ASSUME NEW b \in Body[t.node] PROVE SubgraphOutput(t, b) \in Result
    <3>1. {<<c, 0>> : c \in b.writes \cap SubgraphChan} \subseteq (Chan \cup {Messages}) \X Nat
      BY WorkflowAssumption
    <3> QED BY <2>1, <3>1 DEF SubgraphOutput, Result
  <2>3. results' \subseteq Result
    BY <1>5, <2>2 DEF CompleteSubgraph, Core, ControlOK
  <2> QED BY <1>2, <1>5, <2>3 DEF CompleteSubgraph
<1> QED BY <1>1, <1>3, <1>4, <1>5 DEF Completes

\* The signal handlers and the people who call them.
LEMMA SignalInvariant ==
  ASSUME IInv,
         \/ SendAnswer
         \/ \E m \in mail : ResumeSignal(m)
         \/ \E c \in UpdateChan : UpdateStateSignal(c)
  PROVE  IInv'
<1> USE DEF IInv
<1>1. CASE SendAnswer
  <2>1. ControlOK' /\ HumanOK' /\ StateOK' /\ LastOK' /\ VersionsConsistent'
    BY <1>1 DEF SendAnswer, Core, ControlOK, HumanOK, StateOK, LastOK, VersionsConsistent,
                SeenBounded, exec, state
  <2>2. /\ StatusTellsThePause' /\ AnswersOfThisPause'
        /\ NoWorkWhilePaused' /\ ResumedWithAnswer'
    BY <1>1 DEF SendAnswer, Core, StatusTellsThePause, AnswersOfThisPause, NoWorkWhilePaused,
                ResumedWithAnswer, exec
  <2>3. OutsideOK'
    BY <1>1 DEF SendAnswer, OutsideOK, Core, HumanOK
  <2> QED BY <2>1, <2>2, <2>3 DEF Core
<1>2. ASSUME NEW m \in mail, ResumeSignal(m) PROVE IInv'
  <2> DEFINE a == [for |-> m[1], got |-> pauses]
  <2>1. a \in Answer /\ resumeValues \in Seq(Answer)
    BY <1>2 DEF Answer, OutsideOK, Core, HumanOK
  <2>2. resumeValues' = Append(resumeValues, a) /\ a.got = pauses
    BY <1>2 DEF ResumeSignal
  <2> HIDE DEF a
  <2>3. ControlOK' /\ StateOK' /\ LastOK' /\ VersionsConsistent' /\ OutsideOK'
    BY <1>2 DEF ResumeSignal, Core, ControlOK, StateOK, LastOK, VersionsConsistent,
                SeenBounded, OutsideOK, exec, state
  <2>4. HumanOK'
    BY <1>2, <2>1, <2>2, AppendProperties DEF ResumeSignal, Core, HumanOK
  <2>5. StatusTellsThePause' /\ NoWorkWhilePaused' /\ ResumedWithAnswer'
    BY <1>2 DEF ResumeSignal, Core, StatusTellsThePause, NoWorkWhilePaused, ResumedWithAnswer,
                exec
  <2>6. AnswersOfThisPause'
    <3>1. Len(resumeValues') = Len(resumeValues) + 1
      BY <2>1, <2>2, AppendProperties
    <3>2. ASSUME NEW i \in 1..Len(resumeValues')
          PROVE  resumeValues'[i] = IF i \in 1..Len(resumeValues) THEN resumeValues[i] ELSE a
      BY <2>1, <2>2, AppendProperties
    <3>3. pc' = pc /\ pauses' = pauses /\ Len(resumeValues) \in Nat
      BY <1>2, <2>1 DEF ResumeSignal
    <3>4. AnswersOfThisPause
      BY DEF Core
    <3> QED BY <2>2, <3>1, <3>2, <3>3, <3>4 DEF AnswersOfThisPause
  <2> QED BY <2>3, <2>4, <2>5, <2>6 DEF Core
<1>3. ASSUME NEW c \in UpdateChan, UpdateStateSignal(c) PROVE IInv'
  <2> DEFINE id == Len(updates) + 1
             u == [chan |-> c, live |-> pc # "pending"]
  <2>1. /\ updates' = Append(updates, u)
        /\ ck' = IF pc = "pending" THEN ck ELSE ApplyWrites(ck, UpdateWrites(c, id), step)
    BY <1>3 DEF UpdateStateSignal
  <2>2. /\ updates \in Seq([chan : UpdateChan, live : BOOLEAN]) /\ id \in Nat
        /\ u \in [chan : UpdateChan, live : BOOLEAN]
    BY <1>3 DEF OutsideOK
  <2> HIDE DEF id, u
  <2>3. OutsideOK'
    <3>1. updates' \in Seq([chan : UpdateChan, live : BOOLEAN])
      BY <2>1, <2>2, AppendProperties
    <3> QED BY <1>3, <3>1 DEF UpdateStateSignal, OutsideOK
  <2>4. TasksOK(UpdateWrites(c, id))
    BY <2>2 DEF TasksOK, UpdateWrites, Writer
  <2>5. ck' \in Checkpoint /\ SeenBounded(ck')
    BY <2>1, <2>4, ApplyWritesType, ApplyWritesBounded
       DEF Core, StateOK, VersionsConsistent
  <2>6. StateOK' /\ VersionsConsistent'
    BY <1>3, <2>5 DEF UpdateStateSignal, Core, StateOK, VersionsConsistent, SeenBounded
  <2>7. ControlOK' /\ HumanOK' /\ LastOK' /\ StatusTellsThePause' /\ AnswersOfThisPause'
          /\ NoWorkWhilePaused' /\ ResumedWithAnswer'
    BY <1>3 DEF UpdateStateSignal, Core, ControlOK, HumanOK, LastOK, StatusTellsThePause,
                AnswersOfThisPause, NoWorkWhilePaused, ResumedWithAnswer, exec, hitl
  <2> QED BY <2>3, <2>6, <2>7 DEF Core
<1> QED BY <1>1, <1>2, <1>3

\* The invariant is inductive.
LEMMA StepInvariant ==
  ASSUME IInv, [Next]_vars
  PROVE  IInv'
<1>1. CASE RunMethod
  <2>1. UNCHANGED <<mail, updates>>
    BY <1>1 DEF RunMethod, Start, NodesReturn, ChildrenReturn, ResumedReturn, PushReturn,
                GotoReturn, WakeBefore, WakeInterrupted, WakeAfter
  <2> QED BY <1>1, <2>1, RunMethodInvariant DEF IInv, OutsideOK
<1>2. ASSUME NEW t \in inflight, Completes(t)
      PROVE  IInv'
  <2>1. UNCHANGED <<mail, updates>>
    BY <1>2 DEF Completes, CompleteActivity, CompleteSubgraph, FailActivity, CompleteChild
  <2> QED BY <1>2, <2>1, CompletionInvariant DEF IInv, OutsideOK
<1>3. CASE \/ SendAnswer
           \/ \E m \in mail : ResumeSignal(m)
           \/ \E c \in UpdateChan : UpdateStateSignal(c)
  BY <1>3, SignalInvariant
<1>4. CASE UNCHANGED vars
  BY <1>4 DEF vars, exec, hitl, state, IInv, Core, OutsideOK, ControlOK, HumanOK, StateOK,
              LastOK, VersionsConsistent, SeenBounded, StatusTellsThePause, AnswersOfThisPause,
              NoWorkWhilePaused, ResumedWithAnswer
<1> QED BY <1>1, <1>2, <1>3, <1>4 DEF Next, Stay

\* The inductive invariant holds in every reachable state, of every graph.
THEOREM InvariantHolds == Spec => []IInv
<1>1. Init => IInv
  BY InitInvariant
<1>2. IInv /\ [Next]_vars => IInv'
  BY StepInvariant
<1> QED BY <1>1, <1>2, PTL DEF Spec

\* Whatever the graph, its nodes, the signals and their order, the workflow's variables
\* hold what run(), the signal handlers and continue-as-new are meant to put in them.
THEOREM TypeCorrect == Spec => []TypeOK
<1>1. IInv => TypeOK
  BY DEF IInv, Core, LastOK, TypeOK
<1> QED BY <1>1, InvariantHolds, PTL

\* The comparison of versions in prepare_next_tasks is always between a version that
\* exists and one that was seen, through update_state signals, pauses and new runs.
THEOREM VersionsCorrect == Spec => []VersionsConsistent
<1>1. IInv => VersionsConsistent
  BY DEF IInv, Core
<1> QED BY <1>1, InvariantHolds, PTL

\* get_current_state reports "interrupted" exactly while run() is in _wait_for_resume.
THEOREM StatusCorrect == Spec => []StatusTellsThePause
<1>1. IInv => StatusTellsThePause
  BY DEF IInv, Core
<1> QED BY <1>1, InvariantHolds, PTL

\* A re-executed node gets an answer, and only answers that came after its pause began.
THEOREM ResumeCorrect == Spec => []ResumedWithAnswer
<1>1. IInv => ResumedWithAnswer
  BY DEF IInv, Core
<1> QED BY <1>1, InvariantHolds, PTL
=============================================================================
