-------------------------- MODULE WorkflowStateProofs --------------------------
(***************************************************************************)
(* What becomes of the workflow's state over supersteps, updates, pauses   *)
(* and runs: its versions and values, the stream that tells of them, and   *)
(* the nodes they make run.  For every graph, every node behaviour and     *)
(* every value of the bounds.                                              *)
(***************************************************************************)
EXTENDS LangGraphWorkflowProofs

(***************************************************************************)
(* The inductive invariant, over IInv.  The properties speak of the        *)
(* superstep a value was written in; what ties them together is Round, the *)
(* number of supersteps whose writes are in the state, which is ahead of   *)
(* the step counter during an interrupt_after and goes on counting over a  *)
(* continue-as-new.                                                        *)
(***************************************************************************)
Round == IF pc = "after" THEN step + 1 ELSE DurableStep

\* The input of a first run restores nothing, and no node has run before it.
FirstRunStartsEmpty ==
  ~input.restored =>
    /\ input.ck = EmptyCheckpoint /\ input.step = 0
    /\ pc = "pending" => \A n \in Node : ~last[n].wrote

\* A run has no activities before it has channels.
NothingPending == pc = "pending" => inflight = {}

\* There is an entry of the stream for each superstep of the run.
StreamIsComplete ==
  IF pc = "pending" THEN stream = <<>> ELSE RestoredStep + Len(stream) = Round

\* No node has seen what the last superstep wrote.
NewsIsUnseen ==
  \A n \in Node, c \in Chan : \A t \in Durable.val[c] :
    t.by \in Node /\ t.at + 1 = Round => Durable.ver[c] > Durable.seen[n][c]

\* Only a barrier that has a version has been through JSON.
ListsHaveVersions ==
  \A c \in Durable.lists : c \in Chan /\ Kind[c] = "barrier" /\ Durable.ver[c] > 0

\* CommittedTriggersRun, kept through the pause for interrupted nodes.
Planned ==
  pc \in {"before", "interrupted"} \cup Executing \/ (pc = "closed" /\ step < RecursionLimit)
NewsIsPlanned ==
  Planned =>
    \A n \in Node : \A c \in Triggers[n] : \A t \in ck.val[c] :
      (t.by \in Node /\ t.at + 1 = step /\ Available(ck, c)) => n \in tasks

\* No node has run in a superstep to come.
LastIsPast == \A n \in Node : last[n].at <= Round

\* If a trigger of a node that wrote has a version the node has not seen, that version is
\* of a value written in the superstep the node ran in, or later, or the value is gone.
Since(v, n) == \E t \in v : t.at + 1 >= last[n].at
NewVersionsSinceLast ==
  \A n \in Node : \A c \in Triggers[n] :
    last[n].wrote /\ Durable.ver[c] > Durable.seen[n][c] /\ Available(Durable, c) =>
      Since(Durable.val[c], n)

History ==
  /\ FirstRunStartsEmpty
  /\ NothingPending
  /\ NoPartialSuperstep
  /\ LiveUpdatesAreKept
  /\ StreamIsComplete
  /\ StreamTellsTheState
  /\ NewsIsUnseen
  /\ ListsHaveVersions
  /\ NewsIsPlanned
  /\ LastIsPast
  /\ NewVersionsSinceLast
  /\ NoRerunWithoutNewInput

-----------------------------------------------------------------------------
(***************************************************************************)
(* What apply_writes guarantees, with JSON after it or not: r follows from *)
(* c0 by the writes of ts.                                                 *)
(***************************************************************************)
Follows(r, c0, ts, at) ==
  /\ \A c \in Chan :
       /\ r.ver[c] >= c0.ver[c]
       /\ r.val[c] # c0.val[c] => r.ver[c] > c0.ver[c]
       /\ r.val[c] \subseteq c0.val[c] \cup WrittenTo(ts, c, at)
       /\ Kind[c] = "reduce" => c0.val[c] \cup WrittenTo(ts, c, at) \subseteq r.val[c]
       /\ r.ver[c] # c0.ver[c] =>
            \/ \E t \in r.val[c] : t.at = at
            \/ r.val[c] = {} /\ \E t \in ts : t.triggers # {}
  /\ \A n \in Node, c \in Chan : r.seen[n][c] = SeenBy(c0, ts, n, c)
  /\ c0.lists \subseteq r.lists
  /\ \A c \in r.lists \ c0.lists : c \in Chan /\ Kind[c] = "barrier" /\ r.ver[c] > 0

\* An empty channel is not available.
LEMMA EmptyUnavailable ==
  ASSUME NEW r, NEW c \in Chan, r.val[c] = {}
  PROVE  ~Available(r, c)
<1>1. CASE Kind[c] = "barrier"
  <2>1. Members[c] # {}
    BY <1>1, GraphAssumption
  <2> QED BY <1>1, <2>1 DEF Available, Full
<1>2. CASE Kind[c] # "barrier"
  BY <1>2 DEF Available
<1> QED BY <1>1, <1>2

\* What is written in a superstep bears its number.
LEMMA WrittenAt ==
  ASSUME NEW ts, NEW c, NEW at, NEW t \in WrittenTo(ts, c, at)
  PROVE  t.at = at /\ \E x \in ts : \E w \in x.writes : t.by = x.name /\ w[1] = c /\ t.k = w[2]
BY DEF WrittenTo

\* apply_writes bumps the version of each channel it changes, keeps reducers, and changes
\* a version without a new value only where it empties a channel.
LEMMA ApplyWritesFollows ==
  ASSUME NEW c0 \in Checkpoint, SeenBounded(c0), NEW ts, NEW at \in Nat
  PROVE  Follows(ApplyWrites(c0, ts, at), c0, ts, at)
<1> DEFINE r == ApplyWrites(c0, ts, at)
           changed == Changed(c0, ts, at)
<1>1. c0.ver \in [Chan -> Nat] /\ c0.top \in Nat /\ c0.val \in [Chan -> SUBSET Token]
  BY DEF Checkpoint
<1>2. /\ \A c \in Chan : r.ver[c] = IF c \in changed THEN c0.top + 1 ELSE c0.ver[c]
      /\ \A c \in Chan : r.val[c] = NewValue(c0, ts, c, at)
      /\ \A n \in Node, c \in Chan : r.seen[n][c] = SeenBy(c0, ts, n, c)
      /\ r.lists = c0.lists
  BY DEF ApplyWrites
<1> HIDE DEF r, changed
<1>3. ASSUME NEW c \in Chan
      PROVE  /\ r.ver[c] >= c0.ver[c]
             /\ r.val[c] # c0.val[c] => r.ver[c] > c0.ver[c]
             /\ r.val[c] \subseteq c0.val[c] \cup WrittenTo(ts, c, at)
             /\ Kind[c] = "reduce" => c0.val[c] \cup WrittenTo(ts, c, at) \subseteq r.val[c]
             /\ r.ver[c] # c0.ver[c] =>
                  \/ \E t \in r.val[c] : t.at = at
                  \/ r.val[c] = {} /\ \E t \in ts : t.triggers # {}
  <2>1. /\ r.val[c] = NewValue(c0, ts, c, at)
        /\ r.ver[c] = IF c \in changed THEN c0.top + 1 ELSE c0.ver[c]
        /\ c0.ver[c] \in Nat /\ c0.ver[c] <= c0.top
    BY <1>1, <1>2 DEF SeenBounded
  <2>2. r.ver[c] >= c0.ver[c] /\ (c \in changed => r.ver[c] > c0.ver[c])
        /\ (r.ver[c] # c0.ver[c] => c \in changed)
    BY <1>1, <2>1
  <2>3. c \notin changed => r.val[c] = c0.val[c]
    BY <2>1 DEF NewValue, Left, Changed, changed
  <2>4. r.val[c] \subseteq c0.val[c] \cup WrittenTo(ts, c, at)
    BY <2>1 DEF NewValue, News, Left
  <2>5. Kind[c] = "reduce" => c0.val[c] \cup WrittenTo(ts, c, at) \subseteq r.val[c]
    BY <2>1 DEF NewValue, News, Left, Consumed, Expired
  <2>6. ASSUME c \in changed
        PROVE  \/ \E t \in r.val[c] : t.at = at
               \/ r.val[c] = {} /\ \E t \in ts : t.triggers # {}
    <3>1. CASE News(c0, ts, c, at) # {}
      <4>1. PICK t \in News(c0, ts, c, at) : TRUE
        BY <3>1
      <4>2. t \in WrittenTo(ts, c, at)
        BY <4>1 DEF News
      <4>3. c \notin Expired(c0, ts, at)
        BY <4>2 DEF Expired
      <4>4. t \in r.val[c]
        BY <2>1, <4>1, <4>3 DEF NewValue
      <4> QED BY <4>2, <4>4, WrittenAt
    <3>2. CASE c \in Expired(c0, ts, at)
      <4>1. r.val[c] = {} /\ Kind[c] = "ephemeral" /\ \E t \in ts : t.triggers # {}
        BY <2>1, <3>2 DEF NewValue, Expired
      <4> QED BY <4>1
    <3>3. CASE c \in Consumed(c0, ts) /\ News(c0, ts, c, at) = {}
      <4>1. Kind[c] = "barrier" /\ \E t \in ts : t.triggers # {}
        BY <3>3 DEF Consumed
      <4>2. r.val[c] = {}
        BY <2>1, <3>3 DEF NewValue, Left
      <4> QED BY <4>1, <4>2
    <3> QED BY <2>6, <3>1, <3>2, <3>3 DEF Changed, changed
  <2> QED BY <2>2, <2>3, <2>4, <2>5, <2>6
<1> QED BY <1>2, <1>3 DEF Follows, r

\* JSON between two runs takes nothing away but the sets.
LEMMA JsonFollows ==
  ASSUME NEW c0, NEW r \in Checkpoint, NEW ts, NEW at, Follows(r, c0, ts, at), c0 \in Checkpoint,
         \A c \in c0.lists : c \in Chan /\ Kind[c] = "barrier" /\ c0.ver[c] > 0
  PROVE  Follows(Json(r), c0, ts, at)
<1>1. /\ Json(r).ver = r.ver /\ Json(r).val = r.val /\ Json(r).seen = r.seen
      /\ Json(r).lists = {c \in Chan : Kind[c] = "barrier" /\ r.ver[c] > 0}
  BY JsonType
<1>2. \A c \in Chan : r.ver[c] \in Nat /\ c0.ver[c] \in Nat /\ r.ver[c] >= c0.ver[c]
  BY DEF Follows, Checkpoint
<1>3. c0.lists \subseteq Json(r).lists
  BY <1>1, <1>2
<1> QED BY <1>1, <1>3 DEF Follows

\* The same of a superstep, also of one that wrote nothing.
LEMMA ApplyResultsFollows ==
  ASSUME Core, NEW rs \in SUBSET Result
  PROVE  Follows(ApplyResults(rs), ck, TaskWrites(rs), step)
<1>1. ck \in Checkpoint /\ step \in Nat /\ SeenBounded(ck)
  BY DEF Core, StateOK, VersionsConsistent
<1>2. CASE Wrote(rs) # {}
  BY <1>1, <1>2, ApplyWritesFollows DEF ApplyResults
<1>3. CASE Wrote(rs) = {}
  <2>1. ApplyResults(rs) = ck /\ TaskWrites(rs) = {}
    BY <1>3 DEF ApplyResults, TaskWrites
  <2>2. \A c \in Chan : WrittenTo({}, c, step) = {} /\ ck.ver[c] \in Nat
    BY <1>1 DEF WrittenTo, Checkpoint
  <2>3. \A n \in Node, c \in Chan : SeenBy(ck, {}, n, c) = ck.seen[n][c]
    BY DEF SeenBy
  <2> QED BY <2>1, <2>2, <2>3 DEF Follows
<1> QED BY <1>2, <1>3

-----------------------------------------------------------------------------
(***************************************************************************)
(* The kinds of steps.                                                     *)
(***************************************************************************)

\* The head of the loop has planned from c, or run() has returned.
Ticked(c, s) ==
  /\ pc' \in {"closed", "before", "nodes"}
  /\ pc' # "closed" => s < RecursionLimit /\ tasks' = PrepareNextTasks(c) /\ tasks' # {}
  /\ pc' = "closed" => tasks' = {} /\ (s < RecursionLimit => PrepareNextTasks(c) = {})
  /\ inflight' = IF pc' = "nodes" THEN {PullTask(n) : n \in tasks'} ELSE {}
  /\ todo' = {} /\ results' = {}

LEMMA TickTicks ==
  ASSUME NEW c, NEW s \in Nat, Tick(c, s)
  PROVE  Ticked(c, s)
<1>1. RecursionLimit \in Nat
  BY WorkflowAssumption
<1> QED BY <1>1 DEF Tick, Ticked, Return, Nothing, WaitForResume, ExecuteNodes, Await

\* After a superstep, in this run or in a new one: its checkpoint and number are the
\* durable ones.
Advanced(c, st) ==
  /\ Durable' = (IF pc' = "pending" THEN Json(c) ELSE c)
  /\ DurableStep' = step + 1 /\ Round' = step + 1
  /\ \/ /\ stepsInRun + 1 >= Threshold
        /\ pc' = "pending" /\ input'.restored /\ input'.step = step + 1
        /\ ck' = EmptyCheckpoint /\ step' = 0 /\ stream' = <<>>
        /\ tasks' = {} /\ inflight' = {} /\ todo' = {} /\ results' = {}
     \/ /\ stepsInRun + 1 < Threshold
        /\ Ticked(c, step + 1)
        /\ ck' = c /\ step' = step + 1 /\ stream' = st /\ input' = input
        /\ stepsInRun' = stepsInRun + 1

LEMMA AdvanceAdvances ==
  ASSUME Core, NEW c, NEW st, Advance(c, st)
  PROVE  Advanced(c, st)
<1>1. CASE stepsInRun + 1 >= Threshold /\ ContinueAsNew(c)
  <2>1. /\ pc' = "pending" /\ stream' = <<>> /\ tasks' = {}
        /\ ck' = EmptyCheckpoint /\ step' = 0
        /\ inflight' = {} /\ todo' = {} /\ results' = {}
        /\ input' = [data |-> FALSE, restored |-> TRUE, ck |-> Json(c), step |-> step + 1]
    BY <1>1 DEF ContinueAsNew, Nothing, NextInput, NextStep
  <2> QED BY <1>1, <2>1 DEF Advanced, Durable, DurableStep, Round
<1>2. CASE /\ stepsInRun + 1 < Threshold
           /\ ck' = c /\ step' = NextStep(c) /\ stepsInRun' = stepsInRun + 1 /\ stream' = st
           /\ UNCHANGED input /\ Tick(c, NextStep(c))
  <2>1. step + 1 \in Nat /\ NextStep(c) = step + 1
    BY DEF Core, StateOK, NextStep
  <2>2. Ticked(c, step + 1)
    BY <1>2, <2>1, TickTicks
  <2>3. pc' \notin {"pending", "after"}
    BY <2>2 DEF Ticked
  <2> QED BY <1>2, <2>1, <2>2, <2>3 DEF Advanced, Durable, DurableStep, Round
<1> QED BY <1>1, <1>2 DEF Advance

\* The end of a superstep.
Commits ==
  /\ pc \in Executing /\ inflight = {} /\ (pc = "resumed" => todo = {})
  /\ ~Raises(ck, TaskWrites(results), step)
  /\ last' = Executed(results) /\ UNCHANGED updates
  /\ \/ /\ pc' = "after" /\ ck' = ApplyResults(results) /\ stream' = EmitStreamEvents(results)
        /\ UNCHANGED <<step, stepsInRun, input, tasks>>
     \/ Advanced(ApplyResults(results), EmitStreamEvents(results))

\* Anything else in a superstep, by activities, children, pauses and answers.
Between ==
  /\ UNCHANGED <<state, last, updates, tasks>>
  /\ \/ pc' = pc /\ inflight' \subseteq inflight
     \/ /\ pc \in {"interrupted"} \cup Executing
        /\ pc' \in ({"interrupted"} \cup Executing) \ {"nodes"}
     \/ pc \notin {"pending", "after"} /\ pc' \in {"failed", "stuck"}
     \/ pc = "before" /\ pc' = "nodes"

\* A segment that ends in the await of another batch, in a pause for interrupted nodes, or
\* in the commit.
LEMMA ExecutingSegment ==
  ASSUME IInv, pc \in Executing, inflight = {}, pc = "resumed" => todo = {}, UNCHANGED updates,
         \/ FinishSuperstep(results) \/ AfterPush(results) \/ AfterResume(results)
         \/ \E rest \in SUBSET Ran : ProcessChildren(results, rest)
  PROVE  Commits \/ Between
<1>1. ASSUME FinishSuperstep(results) PROVE Commits \/ Between
  <2>1. CASE pc' = "stuck" /\ UNCHANGED <<exec, hitl, state, last>>
    BY <2>1 DEF Between, exec, Executing
  <2>2. CASE /\ ~Raises(ck, TaskWrites(results), step) /\ last' = Executed(results)
             /\ ck' = ApplyResults(results) /\ stream' = EmitStreamEvents(results)
             /\ WaitForResume("after", {<<n, "after">> : n \in tasks})
             /\ UNCHANGED <<step, stepsInRun, input, tasks>>
    BY <2>2 DEF Commits, WaitForResume
  <2>3. CASE /\ ~Raises(ck, TaskWrites(results), step) /\ last' = Executed(results)
             /\ Advance(ApplyResults(results), EmitStreamEvents(results))
    BY <2>3, AdvanceAdvances DEF Commits, IInv
  <2> QED BY <1>1, <2>1, <2>2, <2>3 DEF FinishSuperstep
<1>2. ASSUME AfterPush(results) PROVE Commits \/ Between
  BY <1>1, <1>2 DEF AfterPush, Await, Between, Executing
<1>3. ASSUME AfterResume(results) PROVE Commits \/ Between
  BY <1>2, <1>3 DEF AfterResume, Await, Between, Executing
<1>4. ASSUME AfterChildren(results) PROVE Commits \/ Between
  BY <1>3, <1>4 DEF AfterChildren, WaitForResume, Between
<1>5. ASSUME NEW rest, ProcessChildren(results, rest) PROVE Commits \/ Between
  BY <1>4, <1>5 DEF ProcessChildren, Await, Between, Executing
<1> QED BY <1>1, <1>2, <1>3, <1>5

\* What any step does to the state.
LEMMA StepKinds ==
  ASSUME IInv, History, [Next]_vars
  PROVE  \/ Start \/ WakeAfter
         \/ \E c \in UpdateChan : UpdateStateSignal(c)
         \/ Commits
         \/ Between
<1>0. results \in SUBSET Result /\ todo \in SUBSET Ran
  BY DEF IInv, Core, ControlOK
<1>1. CASE NodesReturn \/ ChildrenReturn
  <2>1. {r.task : r \in {r \in results : r.kids > 0}} \in SUBSET Ran
    BY <1>0 DEF Result
  <2> QED BY <1>0, <1>1, <2>1, ExecutingNames, ExecutingSegment DEF NodesReturn, ChildrenReturn
<1>2. CASE ResumedReturn \/ PushReturn \/ GotoReturn
  <2>1. CASE ResumedReturn /\ ExecuteResumed(results, todo)
    BY <2>1 DEF ResumedReturn, ExecuteResumed, Await, Between, Executing
  <2>2. CASE ResumedReturn /\ todo = {} /\ AfterResume(results)
    BY <2>2, ExecutingNames, ExecutingSegment DEF ResumedReturn
  <2>3. CASE PushReturn \/ GotoReturn
    BY <2>3, ExecutingNames, ExecutingSegment DEF PushReturn, GotoReturn
  <2> QED BY <1>2, <2>1, <2>2, <2>3 DEF ResumedReturn
<1>3. CASE WakeBefore
  BY <1>3 DEF WakeBefore, ExecuteNodes, Await, Between
<1>4. CASE WakeInterrupted
  BY <1>4 DEF WakeInterrupted, ExecuteResumed, Await, Between, Executing
<1>5. ASSUME NEW t \in inflight, Completes(t) PROVE Between
  <2>1. CASE FailActivity(t)
    <3>1. pc \notin {"pending", "after"}
      BY DEF IInv, Core, NoWorkWhilePaused, Waiting, History, NothingPending
    <3> QED BY <2>1, <3>1 DEF FailActivity, exec, Between
  <2>2. CASE CompleteActivity(t) \/ CompleteSubgraph(t) \/ CompleteChild(t)
    BY <2>2 DEF CompleteActivity, CompleteSubgraph, CompleteChild, Between
  <2> QED BY <1>5, <2>1, <2>2 DEF Completes
<1>6. CASE SendAnswer \/ \E m \in mail : ResumeSignal(m)
  BY <1>6 DEF SendAnswer, ResumeSignal, exec, Between
<1>7. CASE UNCHANGED vars
  BY <1>7 DEF vars, exec, Between
<1> QED BY <1>1, <1>2, <1>3, <1>4, <1>5, <1>6, <1>7 DEF Next, RunMethod, Stay

-----------------------------------------------------------------------------
(***************************************************************************)
(* The past: what History says of the durable state and of Round alone.    *)
(***************************************************************************)
Past ==
  /\ NoPartialSuperstep
  /\ LiveUpdatesAreKept
  /\ NewsIsUnseen
  /\ ListsHaveVersions
  /\ LastIsPast
  /\ NewVersionsSinceLast

LEMMA DurableType ==
  ASSUME IInv
  PROVE  /\ Durable \in Checkpoint /\ SeenBounded(Durable)
         /\ DurableStep \in Nat /\ step \in Nat /\ Round \in Nat
         /\ \A c \in Chan : \A t \in Durable.val[c] : t.at \in Nat
         /\ \A n \in Node : last[n].at \in Nat
<1>1. /\ Durable \in Checkpoint /\ SeenBounded(Durable)
      /\ DurableStep \in Nat /\ step \in Nat /\ Round \in Nat
  BY DEF IInv, Core, StateOK, VersionsConsistent, Durable, DurableStep, Round
<1>2. ASSUME NEW c \in Chan, NEW t \in Durable.val[c] PROVE t.at \in Nat
  <2>1. t \in Token
    BY <1>1 DEF Checkpoint
  <2> QED BY <2>1 DEF Token
<1>3. \A n \in Node : last[n].at \in Nat
  BY DEF IInv, Core, LastOK
<1> QED BY <1>1, <1>2, <1>3

\* The updates are of channels of the graph, and not of barriers.
LEMMA UpdatesType ==
  ASSUME IInv, NEW i \in 1..Len(updates)
  PROVE  updates[i].chan \in Chan /\ Kind[updates[i].chan] # "barrier" /\ updates[i].live \in BOOLEAN
<1>1. updates \in Seq([chan : UpdateChan, live : BOOLEAN])
  BY DEF IInv, OutsideOK
<1>2. updates[i] \in [chan : UpdateChan, live : BOOLEAN]
  BY <1>1, ElementOfSeq
<1> QED BY <1>2, WorkflowAssumption

\* What a result wrote is handed to apply_writes with its node's triggers, and nothing else.
LEMMA TaskOfResult ==
  ASSUME NEW rs, NEW x \in rs, x.writes # {}
  PROVE  \E t \in TaskWrites(rs) :
           t.name = x.task.node /\ t.writes = x.writes /\ t.triggers = Triggers[x.task.node]
<1> DEFINE t == [name |-> x.task.node, path |-> x.task, writes |-> x.writes,
                 triggers |-> Triggers[x.task.node]]
<1>1. t \in TaskWrites(rs)
  BY DEF TaskWrites, Wrote
<1>2. t.name = x.task.node /\ t.writes = x.writes /\ t.triggers = Triggers[x.task.node]
  OBVIOUS
<1> HIDE DEF t
<1> QED BY <1>1, <1>2

LEMMA ResultOfTask ==
  ASSUME NEW rs, NEW t \in TaskWrites(rs)
  PROVE  \E x \in rs : x.writes # {} /\ t.name = x.task.node /\ t.writes = x.writes
BY DEF TaskWrites, Wrote

\* NoPartialSuperstep in terms of Round.
LEMMA PartialMeansRound ==
  ASSUME IInv
  PROVE  NoPartialSuperstep <=>
           \A c \in Chan : \A t \in Durable.val[c] : t.by \in Node => t.at < Round
BY DurableType DEF NoPartialSuperstep, Round, DurableStep

\* A step that leaves the durable state alone, or sends it through JSON: a continue-as-new
\* or a replay included.
LEMMA PastKept ==
  ASSUME IInv, IInv', Past, Durable' \in {Durable, Json(Durable)}, Round' = Round,
         UNCHANGED <<last, updates>>
  PROVE  Past'
<1>0. /\ Durable'.ver = Durable.ver /\ Durable'.val = Durable.val /\ Durable'.seen = Durable.seen
      /\ Durable.lists \subseteq Durable'.lists /\ ListsHaveVersions'
  <2>1. Durable \in Checkpoint
    BY DurableType
  <2>2. CASE Durable' = Durable
    BY <2>2 DEF Past, ListsHaveVersions
  <2>3. CASE Durable' = Json(Durable)
    BY <2>1, <2>3, JsonType DEF Past, ListsHaveVersions
  <2> QED BY <2>2, <2>3
<1>1. NoPartialSuperstep'
  <2>1. \A c \in Chan : \A t \in Durable.val[c] : t.by \in Node => t.at < Round
    BY PartialMeansRound DEF Past
  <2>2. DurableStep' \in Nat /\ step' \in Nat
    BY DEF IInv, Core, StateOK, DurableStep
  <2> QED BY <1>0, <2>1, <2>2, DurableType DEF NoPartialSuperstep, Round, DurableStep
<1>2. LiveUpdatesAreKept' /\ NewsIsUnseen' /\ LastIsPast'
  BY <1>0 DEF Past, LiveUpdatesAreKept, Reached, ToReducer, NewsIsUnseen, LastIsPast
<1>3. NewVersionsSinceLast'
  <2>1. ASSUME NEW c, Available(Durable, c)' PROVE Available(Durable, c)
    BY <1>0, <2>1 DEF Available, Full
  <2> QED BY <1>0, <2>1 DEF Past, NewVersionsSinceLast, Since
<1> QED BY <1>0, <1>1, <1>2, <1>3 DEF Past

\* A superstep's writes, with or without a continue-as-new right after them.
LEMMA CommitFollows ==
  ASSUME IInv, Past, pc \in Executing,
         Durable' \in {ApplyResults(results), Json(ApplyResults(results))}
  PROVE  Follows(Durable', ck, TaskWrites(results), step)
<1>1. results \in SUBSET Result /\ Core
  BY DEF IInv, Core, ControlOK
<1>2. /\ Follows(ApplyResults(results), ck, TaskWrites(results), step)
      /\ ApplyResults(results) \in Checkpoint
  BY <1>1, ApplyResultsFollows, ApplyResultsOK
<1>3. /\ ck \in Checkpoint
      /\ \A c \in ck.lists : c \in Chan /\ Kind[c] = "barrier" /\ ck.ver[c] > 0
  BY DurableType DEF Past, ListsHaveVersions, Durable, Executing
<1> QED BY <1>2, <1>3, JsonFollows

\* The end of a superstep.
LEMMA PastCommitted ==
  ASSUME IInv, IInv', Past, pc \in Executing,
         Follows(Durable', ck, TaskWrites(results), step), Round' = step + 1,
         last' = Executed(results), UNCHANGED updates
  PROVE  Past'
<1> DEFINE r == Durable'
           ts == TaskWrites(results)
<1>1. /\ Durable = ck /\ Round = step /\ step \in Nat /\ pc # "after"
      /\ ck \in Checkpoint /\ SeenBounded(ck) /\ r \in Checkpoint
  BY DurableType DEF Durable, DurableStep, Round, Executing, IInv, Core, StateOK
<1>2. \A c \in Chan : /\ \A t \in ck.val[c] : t.at \in Nat
                      /\ \A t \in r.val[c] : t.at \in Nat
  BY <1>1 DEF Checkpoint, Token
<1>3. \A c \in Chan : \A t \in WrittenTo(ts, c, step) : t.at = step
  BY WrittenAt
<1>4. /\ \A c \in Chan :
           /\ r.ver[c] \in Nat /\ ck.ver[c] \in Nat /\ r.ver[c] >= ck.ver[c]
           /\ r.val[c] # ck.val[c] => r.ver[c] > ck.ver[c]
           /\ r.val[c] \subseteq ck.val[c] \cup WrittenTo(ts, c, step)
           /\ Kind[c] = "reduce" => ck.val[c] \subseteq r.val[c]
           /\ r.ver[c] # ck.ver[c] =>
                (\E t \in r.val[c] : t.at = step) \/ r.val[c] = {}
      /\ \A n \in Node, c \in Chan :
           /\ r.seen[n][c] = SeenBy(ck, ts, n, c)
           /\ ck.seen[n][c] <= ck.ver[c] /\ ck.seen[n][c] \in Nat
      /\ ck.lists \subseteq r.lists
  BY <1>1 DEF Follows, SeenBounded, Checkpoint
<1>11. ListsHaveVersions'
  <2>1. ASSUME NEW c \in r.lists PROVE c \in Chan /\ Kind[c] = "barrier" /\ r.ver[c] > 0
    <3>1. CASE c \in ck.lists
      BY <1>1, <1>4, <3>1 DEF Past, ListsHaveVersions
    <3>2. CASE c \notin ck.lists
      BY <2>1, <3>2 DEF Follows
    <3> QED BY <3>1, <3>2
  <2> QED BY <2>1 DEF ListsHaveVersions
<1> HIDE DEF r, ts
<1>5. \A c \in Chan : \A t \in ck.val[c] : t.by \in Node => t.at < step
  BY <1>1, PartialMeansRound DEF Past
<1>6. NoPartialSuperstep'
  <2>1. ASSUME NEW c \in Chan, NEW t \in r.val[c], t.by \in Node PROVE t.at < step + 1
    BY <1>1, <1>2, <1>3, <1>4, <1>5, <2>1
  <2>2. DurableStep' \in Nat /\ step' \in Nat
    BY DEF IInv, Core, StateOK, DurableStep
  <2> QED BY <1>1, <1>2, <2>1, <2>2 DEF NoPartialSuperstep, Round, DurableStep, r
<1>7. LiveUpdatesAreKept'
  <2>1. ASSUME NEW i \in 1..Len(updates), updates[i].live, ToReducer(i) PROVE Reached(i)'
    <3>1. PICK t \in ck.val[updates[i].chan] : t.by = "__update__" /\ t.k = i
      BY <1>1, <2>1 DEF Past, LiveUpdatesAreKept, Reached
    <3>2. Kind[updates[i].chan] = "reduce" /\ updates[i].chan \in Chan
      BY <2>1, UpdatesType DEF ToReducer
    <3>3. t \in r.val[updates[i].chan]
      BY <1>4, <3>1, <3>2
    <3> QED BY <3>1, <3>3 DEF Reached, r
  <2> QED BY <2>1 DEF LiveUpdatesAreKept, ToReducer
<1>8. NewsIsUnseen'
  <2>1. ASSUME NEW n \in Node, NEW c \in Chan, NEW t \in r.val[c],
               t.by \in Node, t.at + 1 = step + 1
        PROVE  r.ver[c] > r.seen[n][c]
    <3>1. t \notin ck.val[c]
      BY <1>1, <1>2, <1>5, <2>1
    <3>2. r.ver[c] > ck.ver[c]
      BY <1>4, <3>1
    <3>3. r.seen[n][c] \in {ck.ver[c], ck.seen[n][c]}
      BY <1>4 DEF SeenBy
    <3> QED BY <1>4, <3>2, <3>3
  <2> QED BY <2>1 DEF NewsIsUnseen, r
<1>9. LastIsPast'
  BY <1>1, DurableType DEF Past, LastIsPast, Executed
<1>10. NewVersionsSinceLast'
  <2>1. ASSUME NEW n \in Node, NEW c \in Triggers[n], last'[n].wrote, r.ver[c] > r.seen[n][c],
               Available(r, c)
        PROVE  \E t \in r.val[c] : t.at + 1 >= last'[n].at
    <3>1. c \in Chan /\ last'[n].at \in Nat /\ last'[n].at <= step + 1
      BY <1>9, GraphAssumption DEF LastIsPast, IInv, Core, LastOK
    <3>2. CASE r.ver[c] # ck.ver[c]
      <4>1. PICK t \in r.val[c] : t.at = step
        BY <1>4, <2>1, <3>1, <3>2, EmptyUnavailable
      <4> QED BY <1>1, <3>1, <4>1
    <3>3. CASE r.ver[c] = ck.ver[c]
      <4>1. r.val[c] = ck.val[c]
        BY <1>4, <3>1, <3>3
      <4>2. ~\E x \in results : x.task.node = n /\ x.writes # {}
        <5>1. ASSUME NEW x \in results, x.task.node = n, x.writes # {} PROVE FALSE
          <6>1. \E t \in ts : t.name = n /\ c \in t.triggers
            BY <5>1, TaskOfResult DEF ts
          <6>2. r.seen[n][c] = ck.ver[c]
            BY <1>4, <3>1, <6>1 DEF SeenBy
          <6> QED BY <1>4, <2>1, <3>1, <3>3, <6>2
        <5> QED BY <5>1
      <4>3. last'[n] = last[n]
        BY <2>1, <4>2 DEF Executed
      <4>4. ~\E t \in ts : t.name = n /\ c \in t.triggers
        BY <4>2, ResultOfTask DEF ts
      <4>5. r.seen[n][c] = ck.seen[n][c]
        BY <1>4, <3>1, <4>4 DEF SeenBy
      <4>6. last[n].wrote /\ ck.ver[c] > ck.seen[n][c] /\ Available(ck, c)
        BY <1>4, <2>1, <3>3, <4>1, <4>3, <4>5 DEF Available, Full
      <4> QED BY <1>1, <4>1, <4>3, <4>6 DEF Past, NewVersionsSinceLast, Since
    <3> QED BY <3>2, <3>3
  <2> QED BY <2>1 DEF NewVersionsSinceLast, Since, r, Available, Full
<1> QED BY <1>6, <1>7, <1>8, <1>9, <1>10, <1>11 DEF Past

\* What an update does to the durable state: before run() has channels, nothing.
LEMMA UpdateFollows ==
  ASSUME IInv, NEW d \in UpdateChan, UpdateStateSignal(d)
  PROVE  /\ \A c \in Chan :
              /\ Durable'.ver[c] >= Durable.ver[c]
              /\ Durable'.val[c] # Durable.val[c] => Durable'.ver[c] > Durable.ver[c]
              /\ \A t \in Durable'.val[c] : t.by \in Node => t \in Durable.val[c]
              /\ Kind[c] = "barrier" => Durable'.val[c] \subseteq Durable.val[c]
              /\ Kind[c] = "reduce" => Durable.val[c] \subseteq Durable'.val[c]
              /\ Durable'.ver[c] # Durable.ver[c] =>
                   pc # "pending" /\ \E t \in Durable'.val[c] : t.at = step
         /\ \A n \in Node, c \in Chan : Durable'.seen[n][c] = Durable.seen[n][c]
         /\ pc # "pending" /\ Kind[d] = "reduce" =>
              \E t \in Durable'.val[d] : t.by = "__update__" /\ t.k = Len(updates) + 1
         /\ Durable' \in Checkpoint /\ Durable'.lists = Durable.lists
<1> DEFINE ts == UpdateWrites(d, Len(updates) + 1)
<1>0. Durable \in Checkpoint /\ SeenBounded(Durable) /\ step \in Nat
  BY DurableType
<1>1. CASE pc = "pending"
  <2>1. Durable' = Durable
    BY <1>1 DEF UpdateStateSignal, Durable, state
  <2>2. \A c \in Chan : Durable.ver[c] \in Nat
    BY <1>0 DEF Checkpoint
  <2> QED BY <1>0, <1>1, <2>1, <2>2
<1>2. CASE pc # "pending"
  <2>1. Durable = ck /\ Durable' = ApplyWrites(ck, ts, step)
    BY <1>2 DEF UpdateStateSignal, Durable
  <2>2. Follows(Durable', ck, ts, step)
    BY <1>0, <2>1, ApplyWritesFollows
  <2>3. /\ \A t \in ts : t.triggers = {} /\ t.name = "__update__"
        /\ d \in Chan /\ Kind[d] # "barrier" /\ "__update__" \notin Node
    BY WorkflowAssumption, GraphAssumption DEF UpdateWrites
  <2>4. ASSUME NEW c \in Chan PROVE \A t \in WrittenTo(ts, c, step) : t.by = "__update__" /\ c = d
    <3>1. \A t \in ts : \A w \in t.writes : w[1] = d
      BY DEF UpdateWrites
    <3> QED BY <2>3, <3>1, WrittenAt
  <2>5. [by |-> "__update__", k |-> Len(updates) + 1, at |-> step] \in WrittenTo(ts, d, step)
    <3> DEFINE u == [name |-> "__update__", path |-> "__update__",
                     writes |-> {<<d, Len(updates) + 1>>}, triggers |-> {}]
    <3>1. u \in ts /\ u.name = "__update__" /\ u.writes = {<<d, Len(updates) + 1>>}
      BY DEF UpdateWrites
    <3>2. <<d, Len(updates) + 1>> \in {x \in u.writes : x[1] = d}
      BY <3>1
    <3> HIDE DEF u, ts
    <3>3. [by |-> u.name, k |-> <<d, Len(updates) + 1>>[2], at |-> step] \in WrittenTo(ts, d, step)
      BY <3>1, <3>2 DEF WrittenTo
    <3> QED BY <3>1, <3>3
  <2>6. \A n \in Node, c \in Chan : SeenBy(ck, ts, n, c) = ck.seen[n][c]
    BY <2>3 DEF SeenBy
  <2>7. Durable' \in Checkpoint /\ Durable'.lists = Durable.lists
    <3>0. Durable'.lists = Durable.lists
      BY <2>1 DEF ApplyWrites
    <3>1. \A t \in ts : \A w \in t.writes : w[2] \in Nat
      BY DEF UpdateWrites, IInv, OutsideOK
    <3>2. TasksOK(ts)
      BY <2>3, <3>1 DEF TasksOK, Writer
    <3> QED BY <1>0, <2>1, <3>0, <3>2, ApplyWritesType
  <2> HIDE DEF ts
  <2>8. ASSUME NEW c \in Chan
        PROVE  /\ \A t \in Durable'.val[c] : t.by \in Node => t \in Durable.val[c]
               /\ Kind[c] = "barrier" => Durable'.val[c] \subseteq Durable.val[c]
    BY <2>1, <2>2, <2>3, <2>4 DEF Follows
  <2>9. /\ \A c \in Chan :
             /\ Durable'.ver[c] >= Durable.ver[c]
             /\ Durable'.val[c] # Durable.val[c] => Durable'.ver[c] > Durable.ver[c]
             /\ Kind[c] = "reduce" => Durable.val[c] \subseteq Durable'.val[c]
             /\ Durable'.ver[c] # Durable.ver[c] => \E t \in Durable'.val[c] : t.at = step
        /\ \A n \in Node, c \in Chan : Durable'.seen[n][c] = Durable.seen[n][c]
    BY <2>1, <2>2, <2>3, <2>6 DEF Follows
  <2>10. Kind[d] = "reduce" =>
           \E t \in Durable'.val[d] : t.by = "__update__" /\ t.k = Len(updates) + 1
    <3>1. Kind[d] = "reduce" =>
            [by |-> "__update__", k |-> Len(updates) + 1, at |-> step] \in Durable'.val[d]
      BY <2>2, <2>3, <2>5 DEF Follows
    <3> QED BY <3>1
  <2> QED BY <1>2, <2>7, <2>8, <2>9, <2>10
<1> QED BY <1>1, <1>2

\* An update_state signal.
LEMMA PastUpdated ==
  ASSUME IInv, IInv', Past, NEW d \in UpdateChan, UpdateStateSignal(d)
  PROVE  Past'
<1> DEFINE r == Durable'
           c0 == Durable
<1>1. /\ pc' = pc /\ Round' = Round /\ step' = step /\ DurableStep' = DurableStep /\ last' = last
      /\ updates' = Append(updates, [chan |-> d, live |-> pc # "pending"])
  BY DEF UpdateStateSignal, Round, DurableStep
<1>2. /\ \A c \in Chan :
           /\ r.ver[c] >= c0.ver[c]
           /\ r.val[c] # c0.val[c] => r.ver[c] > c0.ver[c]
           /\ \A t \in r.val[c] : t.by \in Node => t \in c0.val[c]
           /\ Kind[c] = "reduce" => c0.val[c] \subseteq r.val[c]
           /\ r.ver[c] # c0.ver[c] => pc # "pending" /\ \E t \in r.val[c] : t.at = step
      /\ \A n \in Node, c \in Chan : r.seen[n][c] = c0.seen[n][c]
      /\ pc # "pending" /\ Kind[d] = "reduce" =>
           \E t \in r.val[d] : t.by = "__update__" /\ t.k = Len(updates) + 1
      /\ r \in Checkpoint /\ r.lists = c0.lists
  BY UpdateFollows
<1>3. /\ \A c \in Chan : r.ver[c] \in Nat /\ c0.ver[c] \in Nat
      /\ \A n \in Node, c \in Chan : c0.seen[n][c] \in Nat
  BY <1>2, DurableType DEF Checkpoint
<1> HIDE DEF r, c0
<1>4. NoPartialSuperstep'
  BY <1>1, <1>2 DEF Past, NoPartialSuperstep, r, c0
<1>5. LiveUpdatesAreKept'
  <2>1. updates \in Seq([chan : UpdateChan, live : BOOLEAN])
    BY DEF IInv, OutsideOK
  <2>2. /\ Len(updates) \in Nat /\ Len(updates') = Len(updates) + 1
        /\ \A i \in 1..Len(updates) : updates'[i] = updates[i]
        /\ updates'[Len(updates) + 1] = [chan |-> d, live |-> pc # "pending"]
    BY <1>1, <2>1
  <2>3. ASSUME NEW i \in 1..Len(updates'), updates'[i].live, ToReducer(i)'
        PROVE  \E t \in r.val[updates'[i].chan] : t.by = "__update__" /\ t.k = i
    <3>1. CASE i = Len(updates) + 1
      <4>1. updates'[i] = [chan |-> d, live |-> pc # "pending"]
        BY <2>2, <3>1
      <4>2. updates'[i].chan = d /\ updates'[i].live = (pc # "pending")
        BY <4>1
      <4>3. pc # "pending" /\ Kind[d] = "reduce"
        BY <2>3, <4>2 DEF ToReducer
      <4> QED BY <1>2, <3>1, <4>2, <4>3
    <3>2. CASE i \in 1..Len(updates)
      <4>1. updates[i].live /\ ToReducer(i) /\ updates'[i] = updates[i]
        BY <2>2, <2>3, <3>2 DEF ToReducer
      <4>2. PICK t \in c0.val[updates[i].chan] : t.by = "__update__" /\ t.k = i
        BY <3>2, <4>1 DEF Past, LiveUpdatesAreKept, Reached, c0
      <4>3. updates[i].chan \in Chan
        BY <3>2, UpdatesType
      <4> QED BY <1>2, <4>1, <4>2, <4>3 DEF ToReducer
    <3> QED BY <2>2, <2>3, <3>1, <3>2
  <2> QED BY <2>3 DEF LiveUpdatesAreKept, Reached, r
<1>6. NewsIsUnseen'
  <2>1. ASSUME NEW n \in Node, NEW c \in Chan, NEW t \in r.val[c], t.by \in Node, t.at + 1 = Round
        PROVE  r.ver[c] > r.seen[n][c]
    <3>1. c0.ver[c] > c0.seen[n][c]
      BY <1>2, <2>1 DEF Past, NewsIsUnseen, c0
    <3> QED BY <1>2, <1>3, <3>1
  <2> QED BY <1>1, <2>1 DEF NewsIsUnseen, r
<1>7. LastIsPast'
  BY <1>1 DEF Past, LastIsPast
<1>8. NewVersionsSinceLast'
  <2>1. ASSUME NEW n \in Node, NEW c \in Triggers[n], last[n].wrote, r.ver[c] > r.seen[n][c],
               Available(r, c)
        PROVE  \E t \in r.val[c] : t.at + 1 >= last[n].at
    <3>1. c \in Chan /\ last[n].at \in Nat /\ last[n].at <= Round
      BY GraphAssumption, DurableType DEF Past, LastIsPast
    <3>2. CASE r.ver[c] # c0.ver[c]
      <4>1. PICK t \in r.val[c] : t.at = step
        BY <1>2, <3>1, <3>2
      <4>2. Round <= step + 1 /\ step \in Nat /\ Round \in Nat
        BY <1>2, <3>1, <3>2, DurableType DEF Round, DurableStep
      <4> QED BY <3>1, <4>1, <4>2
    <3>3. CASE r.ver[c] = c0.ver[c]
      <4>1. r.val[c] = c0.val[c]
        BY <1>2, <1>3, <3>1, <3>3
      <4>2. c0.ver[c] > c0.seen[n][c] /\ Available(c0, c)
        BY <1>2, <2>1, <3>1, <3>3, <4>1 DEF Available, Full
      <4> QED BY <2>1, <4>1, <4>2 DEF Past, NewVersionsSinceLast, Since, c0
    <3> QED BY <3>2, <3>3
  <2> QED BY <1>1, <2>1 DEF NewVersionsSinceLast, Since, r, Available, Full
<1>9. ListsHaveVersions'
  <2>1. \A c \in r.lists : c \in Chan /\ Kind[c] = "barrier" /\ r.ver[c] > 0
    BY <1>2, <1>3 DEF Past, ListsHaveVersions, c0
  <2> QED BY <2>1 DEF ListsHaveVersions, r
<1> QED BY <1>4, <1>5, <1>6, <1>7, <1>8, <1>9 DEF Past

\* run() builds its channels.
LEMMA StartRestores ==
  ASSUME IInv, Start
  PROVE  /\ pc = "pending" /\ Durable = input.ck /\ Round = input.step /\ RestoredStep \in Nat
         /\ pc' \notin {"pending", "after"} /\ ck' = Restored /\ step' = RestoredStep
         /\ Durable' = Restored /\ Round' = RestoredStep /\ stepsInRun' = 0
         /\ Ticked(ck', step') /\ UNCHANGED <<stream, input, updates, last>>
<1>1. RestoredStep \in Nat
  BY RestoredOK DEF IInv
<1>2. Ticked(Restored, RestoredStep)
  BY <1>1, TickTicks DEF Start
<1> QED BY <1>1, <1>2 DEF Start, Ticked, Durable, DurableStep, Round

\* The state a first run builds is empty but for the input.
LEMMA FirstState ==
  ASSUME ~input.restored
  PROVE  /\ Restored \in {EmptyCheckpoint, ApplyWrites(EmptyCheckpoint, InputWrites, 0)}
         /\ Follows(Restored, EmptyCheckpoint, InputWrites, 0) \/ Restored = EmptyCheckpoint
         /\ \A c \in Chan : \A t \in Restored.val[c] : t.by \notin Node
         /\ Restored.lists = {}
<1>0. EmptyCheckpoint.lists = {} /\ ApplyWrites(EmptyCheckpoint, InputWrites, 0).lists = {}
  BY DEF ApplyWrites, EmptyCheckpoint
<1>1. Restored \in {EmptyCheckpoint, ApplyWrites(EmptyCheckpoint, InputWrites, 0)}
  BY DEF Restored
<1>2. Follows(Restored, EmptyCheckpoint, InputWrites, 0) \/ Restored = EmptyCheckpoint
  BY <1>1, EmptyCheckpointOK, ApplyWritesFollows
<1>3. \A c \in Chan : EmptyCheckpoint.val[c] = {}
  BY DEF EmptyCheckpoint
<1>4. \A c \in Chan : \A t \in WrittenTo(InputWrites, c, 0) : t.by = "__input__"
  <2>1. \A t \in InputWrites : t.name = "__input__"
    BY DEF InputWrites
  <2> QED BY <2>1, WrittenAt
<1>5. "__input__" \notin Node
  BY GraphAssumption
<1> QED BY <1>0, <1>1, <1>2, <1>3, <1>4, <1>5 DEF Follows

LEMMA PastStarted ==
  ASSUME IInv, IInv', Past, FirstRunStartsEmpty, Start
  PROVE  Past'
<1>0. /\ pc = "pending" /\ Durable = input.ck /\ Round = input.step
      /\ Durable' = Restored /\ Round' = RestoredStep /\ UNCHANGED <<updates, last>>
  BY StartRestores
<1>1. CASE input.restored
  <2>1. Durable' = Durable /\ Round' = Round
    BY <1>0, <1>1 DEF Restored, RestoredStep
  <2> QED BY <1>0, <2>1, PastKept
<1>2. CASE ~input.restored
  <2>1. /\ Durable = EmptyCheckpoint /\ Round' = Round
        /\ \A n \in Node : ~last[n].wrote
    BY <1>0, <1>2 DEF FirstRunStartsEmpty, RestoredStep
  <2>2. \A c \in Chan : \A t \in Durable'.val[c] : t.by \notin Node
    BY <1>0, <1>2, FirstState
  <2>3. NoPartialSuperstep' /\ NewsIsUnseen'
    BY <2>2 DEF NoPartialSuperstep, NewsIsUnseen
  <2>4. LiveUpdatesAreKept'
    <3>1. ASSUME NEW i \in 1..Len(updates), updates[i].live, ToReducer(i) PROVE FALSE
      <4>1. Reached(i)
        BY <3>1 DEF Past, LiveUpdatesAreKept
      <4>2. updates[i].chan \in Chan
        BY UpdatesType
      <4>3. Durable.val[updates[i].chan] = {}
        BY <2>1, <4>2 DEF EmptyCheckpoint
      <4> QED BY <4>1, <4>3 DEF Reached
    <3> QED BY <1>0, <3>1 DEF LiveUpdatesAreKept, ToReducer
  <2>5. LastIsPast' /\ NewVersionsSinceLast'
    BY <1>0, <2>1 DEF Past, LastIsPast, NewVersionsSinceLast
  <2>6. ListsHaveVersions'
    BY <1>0, <1>2, FirstState DEF ListsHaveVersions
  <2> QED BY <2>3, <2>4, <2>5, <2>6 DEF Past
<1> QED BY <1>1, <1>2

-----------------------------------------------------------------------------
(***************************************************************************)
(* The present: the stream and the nodes to run.                           *)
(***************************************************************************)

\* A step between supersteps' ends keeps what the past is about.
LEMMA BetweenKeeps ==
  ASSUME Between
  PROVE  /\ Durable' = Durable /\ Round' = Round /\ (pc' = "pending" <=> pc = "pending")
         /\ RestoredStep' = RestoredStep
BY DEF Between, state, Durable, DurableStep, Round, RestoredStep, Executing

\* WakeAfter advances with the checkpoint as it is.
LEMMA WakeAdvances ==
  ASSUME IInv, WakeAfter
  PROVE  /\ Advanced(ck, stream) /\ UNCHANGED <<updates, last>>
         /\ pc = "after" /\ Durable = ck /\ Round = step + 1
BY AdvanceAdvances DEF WakeAfter, IInv, Durable, Round

\* What a run plans from a past as History says is what CommittedTriggersRun and
\* NoRerunWithoutNewInput ask for.
LEMMA PlannedFromPast ==
  ASSUME IInv, IInv', Past', Ticked(ck', step')
  PROVE  NewsIsPlanned' /\ NoRerunWithoutNewInput'
<1>1. pc' \in {"closed", "before", "nodes"} /\ Durable' = ck' /\ Round' = step'
  BY DEF Ticked, Durable, DurableStep, Round
<1>2. ASSUME NEW n \in Node, NEW c \in Triggers[n]
      PROVE  c \in Chan /\ (Available(ck', c) /\ ck'.ver[c] > ck'.seen[n][c]
                              => n \in PrepareNextTasks(ck'))
  BY GraphAssumption DEF PrepareNextTasks
<1>3. NewsIsPlanned'
  <2>1. ASSUME NEW n \in Node, NEW c \in Triggers[n], NEW t \in ck'.val[c], Planned',
               t.by \in Node, t.at + 1 = step', Available(ck', c)
        PROVE  n \in tasks'
    <3>1. ck'.ver[c] > ck'.seen[n][c]
      BY <1>1, <1>2, <2>1 DEF Past, NewsIsUnseen
    <3>2. n \in PrepareNextTasks(ck')
      BY <1>2, <2>1, <3>1
    <3> QED BY <1>1, <2>1, <3>2 DEF Ticked, Planned, Executing
  <2> QED BY <2>1 DEF NewsIsPlanned, Available, Full
<1>4. NoRerunWithoutNewInput'
  <2>1. ASSUME NEW n \in tasks', pc' \in {"before", "nodes"}, last'[n].wrote
        PROVE  \E c \in Triggers[n] : \E t \in ck'.val[c] : t.at + 1 >= last'[n].at
    <3>1. n \in PrepareNextTasks(ck')
      BY <1>1, <2>1 DEF Ticked
    <3>2. PICK c \in Triggers[n] : Available(ck', c) /\ ck'.ver[c] > ck'.seen[n][c] /\ n \in Node
      BY <3>1 DEF PrepareNextTasks
    <3> QED BY <1>1, <2>1, <3>2 DEF Past, NewVersionsSinceLast, Since, Available, Full
  <2> QED BY <2>1 DEF NoRerunWithoutNewInput
<1> QED BY <1>3, <1>4

\* A run that has returned, waits to start or waits after a superstep has planned nothing.
LEMMA PlanVacuous ==
  ASSUME pc' \in {"pending", "after"}
  PROVE  NewsIsPlanned' /\ NoRerunWithoutNewInput'
BY DEF NewsIsPlanned, Planned, NoRerunWithoutNewInput, Executing

\* A plan holds until the end of the superstep.
LEMMA PlanKept ==
  ASSUME Between, NewsIsPlanned, NoRerunWithoutNewInput
  PROVE  NewsIsPlanned' /\ NoRerunWithoutNewInput'
<1>1. ck' = ck /\ step' = step /\ tasks' = tasks /\ last' = last
  BY DEF Between, state
<1>2. (Planned' => Planned) /\ (pc' \in {"before", "nodes"} => pc \in {"before", "nodes"})
  BY <1>1 DEF Between, Planned, Executing
<1> QED BY <1>1, <1>2 DEF NewsIsPlanned, NoRerunWithoutNewInput

\* An update adds no value of a node, and completes no barrier.
LEMMA PlanUpdated ==
  ASSUME IInv, LastIsPast, NewsIsPlanned, NoRerunWithoutNewInput,
         NEW d \in UpdateChan, UpdateStateSignal(d)
  PROVE  NewsIsPlanned' /\ NoRerunWithoutNewInput'
<1>1. pc' = pc /\ step' = step /\ tasks' = tasks /\ last' = last
  BY DEF UpdateStateSignal, exec
<1>2. CASE pc = "pending"
  BY <1>1, <1>2, PlanVacuous
<1>3. CASE pc # "pending"
  <2>1. Durable = ck /\ Durable' = ck'
    BY <1>1, <1>3 DEF Durable
  <2>2. \A c \in Chan :
          /\ ck'.val[c] # ck.val[c] => \E t \in ck'.val[c] : t.at = step
          /\ \A t \in ck'.val[c] : t.by \in Node => t \in ck.val[c]
          /\ Kind[c] = "barrier" => ck'.val[c] \subseteq ck.val[c]
          /\ ck'.lists = ck.lists
    <3>1. \A c \in Chan : ck'.ver[c] \in Nat /\ ck.ver[c] \in Nat
      BY <2>1, UpdateFollows, DurableType DEF Checkpoint
    <3> QED BY <2>1, <3>1, UpdateFollows
  <2>3. NewsIsPlanned'
    <3>1. ASSUME NEW n \in Node, NEW c \in Triggers[n], NEW t \in ck'.val[c],
                 Planned, t.by \in Node, t.at + 1 = step, Available(ck', c)
          PROVE  n \in tasks
      <4>1. c \in Chan /\ t \in ck.val[c]
        BY <2>2, <3>1, GraphAssumption
      <4>2. Available(ck, c)
        BY <2>2, <3>1, <4>1 DEF Available, Full
      <4> QED BY <3>1, <4>1, <4>2 DEF NewsIsPlanned
    <3> QED BY <1>1, <3>1 DEF NewsIsPlanned, Planned, Available, Full
  <2>4. NoRerunWithoutNewInput'
    <3>1. ASSUME NEW n \in tasks, pc \in {"before", "nodes"}, last[n].wrote
          PROVE  \E c \in Triggers[n] : \E t \in ck'.val[c] : t.at + 1 >= last[n].at
      <4>1. PICK c \in Triggers[n] : \E t \in ck.val[c] : t.at + 1 >= last[n].at
        BY <3>1 DEF NoRerunWithoutNewInput
      <4>2. n \in Node /\ c \in Chan
        BY <3>1, <4>1, GraphAssumption DEF IInv, Core, ControlOK
      <4>3. CASE ck'.val[c] # ck.val[c]
        <5>1. PICK t \in ck'.val[c] : t.at = step
          BY <2>2, <4>2, <4>3
        <5>2. last[n].at <= step /\ step \in Nat /\ last[n].at \in Nat
          BY <3>1, <4>2, DurableType DEF LastIsPast, Round, DurableStep
        <5> QED BY <4>1, <5>1, <5>2
      <4> QED BY <4>1, <4>3
    <3> QED BY <1>1, <3>1 DEF NoRerunWithoutNewInput
  <2> QED BY <2>3, <2>4
<1> QED BY <1>2, <1>3

\* The stream of a run that builds its channels.
LEMMA StreamStarted ==
  ASSUME IInv, IInv', Past', StreamIsComplete, Start
  PROVE  StreamIsComplete' /\ StreamTellsTheState'
<1>1. /\ pc' \notin {"pending", "after"} /\ Durable' = ck' /\ Round' = RestoredStep
      /\ RestoredStep' = RestoredStep /\ RestoredStep \in Nat /\ stream' = <<>>
  BY StartRestores DEF StreamIsComplete, Durable, RestoredStep
<1>2. \A c \in Chan : \A t \in ck'.val[c] : t.by \in Node => t.at \in Nat /\ t.at < RestoredStep
  <2>1. \A c \in Chan : \A t \in Durable'.val[c] : t.at \in Nat
    <3>1. Durable' \in Checkpoint
      BY DEF IInv, Core, StateOK, Durable
    <3> QED BY <3>1 DEF Checkpoint, Token
  <2>2. DurableStep' = RestoredStep
    BY <1>1 DEF Round
  <2> QED BY <1>1, <2>1, <2>2 DEF Past, NoPartialSuperstep
<1>3. Len(stream') = 0
  BY <1>1
<1> QED BY <1>1, <1>2, <1>3 DEF StreamIsComplete, StreamTellsTheState

\* A step that adds no value of a node.
LEMMA StreamKept ==
  ASSUME StreamIsComplete, StreamTellsTheState, UNCHANGED <<stream, input>>,
         pc # "pending", pc' # "pending", Round' = Round,
         \A c \in Chan : \A t \in ck'.val[c] : t.by \in Node => t \in ck.val[c]
  PROVE  StreamIsComplete' /\ StreamTellsTheState'
BY DEF StreamIsComplete, StreamTellsTheState, RestoredStep

\* The end of a superstep, in this run.
LEMMA StreamCommitted ==
  ASSUME IInv, IInv', Past, StreamIsComplete, StreamTellsTheState, pc \in Executing,
         stream' = EmitStreamEvents(results), input' = input,
         pc' # "pending", Round' = step + 1, ck' = ApplyResults(results)
  PROVE  StreamIsComplete' /\ StreamTellsTheState'
<1> DEFINE first == RestoredStep
           nodes == {r.task.node : r \in Wrote(results)}
<1>1. /\ pc # "pending" /\ Durable = ck /\ Round = step /\ step \in Nat
  BY DurableType DEF Executing, Durable, Round, DurableStep
<1>2. /\ stream \in Seq([step : Nat, nodes : SUBSET Node])
      /\ first \in Nat /\ RestoredStep' = first
  BY RestoredOK DEF IInv, Core, StateOK, RestoredStep
<1>3. /\ Len(stream) \in Nat /\ Len(stream') = Len(stream) + 1
      /\ \A i \in 1..Len(stream) : stream'[i] = stream[i]
      /\ stream'[Len(stream) + 1] = [step |-> step, nodes |-> nodes]
  BY <1>2 DEF EmitStreamEvents
<1>4. /\ first + Len(stream) = step
      /\ \A i \in 1..Len(stream) : stream[i].step = first + i - 1
      /\ \A c \in Chan : \A t \in ck.val[c] :
           Kind[c] = "reduce" /\ t.by \in Node /\ t.at >= first =>
             t.at - first + 1 \in 1..Len(stream) /\ t.by \in stream[t.at - first + 1].nodes
  BY <1>1 DEF StreamIsComplete, StreamTellsTheState
<1> HIDE DEF first, nodes
<1>5. StreamIsComplete'
  <2>1. first + (Len(stream) + 1) = step + 1
    BY <1>1, <1>2, <1>3, <1>4
  <2> QED BY <1>2, <1>3, <2>1 DEF StreamIsComplete
<1>6. \A i \in 1..Len(stream') : stream'[i].step = first + i - 1
  <2>1. ASSUME NEW i \in 1..Len(stream') PROVE stream'[i].step = first + i - 1
    <3>1. CASE i = Len(stream) + 1
      <4>1. stream'[i].step = step
        BY <1>3, <3>1
      <4> QED BY <1>1, <1>2, <1>3, <1>4, <3>1, <4>1
    <3>2. CASE i \in 1..Len(stream)
      BY <1>3, <1>4, <3>2
    <3> QED BY <1>3, <2>1, <3>1, <3>2
  <2> QED BY <2>1
<1>7. ASSUME NEW c \in Chan, NEW t \in ck'.val[c],
             Kind[c] = "reduce", t.by \in Node, t.at >= first
      PROVE  t.at - first + 1 \in 1..Len(stream') /\ t.by \in stream'[t.at - first + 1].nodes
  <2>1. t \in ck.val[c] \cup WrittenTo(TaskWrites(results), c, step)
    <3>1. results \in SUBSET Result /\ Core
      BY DEF IInv, Core, ControlOK
    <3> QED BY <1>7, <3>1, ApplyResultsFollows DEF Follows
  <2>2. CASE t \in ck.val[c]
    <3>1. t.at - first + 1 \in 1..Len(stream) /\ t.by \in stream[t.at - first + 1].nodes
      BY <1>4, <1>7, <2>2
    <3>2. t.at - first + 1 \in 1..Len(stream')
      BY <1>3, <3>1
    <3> QED BY <1>3, <3>1, <3>2
  <2>3. CASE t \in WrittenTo(TaskWrites(results), c, step)
    <3>1. PICK x \in TaskWrites(results) : t.at = step /\ t.by = x.name
      BY <2>3, WrittenAt
    <3>2. PICK r \in results : r.writes # {} /\ x.name = r.task.node
      BY <3>1, ResultOfTask
    <3>3. t.by \in nodes
      BY <3>1, <3>2 DEF nodes, Wrote
    <3>4. t.at - first + 1 = Len(stream) + 1
      BY <1>1, <1>2, <1>3, <1>4, <3>1
    <3>5. stream'[Len(stream) + 1].nodes = nodes
      BY <1>3
    <3> QED BY <1>3, <3>3, <3>4, <3>5
  <2> QED BY <2>1, <2>2, <2>3
<1> QED BY <1>2, <1>5, <1>6, <1>7 DEF StreamTellsTheState

\* A run that has not begun has streamed nothing.
LEMMA StreamPending ==
  ASSUME pc' = "pending", stream' = <<>>
  PROVE  StreamIsComplete' /\ StreamTellsTheState'
BY DEF StreamIsComplete, StreamTellsTheState

-----------------------------------------------------------------------------
(***************************************************************************)
(* The invariant.                                                          *)
(***************************************************************************)
LEMMA InitHistory == Init => History
<1> SUFFICES ASSUME Init PROVE History
  OBVIOUS
<1>1. /\ pc = "pending" /\ inflight = {} /\ stream = <<>> /\ updates = <<>>
      /\ input.restored = FALSE /\ input.ck = EmptyCheckpoint /\ input.step = 0
      /\ last = [n \in Node |-> [at |-> 0, wrote |-> FALSE]]
  BY DEF Init
<1>2. Durable = EmptyCheckpoint /\ DurableStep = 0 /\ Round = 0
  BY <1>1 DEF Durable, DurableStep, Round
<1>3. \A c \in Chan : Durable.val[c] = {}
  BY <1>2 DEF EmptyCheckpoint
<1>4. \A n \in Node : last[n].at = 0 /\ last[n].wrote = FALSE
  BY <1>1
<1>5. FirstRunStartsEmpty /\ NothingPending /\ StreamIsComplete /\ StreamTellsTheState
  BY <1>1, <1>4 DEF FirstRunStartsEmpty, NothingPending, StreamIsComplete, StreamTellsTheState
<1>6. NoPartialSuperstep /\ NewsIsUnseen /\ ListsHaveVersions
  BY <1>2, <1>3 DEF NoPartialSuperstep, NewsIsUnseen, ListsHaveVersions, EmptyCheckpoint
<1>7. LiveUpdatesAreKept
  <2>1. Len(updates) = 0
    BY <1>1
  <2> QED BY <2>1 DEF LiveUpdatesAreKept
<1>8. LastIsPast /\ NewVersionsSinceLast
  BY <1>2, <1>4 DEF LastIsPast, NewVersionsSinceLast
<1>9. NewsIsPlanned /\ NoRerunWithoutNewInput
  BY <1>1 DEF NewsIsPlanned, Planned, NoRerunWithoutNewInput, Executing
<1> QED BY <1>5, <1>6, <1>7, <1>8, <1>9 DEF History

\* Every step keeps it.
LEMMA StepHistory ==
  ASSUME IInv, History, [Next]_vars
  PROVE  History'
<1>0. IInv' /\ Past
  BY StepInvariant DEF History, Past
<1>1. CASE Start
  <2>0. /\ pc = "pending" /\ pc' \notin {"pending", "after"} /\ input' = input /\ last' = last
        /\ Ticked(ck', step')
    BY <1>1, StartRestores
  <2>1. Past'
    BY <1>0, <1>1, PastStarted DEF History
  <2>2. StreamIsComplete' /\ StreamTellsTheState'
    BY <1>0, <1>1, <2>1, StreamStarted DEF History
  <2>3. NewsIsPlanned' /\ NoRerunWithoutNewInput'
    BY <1>0, <2>0, <2>1, PlannedFromPast
  <2>4. FirstRunStartsEmpty' /\ NothingPending'
    BY <2>0 DEF History, FirstRunStartsEmpty, NothingPending
  <2> QED BY <2>1, <2>2, <2>3, <2>4 DEF History, Past
<1>2. CASE WakeAfter
  <2>0. /\ Advanced(ck, stream) /\ UNCHANGED <<updates, last>>
        /\ pc = "after" /\ Durable = ck /\ Round = step + 1
    BY <1>2, WakeAdvances
  <2>1. Past'
    <3>1. Durable' \in {Durable, Json(Durable)} /\ Round' = Round
      BY <2>0 DEF Advanced
    <3> QED BY <1>0, <2>0, <3>1, PastKept
  <2>2. CASE pc' = "pending" /\ input'.restored /\ stream' = <<>> /\ inflight' = {}
    BY <2>1, <2>2, StreamPending, PlanVacuous
       DEF History, Past, FirstRunStartsEmpty, NothingPending
  <2>3. CASE /\ Ticked(ck, step + 1)
             /\ ck' = ck /\ step' = step + 1 /\ stream' = stream /\ input' = input
    <3>1. pc' # "pending"
      BY <2>3 DEF Ticked
    <3>2. NewsIsPlanned' /\ NoRerunWithoutNewInput'
      BY <1>0, <2>1, <2>3, PlannedFromPast
    <3>3. StreamIsComplete' /\ StreamTellsTheState'
      BY <2>0, <2>3, <3>1, StreamKept DEF Advanced, History
    <3>4. FirstRunStartsEmpty' /\ NothingPending'
      BY <2>3, <3>1 DEF History, FirstRunStartsEmpty, NothingPending
    <3> QED BY <2>1, <3>2, <3>3, <3>4 DEF History, Past
  <2> QED BY <2>0, <2>2, <2>3 DEF Advanced
<1>3. ASSUME NEW d \in UpdateChan, UpdateStateSignal(d)
      PROVE  History'
  <2>0. pc' = pc /\ UNCHANGED <<stream, input, last, inflight>> /\ Round' = Round
    BY <1>3 DEF UpdateStateSignal, exec, Round, DurableStep
  <2>1. Past'
    BY <1>0, <1>3, PastUpdated
  <2>2. NewsIsPlanned' /\ NoRerunWithoutNewInput'
    BY <1>3, PlanUpdated DEF History
  <2>3. FirstRunStartsEmpty' /\ NothingPending'
    BY <2>0 DEF History, FirstRunStartsEmpty, NothingPending
  <2>4. CASE pc = "pending"
    <3>1. stream' = <<>>
      BY <2>0, <2>4 DEF History, StreamIsComplete
    <3> QED BY <2>0, <2>1, <2>2, <2>3, <2>4, <3>1, StreamPending DEF History, Past
  <2>5. CASE pc # "pending"
    <3>1. \A c \in Chan : \A t \in ck'.val[c] : t.by \in Node => t \in ck.val[c]
      BY <1>3, <2>0, <2>5, UpdateFollows DEF Durable
    <3>2. StreamIsComplete' /\ StreamTellsTheState'
      BY <2>0, <2>5, <3>1, StreamKept DEF History
    <3> QED BY <2>1, <2>2, <2>3, <3>2 DEF History, Past
  <2> QED BY <2>4, <2>5
<1>4. CASE Commits
  <2>0. /\ pc \in Executing /\ Round' = step + 1
        /\ Durable' \in {ApplyResults(results), Json(ApplyResults(results))}
        /\ last' = Executed(results) /\ UNCHANGED updates
    BY <1>4 DEF Commits, Advanced, Durable, Round
  <2>1. Past'
    <3>1. results \in SUBSET Result /\ Core
      BY DEF IInv, Core, ControlOK
    <3>2. Follows(Durable', ck, TaskWrites(results), step)
      BY <1>0, <2>0, <3>1, CommitFollows
    <3> QED BY <1>0, <2>0, <3>2, PastCommitted
  <2>2. CASE /\ pc' = "after" /\ ck' = ApplyResults(results)
             /\ stream' = EmitStreamEvents(results) /\ UNCHANGED input
    <3>1. StreamIsComplete' /\ StreamTellsTheState'
      BY <1>0, <2>0, <2>2, StreamCommitted DEF History
    <3>2. FirstRunStartsEmpty' /\ NothingPending'
      BY <2>2 DEF History, FirstRunStartsEmpty, NothingPending
    <3> QED BY <2>1, <2>2, <3>1, <3>2, PlanVacuous DEF History, Past
  <2>3. CASE pc' = "pending" /\ input'.restored /\ stream' = <<>> /\ inflight' = {}
    BY <2>1, <2>3, StreamPending, PlanVacuous
       DEF History, Past, FirstRunStartsEmpty, NothingPending
  <2>4. CASE /\ Ticked(ApplyResults(results), step + 1)
             /\ ck' = ApplyResults(results) /\ step' = step + 1
             /\ stream' = EmitStreamEvents(results) /\ input' = input
    <3>1. pc' # "pending"
      BY <2>4 DEF Ticked
    <3>2. NewsIsPlanned' /\ NoRerunWithoutNewInput'
      BY <1>0, <2>1, <2>4, PlannedFromPast
    <3>3. StreamIsComplete' /\ StreamTellsTheState'
      BY <1>0, <2>0, <2>4, <3>1, StreamCommitted DEF History
    <3>4. FirstRunStartsEmpty' /\ NothingPending'
      BY <2>4, <3>1 DEF History, FirstRunStartsEmpty, NothingPending
    <3> QED BY <2>1, <3>2, <3>3, <3>4 DEF History, Past
  <2> QED BY <1>4, <2>2, <2>3, <2>4 DEF Commits, Advanced
<1>5. CASE Between
  <2>0. /\ Durable' = Durable /\ Round' = Round /\ (pc' = "pending" <=> pc = "pending")
        /\ UNCHANGED <<ck, stream, input, last, updates>>
    BY <1>5, BetweenKeeps DEF Between, state
  <2>1. Past'
    BY <1>0, <2>0, PastKept
  <2>2. NewsIsPlanned' /\ NoRerunWithoutNewInput'
    BY <1>5, PlanKept DEF History
  <2>3. FirstRunStartsEmpty' /\ NothingPending'
    BY <1>5, <2>0 DEF History, FirstRunStartsEmpty, NothingPending, Between, Executing
  <2>4. CASE pc = "pending"
    <3>1. stream' = <<>>
      BY <2>0, <2>4 DEF History, StreamIsComplete
    <3> QED BY <2>0, <2>1, <2>2, <2>3, <2>4, <3>1, StreamPending DEF History, Past
  <2>5. CASE pc # "pending"
    BY <2>0, <2>1, <2>2, <2>3, <2>5, StreamKept DEF History, Past
  <2> QED BY <2>4, <2>5
<1> QED BY <1>1, <1>2, <1>3, <1>4, <1>5, StepKinds

\* The inductive invariant holds in every reachable state, of every graph.
THEOREM HistoryHolds == Spec => [](IInv /\ History)
<1>1. Init => IInv /\ History
  BY InitInvariant, InitHistory
<1>2. IInv /\ History /\ [Next]_vars => (IInv /\ History)'
  BY StepInvariant, StepHistory
<1> QED BY <1>1, <1>2, PTL DEF Spec

-----------------------------------------------------------------------------
(***************************************************************************)
(* The results.                                                            *)
(***************************************************************************)

\* No channel holds a value of a superstep that is not complete, whenever its activities
\* end and whenever the worker or the run is replaced.
THEOREM SuperstepsAtomic == Spec => []NoPartialSuperstep
<1>1. History => NoPartialSuperstep
  BY DEF History
<1> QED BY <1>1, HistoryHolds, PTL

\* Once a run that has channels handled an update_state signal to a reducer, nothing
\* removes the update from the state.
THEOREM UpdatesDurable == Spec => []LiveUpdatesAreKept
<1>1. History => LiveUpdatesAreKept
  BY DEF History
<1> QED BY <1>1, HistoryHolds, PTL

\* get_stream_buffer has an entry per superstep of the run, and it names every writer of
\* the reducer values in the state.
THEOREM StreamTruthful == Spec => []StreamTellsTheState
<1>1. History => StreamTellsTheState
  BY DEF History
<1> QED BY <1>1, HistoryHolds, PTL

\* Each value a superstep leaves in a trigger, and in a barrier as the last of its members,
\* runs the node it triggers in the next superstep, in this run or in the next; only
\* barriers whose set has been through JSON trigger nothing.
THEOREM TriggersRun == Spec => []CommittedTriggersRun
<1>1. ASSUME History PROVE CommittedTriggersRun
  <2>1. ASSUME NEW n \in Node, NEW c \in Triggers[n] \ ck.lists, NEW t \in ck.val[c],
               Kind[c] = "barrier" => Full(ck, c)
        PROVE  Available(ck, c)
    BY <2>1 DEF Available
  <2>2. pc \in {"before"} \cup Executing \/ (pc = "closed" /\ step < RecursionLimit) => Planned
    BY DEF Planned
  <2>3. NewsIsPlanned
    BY <1>1 DEF History
  <2> QED BY <2>1, <2>2, <2>3 DEF NewsIsPlanned, CommittedTriggersRun, TriggeredRun
<1> QED BY <1>1, HistoryHolds, PTL

\* A node that wrote does not run again on what it has already seen.
THEOREM NoIdleRerun == Spec => []NoRerunWithoutNewInput
<1>1. History => NoRerunWithoutNewInput
  BY DEF History
<1> QED BY <1>1, HistoryHolds, PTL

\* What VersionsTrackValues says of one channel.
VersionTracks(c) ==
  /\ Durable'.ver[c] >= Durable.ver[c]
  /\ Durable'.val[c] # Durable.val[c] => Durable'.ver[c] > Durable.ver[c]
  /\ c \in Durable.lists => c \in Durable'.lists
  /\ c \in Durable'.lists \ Durable.lists =>
       pc' = "pending" /\ Kind[c] = "barrier" /\ Durable'.ver[c] > 0

\* A step that changes the durable state by JSON or not at all.
LEMMA VersionsCarried ==
  ASSUME IInv, ListsHaveVersions, NEW c \in Chan,
         Durable' = Durable \/ (pc' = "pending" /\ Durable' = Json(Durable))
  PROVE  VersionTracks(c)
<1>1. Durable \in Checkpoint /\ Durable.ver[c] \in Nat
  BY DurableType DEF Checkpoint
<1>2. CASE Durable' = Durable
  BY <1>1, <1>2 DEF VersionTracks
<1>3. CASE pc' = "pending" /\ Durable' = Json(Durable)
  BY <1>1, <1>3, JsonType DEF VersionTracks, ListsHaveVersions
<1> QED BY <1>2, <1>3

\* What a step does to a version and its value.
LEMMA VersionsStep ==
  ASSUME IInv, History, [Next]_vars, NEW c \in Chan
  PROVE  VersionTracks(c)
<1>0. Durable.ver[c] \in Nat /\ ListsHaveVersions /\ Past
  BY DurableType DEF Checkpoint, History, Past
<1>1. CASE Durable' = Durable
  BY <1>0, <1>1, VersionsCarried
<1>2. CASE Start
  <2>0. Durable = input.ck /\ Durable' = Restored /\ pc = "pending"
    BY <1>2, StartRestores
  <2>1. CASE input.restored
    BY <1>1, <2>0, <2>1 DEF Restored
  <2>2. CASE ~input.restored
    <3>1. Durable = EmptyCheckpoint /\ Durable'.lists = {}
      BY <2>0, <2>2, FirstState DEF History, FirstRunStartsEmpty
    <3>2. CASE Follows(Restored, EmptyCheckpoint, InputWrites, 0)
      BY <2>0, <3>1, <3>2 DEF Follows, VersionTracks
    <3> QED BY <1>1, <2>0, <2>2, <3>1, <3>2, FirstState
  <2> QED BY <2>1, <2>2
<1>3. CASE WakeAfter
  <2>1. Durable' = Durable \/ (pc' = "pending" /\ Durable' = Json(Durable))
    BY <1>3, WakeAdvances DEF Advanced
  <2> QED BY <1>0, <2>1, VersionsCarried
<1>4. ASSUME NEW d \in UpdateChan, UpdateStateSignal(d)
      PROVE  VersionTracks(c)
  BY <1>4, UpdateFollows DEF VersionTracks
<1>5. CASE Commits
  <2>1. /\ Durable = ck /\ pc \in Executing
        /\ \/ Durable' = ApplyResults(results)
           \/ pc' = "pending" /\ Durable' = Json(ApplyResults(results))
    BY <1>5 DEF Commits, Advanced, Durable, Executing
  <2>2. Follows(Durable', ck, TaskWrites(results), step)
    BY <1>0, <2>1, CommitFollows
  <2>3. Durable' = ApplyResults(results) => Durable'.lists = ck.lists
    BY DEF ApplyResults, ApplyWrites
  <2> QED BY <2>1, <2>2, <2>3 DEF Follows, VersionTracks
<1>6. CASE Between
  BY <1>1, <1>6, BetweenKeeps
<1> QED BY <1>2, <1>3, <1>4, <1>5, <1>6, StepKinds

\* Whichever of input, update_state, superstep or continue-as-new changes the state, its
\* versions tell what changed, except that a continue-as-new replaces the set of a barrier
\* that has a version by a list, for good and under the same version.
THEOREM VersionsHonest == Spec => VersionsTrackValues
<1> DEFINE Honest == \A c \in Chan : VersionTracks(c)
<1>1. IInv /\ History /\ [Next]_vars => Honest
  BY VersionsStep
<1>2. VersionsTrackValues <=> [][Honest]_vars
  BY DEF VersionsTrackValues, VersionTracks
<1> HIDE DEF Honest
<1> QED BY <1>1, <1>2, HistoryHolds, PTL DEF Spec

-----------------------------------------------------------------------------
(***************************************************************************)
(* The recursion limit, which each run compares with a step counter that   *)
(* it got from the run before.                                             *)
(***************************************************************************)
WithinLimit ==
  /\ Round <= RecursionLimit
  /\ pc \in {"before", "interrupted", "after"} \cup Executing => step < RecursionLimit

LEMMA TickedLimit ==
  ASSUME NEW c, NEW s \in Nat, Ticked(c, s), s <= RecursionLimit, Round' = s, step' = s
  PROVE  WithinLimit'
BY WorkflowAssumption DEF Ticked, WithinLimit, Executing

LEMMA StepLimit ==
  ASSUME IInv, History, WithinLimit, [Next]_vars
  PROVE  WithinLimit'
<1>0. step \in Nat /\ Round \in Nat /\ RestoredStep \in Nat /\ RecursionLimit \in Nat
  BY DurableType, RestoredOK, WorkflowAssumption DEF IInv
<1>1. ASSUME NEW c, NEW st, Advanced(c, st), step < RecursionLimit
      PROVE  WithinLimit'
  <2>1. step + 1 \in Nat /\ step + 1 <= RecursionLimit /\ Round' = step + 1
    BY <1>0, <1>1 DEF Advanced
  <2>2. CASE pc' = "pending"
    BY <2>1, <2>2 DEF WithinLimit, Executing
  <2>3. CASE Ticked(c, step + 1) /\ step' = step + 1
    BY <2>1, <2>3, TickedLimit
  <2> QED BY <1>1, <2>2, <2>3 DEF Advanced
<1>2. CASE Start
  <2>1. /\ Round = input.step /\ Round' = RestoredStep /\ step' = RestoredStep
        /\ Ticked(ck', RestoredStep)
    BY <1>2, StartRestores
  <2>2. RestoredStep <= RecursionLimit
    BY <1>0, <2>1 DEF RestoredStep, WithinLimit
  <2> QED BY <1>0, <2>1, <2>2, TickedLimit
<1>3. CASE WakeAfter
  <2>1. Advanced(ck, stream) /\ step < RecursionLimit
    BY <1>3, WakeAdvances DEF WithinLimit
  <2> QED BY <1>1, <2>1
<1>4. CASE \E c \in UpdateChan : UpdateStateSignal(c)
  BY <1>4 DEF UpdateStateSignal, exec, WithinLimit, Round, DurableStep
<1>5. CASE Commits
  <2>1. step < RecursionLimit
    BY <1>5 DEF Commits, WithinLimit
  <2>2. CASE pc' = "after" /\ UNCHANGED step
    BY <1>0, <2>1, <2>2 DEF WithinLimit, Round
  <2>3. CASE Advanced(ApplyResults(results), EmitStreamEvents(results))
    BY <1>1, <2>1, <2>3
  <2> QED BY <1>5, <2>2, <2>3 DEF Commits
<1>6. CASE Between
  <2>1. Round' = Round /\ step' = step
    BY <1>6, BetweenKeeps DEF Between, state
  <2>2. pc' \in {"before", "interrupted", "after"} \cup Executing =>
          pc \in {"before", "interrupted", "after"} \cup Executing
    BY <1>6 DEF Between, Executing
  <2> QED BY <2>1, <2>2 DEF WithinLimit
<1> QED BY <1>2, <1>3, <1>4, <1>5, <1>6, StepKinds

\* A workflow executes no more supersteps than its recursion limit, in all its runs
\* together, and none once it is reached, whatever pauses and updates lie between them.
THEOREM LimitHolds == Spec => []WithinLimit
<1>1. Init => WithinLimit
  BY WorkflowAssumption DEF Init, WithinLimit, Round, DurableStep, Executing
<1>2. IInv /\ History /\ WithinLimit /\ [Next]_vars => WithinLimit'
  BY StepLimit
<1> QED BY <1>1, <1>2, HistoryHolds, PTL DEF Spec
=============================================================================
