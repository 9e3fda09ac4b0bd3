------------------------------ MODULE ClientProofs ------------------------------
(***************************************************************************)
(* What a client gets to see of a LangGraphWorkflow: the events it polls   *)
(* and the states it reads, over any number of runs.  For every graph,     *)
(* every node behaviour and every value of the bounds.                     *)
(***************************************************************************)
EXTENDS Client, WorkflowSuperstepProofs

(***************************************************************************)
(* The inductive invariant, over IInv and History.  A cursor means         *)
(* something only together with the run it was taken in.  The properties   *)
(* hold because the first superstep of a run comes after all that was      *)
(* received before, and because a run that is continued has executed just  *)
(* Threshold supersteps, so that runs begin at multiples of it.            *)
(***************************************************************************)

\* A run that is not begun has an instance's first values.
NothingBuiltYet == pc = "pending" => ck = EmptyCheckpoint /\ step = 0

\* Runs are Threshold supersteps long.
RunsAreAligned ==
  /\ \E k \in Nat : RestoredStep = k * Threshold
  /\ pc # "pending" => step = RestoredStep + stepsInRun /\ stepsInRun < Threshold

\* What was received is of supersteps that are over, and before those the cursor leaves out.
ReceivedIsPast ==
  \A i \in 1..Len(received) :
    received[i].step < Round /\ received[i].step < RestoredStep + cursor

\* The last event received is of an earlier run, or the one before the cursor.
CursorFollowsLast ==
  Len(received) > 0 =>
    \/ received[Len(received)].step < RestoredStep
    \/ received[Len(received)].step + 1 = RestoredStep + cursor

\* What was read is of a state the workflow has been in.
SeenIsPast ==
  /\ seen.step <= DurableStep
  /\ \A c \in Chan :
       /\ seen.ver[c] <= Durable.ver[c]
       /\ Kind[c] = "reduce" => seen.val[c] \subseteq Durable.val[c]

Event == [step : Nat, nodes : SUBSET Node]
ClientTypeOK ==
  /\ cursor \in Nat /\ received \in Seq(Event)
  /\ seen \in [val : [Chan -> SUBSET Token], ver : [Chan -> Nat], step : Nat]

Runs == NothingBuiltYet /\ RunsAreAligned
Stream ==
  /\ DeliveredInOrder /\ GapsOnlyAtNewRun
  /\ ReceivedIsPast /\ CursorFollowsLast
ClientInv == ClientTypeOK /\ Runs /\ Stream /\ SeenIsPast

-----------------------------------------------------------------------------
(***************************************************************************)
(* Runs.                                                                   *)
(***************************************************************************)

\* Division, in terms of multiplication.
LEMMA Quotient ==
  ASSUME NEW s \in Nat, NEW t \in Nat \ {0}
  PROVE  (s \div t) \in Nat /\ (s \div t) * t <= s /\ s < (s \div t) * t + t
OBVIOUS

LEMMA NextMultiple ==
  ASSUME NEW k \in Nat, NEW q \in Nat, NEW t \in Nat \ {0}
  PROVE  (k >= q + 1 => k * t >= q * t + t) /\ (k <= q => k * t <= q * t)
OBVIOUS

\* The successor of a number.
LEMMA Successor ==
  ASSUME NEW k \in Nat
  PROVE  k + 1 \in Nat
OBVIOUS

\* Steps on two sides of a multiple of Threshold are of different runs.
LEMMA DifferentRuns ==
  ASSUME NEW k \in Nat, NEW s \in Nat, NEW u \in Nat, s < k * Threshold, k * Threshold <= u
  PROVE  RunOf(s) # RunOf(u)
<1> DEFINE q == s \div Threshold
<1>1. Threshold \in Nat \ {0}
  BY WorkflowAssumption
<1>2. SUFFICES ASSUME q = u \div Threshold PROVE FALSE
  BY DEF RunOf
<1>3. q \in Nat /\ q * Threshold <= s /\ u < q * Threshold + Threshold
  BY <1>1, <1>2, Quotient
<1> HIDE DEF q
<1>4. k * Threshold \in Nat /\ q * Threshold \in Nat
  BY <1>1, <1>3
<1>5. CASE k >= q + 1
  <2>1. k * Threshold >= q * Threshold + Threshold
    BY <1>1, <1>3, <1>5, NextMultiple
  <2> QED BY <1>1, <1>3, <1>4, <2>1
<1>6. CASE k <= q
  <2>1. k * Threshold <= q * Threshold
    BY <1>1, <1>3, <1>6, NextMultiple
  <2> QED BY <1>3, <1>4, <2>1
<1> QED BY <1>3, <1>5, <1>6

LEMMA RestoredStepType ==
  ASSUME IInv
  PROVE  RestoredStep \in Nat /\ stepsInRun \in Nat /\ step \in Nat /\ Round \in Nat
         /\ DurableStep \in Nat /\ Threshold \in Nat \ {0} /\ Len(stream) \in Nat
<1>1. stream \in Seq(Event)
  BY DEF IInv, Core, StateOK, Event
<1> QED BY <1>1, RestoredOK, DurableType, WorkflowAssumption DEF IInv, Core, StateOK

\* A continue-as-new after Threshold supersteps, or the next superstep of the run.
LEMMA AdvancedRuns ==
  ASSUME IInv, Runs, pc # "pending", NEW c, NEW st, Advanced(c, st)
  PROVE  Runs'
<1>1. /\ RestoredStep \in Nat /\ stepsInRun \in Nat /\ Threshold \in Nat \ {0}
      /\ step = RestoredStep + stepsInRun /\ stepsInRun < Threshold
  BY RestoredStepType DEF Runs, RunsAreAligned
<1>2. PICK k \in Nat : RestoredStep = k * Threshold
  BY DEF Runs, RunsAreAligned
<1>3. CASE /\ stepsInRun + 1 >= Threshold
           /\ pc' = "pending" /\ input'.restored /\ input'.step = step + 1
           /\ ck' = EmptyCheckpoint /\ step' = 0
  <2>1. RestoredStep' = RestoredStep + Threshold
    BY <1>1, <1>3 DEF RestoredStep
  <2>2. k + 1 \in Nat /\ (k + 1) * Threshold = k * Threshold + Threshold
    BY <1>1
  <2>3. RestoredStep' = (k + 1) * Threshold
    BY <1>2, <2>1, <2>2
  <2> QED BY <1>3, <2>2, <2>3 DEF Runs, RunsAreAligned, NothingBuiltYet
<1>4. CASE /\ stepsInRun + 1 < Threshold /\ Ticked(c, step + 1)
           /\ step' = step + 1 /\ input' = input /\ stepsInRun' = stepsInRun + 1
  <2>1. pc' # "pending" /\ RestoredStep' = RestoredStep
    BY <1>4 DEF Ticked, RestoredStep
  <2> QED BY <1>1, <1>2, <1>4, <2>1 DEF Runs, RunsAreAligned, NothingBuiltYet
<1> QED BY <1>3, <1>4 DEF Advanced

LEMMA StepRuns ==
  ASSUME IInv, History, Runs, [Next]_vars
  PROVE  Runs'
<1>0. RestoredStep \in Nat /\ Threshold \in Nat \ {0}
  BY RestoredStepType
<1>1. CASE Start
  <2>1. /\ pc' # "pending" /\ step' = RestoredStep /\ stepsInRun' = 0
        /\ RestoredStep' = RestoredStep
    BY <1>1, StartRestores DEF RestoredStep
  <2> QED BY <1>0, <2>1 DEF Runs, RunsAreAligned, NothingBuiltYet
<1>2. CASE WakeAfter
  BY <1>2, WakeAdvances, AdvancedRuns
<1>3. ASSUME NEW d \in UpdateChan, UpdateStateSignal(d)
      PROVE  Runs'
  <2>1. UNCHANGED <<pc, step, stepsInRun, input>> /\ (pc = "pending" => ck' = ck)
    BY <1>3 DEF UpdateStateSignal
  <2>2. RestoredStep' = RestoredStep
    BY <2>1 DEF RestoredStep
  <2> QED BY <2>1, <2>2 DEF Runs, RunsAreAligned, NothingBuiltYet
<1>4. CASE Commits
  <2>1. pc # "pending"
    BY <1>4 DEF Commits, Executing
  <2>2. CASE pc' = "after" /\ UNCHANGED <<step, stepsInRun, input>>
    <3>1. RestoredStep' = RestoredStep
      BY <2>2 DEF RestoredStep
    <3> QED BY <2>1, <2>2, <3>1 DEF Runs, RunsAreAligned, NothingBuiltYet
  <2>3. CASE Advanced(ApplyResults(results), EmitStreamEvents(results))
    BY <2>1, <2>3, AdvancedRuns
  <2> QED BY <1>4, <2>2, <2>3 DEF Commits
<1>5. CASE Between
  <2>1. /\ UNCHANGED <<ck, step, stepsInRun>> /\ RestoredStep' = RestoredStep
        /\ (pc' = "pending" <=> pc = "pending")
    BY <1>5, BetweenKeeps DEF Between, state
  <2> QED BY <2>1 DEF Runs, RunsAreAligned, NothingBuiltYet
<1> QED BY <1>1, <1>2, <1>3, <1>4, <1>5, StepKinds

\* The rounds only advance, and a new run begins where the rounds have got to.
LEMMA RoundsAdvance ==
  ASSUME IInv, History, [Next]_vars
  PROVE  /\ Round' >= Round /\ DurableStep' >= DurableStep
         /\ RestoredStep' = RestoredStep \/ RestoredStep' >= Round
<1>0. /\ RestoredStep \in Nat /\ step \in Nat /\ Round \in Nat /\ DurableStep \in Nat
  BY RestoredStepType
<1>1. CASE Start
  <2>1. /\ Round = input.step /\ Round' = RestoredStep /\ RestoredStep' = RestoredStep
        /\ DurableStep = Round /\ DurableStep' = Round'
    BY <1>1, StartRestores DEF RestoredStep, Round, DurableStep
  <2>2. RestoredStep = input.step
    BY DEF RestoredStep, History, FirstRunStartsEmpty
  <2> QED BY <1>0, <2>1, <2>2
<1>2. ASSUME NEW c, NEW st, Advanced(c, st), Round \in {step, step + 1}, DurableStep = step
      PROVE  /\ Round' >= Round /\ DurableStep' >= DurableStep
             /\ RestoredStep' = RestoredStep \/ RestoredStep' >= Round
  <2>1. Round' = step + 1 /\ DurableStep' = step + 1
    BY <1>2 DEF Advanced
  <2>2. RestoredStep' = RestoredStep \/ RestoredStep' = step + 1
    BY <1>2 DEF Advanced, RestoredStep
  <2> QED BY <1>0, <1>2, <2>1, <2>2
<1>3. CASE WakeAfter
  <2>1. Advanced(ck, stream) /\ pc = "after"
    BY <1>3, WakeAdvances
  <2> QED BY <1>2, <2>1 DEF Round, DurableStep
<1>4. ASSUME NEW d \in UpdateChan, UpdateStateSignal(d)
      PROVE  /\ Round' = Round /\ DurableStep' = DurableStep /\ RestoredStep' = RestoredStep
  BY <1>4 DEF UpdateStateSignal, Round, DurableStep, RestoredStep
<1>5. CASE Commits
  <2>1. pc \in Executing /\ Round = step /\ DurableStep = step
    BY <1>5 DEF Commits, Executing, Round, DurableStep
  <2>2. CASE pc' = "after" /\ UNCHANGED <<step, input>>
    BY <1>0, <2>1, <2>2 DEF Round, DurableStep, RestoredStep
  <2>3. CASE Advanced(ApplyResults(results), EmitStreamEvents(results))
    BY <1>2, <2>1, <2>3
  <2> QED BY <1>5, <2>2, <2>3 DEF Commits
<1>6. CASE Between
  <2>1. Round' = Round /\ RestoredStep' = RestoredStep /\ DurableStep' = DurableStep
    BY <1>6, BetweenKeeps DEF Between, state, DurableStep
  <2> QED BY <1>0, <2>1
<1> QED BY <1>0, <1>1, <1>3, <1>4, <1>5, <1>6, StepKinds

\* No step takes anything out of a reducer.
LEMMA ReducersGrow ==
  ASSUME IInv, History, [Next]_vars, NEW c \in Chan, Kind[c] = "reduce"
  PROVE  Durable.val[c] \subseteq Durable'.val[c]
<1>1. CASE Durable' = Durable
  BY <1>1
<1>2. CASE Start
  <2>0. Durable = input.ck /\ Durable' = Restored /\ pc = "pending"
    BY <1>2, StartRestores
  <2>1. CASE input.restored
    BY <1>1, <2>0, <2>1 DEF Restored
  <2>2. CASE ~input.restored
    <3>1. Durable.val[c] = {}
      BY <2>0, <2>2 DEF History, FirstRunStartsEmpty, EmptyCheckpoint
    <3> QED BY <3>1
  <2> QED BY <2>1, <2>2
<1>3. CASE WakeAfter
  <2>1. Durable = ck /\ (Durable' = ck \/ Durable' = Json(ck))
    BY <1>3, WakeAdvances DEF Advanced
  <2> QED BY <2>1, DurableType, JsonType
<1>4. ASSUME NEW d \in UpdateChan, UpdateStateSignal(d)
      PROVE  Durable.val[c] \subseteq Durable'.val[c]
  BY <1>4, UpdateFollows
<1>5. CASE Commits
  <2>1. /\ Durable = ck /\ pc \in Executing
        /\ Durable' \in {ApplyResults(results), Json(ApplyResults(results))}
    BY <1>5 DEF Commits, Advanced, Durable, Executing
  <2>2. Past
    BY DEF History, Past
  <2> QED BY <2>1, <2>2, CommitFollows DEF Follows
<1>6. CASE Between
  BY <1>1, <1>6, BetweenKeeps
<1> QED BY <1>2, <1>3, <1>4, <1>5, <1>6, StepKinds

-----------------------------------------------------------------------------
(***************************************************************************)
(* The client.                                                             *)
(***************************************************************************)

\* The numbers of received events, which every comparison below is of.
LEMMA ReceivedType ==
  ASSUME ClientTypeOK
  PROVE  /\ Len(received) \in Nat /\ cursor \in Nat
         /\ \A i \in 1..Len(received) : received[i] \in Event /\ received[i].step \in Nat
<1>1. \A i \in 1..Len(received) : received[i] \in Event
  BY ElementOfSeq DEF ClientTypeOK
<1> QED BY <1>1 DEF ClientTypeOK, Event

\* A step of the workflow, whatever it is.
LEMMA WorkflowStepStream ==
  ASSUME IInv, IInv', History, ClientTypeOK, Stream, [Next]_vars, UNCHANGED poller
  PROVE  Stream'
<1>1. received' = received /\ cursor' = cursor
  BY DEF poller
<1>2. /\ Round' >= Round /\ (RestoredStep' = RestoredStep \/ RestoredStep' >= Round)
      /\ Round \in Nat /\ Round' \in Nat /\ RestoredStep' \in Nat
  <2>1. input'.step \in Nat
    BY DEF IInv, Core, StateOK
  <2>2. step' \in Nat /\ step' + 1 \in Nat
    <3>1. step' \in Nat
      BY DEF IInv, Core, StateOK
    <3> QED BY <3>1, Successor
  <2>3. RestoredStep' \in Nat
    BY <2>1 DEF RestoredStep
  <2>4. Round' \in Nat
    BY <2>1, <2>2 DEF Round, DurableStep
  <2> QED BY <2>3, <2>4, RoundsAdvance, RestoredStepType
<1>3. /\ Len(received) \in Nat /\ cursor \in Nat
      /\ \A i \in 1..Len(received) : received[i].step \in Nat
  BY ReceivedType
<1>4. DeliveredInOrder' /\ GapsOnlyAtNewRun'
  BY <1>1 DEF Stream, DeliveredInOrder, GapsOnlyAtNewRun, RunOf
<1>5. ReceivedIsPast'
  <2>1. ASSUME NEW i \in 1..Len(received)
        PROVE  received[i].step < Round' /\ received[i].step < RestoredStep' + cursor
    <3>1. received[i].step < Round /\ received[i].step < RestoredStep + cursor
      BY DEF Stream, ReceivedIsPast
    <3> QED BY <1>2, <1>3, <3>1
  <2> QED BY <1>1, <2>1 DEF ReceivedIsPast
<1>6. CursorFollowsLast'
  <2>1. ASSUME Len(received) > 0
        PROVE  \/ received[Len(received)].step < RestoredStep'
               \/ received[Len(received)].step + 1 = RestoredStep' + cursor
    <3>1. CASE RestoredStep' = RestoredStep
      BY <2>1, <3>1 DEF Stream, CursorFollowsLast
    <3>2. CASE RestoredStep' >= Round
      <4>1. Len(received) \in 1..Len(received)
        BY <1>3, <2>1
      <4>2. received[Len(received)].step < Round
        BY <4>1 DEF Stream, ReceivedIsPast
      <4> QED BY <1>2, <1>3, <3>2, <4>1, <4>2
    <3> QED BY <1>2, <3>1, <3>2
  <2> QED BY <1>1, <2>1 DEF CursorFollowsLast
<1> QED BY <1>4, <1>5, <1>6 DEF Stream

\* What a poll adds to what was received: an event per superstep from the cursor on.
LEMMA PollAdds ==
  ASSUME IInv, History, ClientTypeOK, Poll
  PROVE  \E m \in Nat :
           /\ Len(received') = Len(received) + m /\ received' \in Seq(Event)
           /\ m = IF cursor < Len(stream) THEN Len(stream) - cursor ELSE 0
           /\ \A i \in 1..Len(received) : received'[i] = received[i]
           /\ \A k \in 1..m : received'[Len(received) + k].step = RestoredStep + cursor + k - 1
           /\ cursor' = Len(stream) /\ Round = RestoredStep + Len(stream)
           /\ Round' = Round /\ RestoredStep' = RestoredStep
<1> DEFINE new == EventsFrom(cursor)
           m == IF cursor < Len(stream) THEN Len(stream) - cursor ELSE 0
<1>1. /\ received' = received \o new /\ cursor' = Len(stream)
      /\ Round' = Round /\ RestoredStep' = RestoredStep
  BY DEF Poll, NextCursor, vars, state, Round, DurableStep, RestoredStep
<1>2. /\ stream \in Seq(Event) /\ Len(stream) \in Nat /\ cursor \in Nat /\ RestoredStep \in Nat
      /\ received \in Seq(Event) /\ Len(received) \in Nat
  BY RestoredStepType DEF IInv, Core, StateOK, Event, ClientTypeOK
<1>3. /\ m \in Nat /\ new \in Seq(Event) /\ Len(new) = m
      /\ \A k \in 1..m : new[k] = stream[cursor + k]
  <2>1. \A i \in (cursor + 1)..Len(stream) : stream[i] \in Event
    BY <1>2, ElementOfSeq
  <2>2. cursor + 1 \in Int /\ Len(stream) \in Int
    BY <1>2
  <2>3. /\ new \in Seq(Event)
        /\ Len(new) = IF cursor + 1 <= Len(stream) THEN Len(stream) - (cursor + 1) + 1 ELSE 0
        /\ \A k \in 1..(Len(stream) - (cursor + 1) + 1) : new[k] = stream[cursor + 1 + k - 1]
    BY <2>1, <2>2, SubSeqProperties DEF EventsFrom
  <2>4. m \in Nat /\ Len(new) = m
    BY <1>2, <2>3
  <2>5. ASSUME NEW k \in 1..m PROVE new[k] = stream[cursor + k]
    <3>1. k \in 1..(Len(stream) - (cursor + 1) + 1) /\ cursor + 1 + k - 1 = cursor + k
      BY <1>2, <2>5
    <3> QED BY <2>3, <3>1
  <2> QED BY <2>3, <2>4, <2>5
<1>4. /\ Round = RestoredStep + Len(stream)
      /\ \A i \in 1..Len(stream) : stream[i].step = RestoredStep + i - 1
  <2>1. CASE pc = "pending"
    <3>1. ~input.restored /\ input.step = 0 /\ Len(stream) = 0
      BY <2>1 DEF Poll, Answerable, History, FirstRunStartsEmpty, StreamIsComplete
    <3> QED BY <2>1, <3>1 DEF Round, DurableStep, RestoredStep
  <2>2. CASE pc # "pending"
    BY <2>2 DEF History, StreamIsComplete, StreamTellsTheState
  <2> QED BY <2>1, <2>2
<1>5. \A k \in 1..m : cursor + k \in 1..Len(stream)
  BY <1>2
<1> HIDE DEF new
<1>6. /\ received' \in Seq(Event) /\ Len(received') = Len(received) + m
      /\ \A i \in 1..Len(received) : received'[i] = received[i]
      /\ \A k \in 1..m : received'[Len(received) + k] = new[k]
  <2> HIDE DEF m
  <2>1. /\ received' \in Seq(Event) /\ Len(received') = Len(received) + m
        /\ \A i \in 1..(Len(received) + m) :
             received'[i] = IF i <= Len(received) THEN received[i] ELSE new[i - Len(received)]
    <3>1. /\ received \o new \in Seq(Event) /\ Len(received \o new) = Len(received) + Len(new)
          /\ \A i \in 1..(Len(received) + Len(new)) :
               (received \o new)[i] =
                 IF i <= Len(received) THEN received[i] ELSE new[i - Len(received)]
      BY <1>2, <1>3, ConcatProperties
    <3> QED BY <1>1, <1>3, <3>1
  <2>2. ASSUME NEW i \in 1..Len(received) PROVE received'[i] = received[i]
    <3>1. i \in 1..(Len(received) + m) /\ i <= Len(received)
      BY <1>2, <1>3, <2>2
    <3> QED BY <2>1, <3>1
  <2>3. ASSUME NEW k \in 1..m PROVE received'[Len(received) + k] = new[k]
    <3>1. /\ Len(received) + k \in 1..(Len(received) + m) /\ ~(Len(received) + k <= Len(received))
          /\ Len(received) + k - Len(received) = k
      BY <1>2, <1>3, <2>3
    <3> QED BY <2>1, <3>1
  <2> QED BY <2>1, <2>2, <2>3
<1>7. ASSUME NEW k \in 1..m
      PROVE  received'[Len(received) + k].step = RestoredStep + cursor + k - 1
  <2>1. received'[Len(received) + k] = stream[cursor + k]
    BY <1>3, <1>6, <1>7
  <2>2. cursor + k \in 1..Len(stream)
    BY <1>5, <1>7
  <2>3. stream[cursor + k].step = RestoredStep + (cursor + k) - 1
    BY <1>4, <2>2
  <2>4. RestoredStep + (cursor + k) - 1 = RestoredStep + cursor + k - 1
    BY <1>2, <1>3, <1>7
  <2> QED BY <2>1, <2>3, <2>4
<1> QED BY <1>1, <1>3, <1>4, <1>6, <1>7

LEMMA PollStream ==
  ASSUME IInv, History, ClientTypeOK, Runs, Stream, Poll
  PROVE  Stream' /\ received' \in Seq(Event) /\ cursor' \in Nat
<1> DEFINE n == Len(received)
           first == RestoredStep
           at(i) == received'[i].step
<1>1. PICK m \in Nat :
           /\ Len(received') = n + m /\ received' \in Seq(Event)
           /\ m = IF cursor < Len(stream) THEN Len(stream) - cursor ELSE 0
           /\ \A i \in 1..n : received'[i] = received[i]
           /\ \A k \in 1..m : at(n + k) = first + cursor + k - 1
           /\ cursor' = Len(stream) /\ Round = first + Len(stream)
           /\ Round' = Round /\ RestoredStep' = first
  BY PollAdds
<1>2. /\ n \in Nat /\ cursor \in Nat /\ first \in Nat /\ Len(stream) \in Nat /\ Round \in Nat
      /\ Threshold \in Nat \ {0}
      /\ \A i \in 1..n : received[i].step \in Nat
  BY ReceivedType, RestoredStepType
<1>3. \A i \in 1..n : at(i) \in Nat /\ at(i) < Round /\ at(i) < first + cursor
  BY <1>1, <1>2 DEF Stream, ReceivedIsPast
<1>4. n > 0 => at(n) < first \/ at(n) + 1 = first + cursor
  <2>1. n > 0 => n \in 1..n
    BY <1>2
  <2> QED BY <1>1, <2>1 DEF Stream, CursorFollowsLast
<1>5. \A i, j \in 1..n : i < j => at(i) < at(j)
  BY <1>1 DEF Stream, DeliveredInOrder
<1>6. \A i \in 1..(n - 1) : RunOf(at(i)) = RunOf(at(i + 1)) => at(i + 1) = at(i) + 1
  <2>1. \A i \in 1..(n - 1) : i \in 1..n /\ i + 1 \in 1..n
    BY <1>2
  <2>2. \A i \in 1..(n - 1) : received'[i] = received[i] /\ received'[i + 1] = received[i + 1]
    BY <1>1, <2>1
  <2> QED BY <2>2 DEF Stream, GapsOnlyAtNewRun
<1>7. ASSUME NEW i \in 1..(n + m), i > n
      PROVE  at(i) = first + cursor + (i - n) - 1 /\ at(i) \in Nat /\ m > 0
  <2>1. i - n \in 1..m /\ n + (i - n) = i
    BY <1>2, <1>7
  <2>2. at(i) = first + cursor + (i - n) - 1
    BY <1>1, <2>1
  <2> QED BY <1>2, <2>1, <2>2
<1> HIDE DEF n, first, at
<1>8. \A i, j \in 1..(n + m) : i < j => at(i) < at(j)
  <2>1. ASSUME NEW i \in 1..(n + m), NEW j \in 1..(n + m), i < j PROVE at(i) < at(j)
    <3>1. CASE j <= n
      <4>1. i \in 1..n /\ j \in 1..n
        BY <1>2, <2>1, <3>1
      <4> QED BY <1>5, <2>1, <4>1
    <3>2. CASE i <= n /\ j > n
      <4>1. i \in 1..n
        BY <1>2, <2>1, <3>2
      <4>2. at(i) \in Nat /\ at(i) < first + cursor
        BY <1>3, <4>1
      <4> QED BY <1>2, <1>7, <2>1, <3>2, <4>2
    <3>3. CASE i > n
      BY <1>2, <1>7, <2>1, <3>3
    <3> QED BY <1>2, <2>1, <3>1, <3>2, <3>3
  <2> QED BY <2>1
<1>9. \A i \in 1..((n + m) - 1) : RunOf(at(i)) = RunOf(at(i + 1)) => at(i + 1) = at(i) + 1
  <2>1. ASSUME NEW i \in 1..((n + m) - 1), RunOf(at(i)) = RunOf(at(i + 1))
        PROVE  at(i + 1) = at(i) + 1
    <3>0. i \in 1..(n + m) /\ i + 1 \in 1..(n + m)
      BY <1>2, <2>1
    <3>1. CASE i < n
      <4>1. i \in 1..(n - 1)
        BY <1>2, <2>1, <3>1
      <4> QED BY <1>6, <2>1, <4>1
    <3>2. CASE i = n
      <4>1. /\ at(i + 1) = first + cursor + (i + 1 - n) - 1 /\ i + 1 > n /\ i \in 1..n
            /\ at(i + 1) \in Nat
        BY <1>2, <1>7, <3>0, <3>2
      <4>2. at(i + 1) = first + cursor /\ at(i) \in Nat
        BY <1>2, <1>3, <3>2, <4>1
      <4>3. CASE at(i) < first
        <5>1. PICK k \in Nat : first = k * Threshold
          BY DEF Runs, RunsAreAligned, first
        <5>2. RunOf(at(i)) # RunOf(at(i + 1))
          <6>1. at(i) < k * Threshold /\ k * Threshold <= at(i + 1)
            BY <1>2, <4>2, <4>3, <5>1
          <6> QED BY <4>1, <4>2, <6>1, DifferentRuns
        <5> QED BY <2>1, <5>2
      <4>4. CASE at(i) + 1 = first + cursor
        BY <4>2, <4>4
      <4> QED BY <1>2, <1>4, <3>0, <3>2, <4>3, <4>4
    <3>3. CASE i > n
      <4>1. /\ at(i) = first + cursor + (i - n) - 1
            /\ at(i + 1) = first + cursor + (i + 1 - n) - 1
        BY <1>2, <1>7, <3>0, <3>3
      <4> QED BY <1>2, <2>1, <4>1
    <3> QED BY <1>2, <2>1, <3>1, <3>2, <3>3
  <2> QED BY <2>1
<1>10. \A i \in 1..(n + m) : at(i) < Round
  <2>1. ASSUME NEW i \in 1..(n + m) PROVE at(i) < Round
    <3>1. CASE i <= n
      <4>1. i \in 1..n
        BY <1>2, <2>1, <3>1
      <4> QED BY <1>3, <4>1
    <3>2. CASE i > n
      <4>1. at(i) = first + cursor + (i - n) - 1 /\ m > 0
        BY <1>7, <2>1, <3>2
      <4>2. m = Len(stream) - cursor
        BY <1>1, <4>1
      <4> QED BY <1>1, <1>2, <2>1, <3>2, <4>1, <4>2
    <3> QED BY <1>2, <2>1, <3>1, <3>2
  <2> QED BY <2>1
<1>11. n + m > 0 => at(n + m) < first \/ at(n + m) + 1 = first + Len(stream)
  <2>1. CASE m > 0
    <3>1. n + m \in 1..(n + m) /\ n + m > n
      BY <1>2, <2>1
    <3>2. at(n + m) = first + cursor + (n + m - n) - 1
      BY <1>2, <1>7, <3>1
    <3>3. m = Len(stream) - cursor
      BY <1>1, <2>1
    <3> QED BY <1>2, <3>2, <3>3
  <2>2. CASE m = 0
    <3>1. ASSUME n > 0, at(n) + 1 = first + cursor PROVE at(n) + 1 = first + Len(stream)
      <4>1. n \in 1..n
        BY <1>2, <3>1
      <4>2. at(n) \in Nat /\ at(n) < first + Len(stream)
        BY <1>1, <1>3, <4>1
      <4>3. ~(cursor < Len(stream))
        <5>1. cursor < Len(stream) => Len(stream) - cursor > 0
          BY <1>2
        <5> QED BY <1>1, <2>2, <5>1
      <4> QED BY <1>2, <3>1, <4>2, <4>3
    <3> QED BY <1>2, <1>4, <2>2, <3>1
  <2> QED BY <2>1, <2>2
<1>12. DeliveredInOrder' /\ GapsOnlyAtNewRun'
  <2>1. \A i \in 1..(Len(received') - 1) :
          RunOf(at(i)) = RunOf(at(i + 1)) => at(i + 1) = at(i) + 1
    <3>1. 1..(Len(received') - 1) = 1..((n + m) - 1)
      <4>1. Len(received') = n + m
        BY <1>1
      <4> QED BY <4>1, Zenon
    <3> QED BY <1>9, <3>1, Zenon
  <2>2. GapsOnlyAtNewRun'
    BY <2>1 DEF GapsOnlyAtNewRun, RunOf, at
  <2>3. DeliveredInOrder'
    BY <1>1, <1>8 DEF DeliveredInOrder, at
  <2> QED BY <2>2, <2>3
<1>13. ReceivedIsPast'
  BY <1>1, <1>10 DEF ReceivedIsPast, at
<1>14. CursorFollowsLast'
  BY <1>1, <1>11 DEF CursorFollowsLast, at
<1> QED BY <1>1, <1>2, <1>12, <1>13, <1>14 DEF Stream

\* What was read stays behind the workflow, whatever it does.
LEMMA WorkflowStepSeen ==
  ASSUME IInv, IInv', History, ClientTypeOK, SeenIsPast, [Next]_vars, UNCHANGED seen
  PROVE  SeenIsPast'
<1>1. DurableStep' >= DurableStep
  BY RoundsAdvance
<1>2. /\ seen.step \in Nat /\ DurableStep \in Nat /\ DurableStep' \in Nat
      /\ seen' = seen
  BY DurableType DEF ClientTypeOK, IInv, Core, StateOK, DurableStep
<1>3. seen'.step <= DurableStep'
  BY <1>1, <1>2 DEF SeenIsPast
<1>4. ASSUME NEW c \in Chan
      PROVE  /\ seen'.ver[c] <= Durable'.ver[c]
             /\ Kind[c] = "reduce" => seen'.val[c] \subseteq Durable'.val[c]
  <2>1. seen.ver[c] \in Nat /\ Durable.ver[c] \in Nat
    BY DurableType DEF ClientTypeOK, Checkpoint
  <2>2. Durable'.ver[c] \in Nat
    <3>1. ck' \in Checkpoint /\ input'.ck \in Checkpoint
      BY DEF IInv, Core, StateOK
    <3>2. Durable' \in Checkpoint
      BY <3>1 DEF Durable
    <3> QED BY <3>2 DEF Checkpoint
  <2>3. Durable'.ver[c] >= Durable.ver[c] /\ seen.ver[c] <= Durable.ver[c]
    BY VersionsStep DEF SeenIsPast, VersionTracks
  <2>4. Kind[c] = "reduce" => seen.val[c] \subseteq Durable'.val[c]
    BY ReducersGrow DEF SeenIsPast
  <2> QED BY <1>2, <2>1, <2>2, <2>3, <2>4
<1> QED BY <1>3, <1>4 DEF SeenIsPast

\* A read returns what the workflow has, or a first run is about to have.
LEMMA ReadStep ==
  ASSUME IInv, History, ClientTypeOK, Runs, Read
  PROVE  /\ seen' = [val |-> Durable.val, ver |-> Durable.ver, step |-> DurableStep]
         /\ seen' \in [val : [Chan -> SUBSET Token], ver : [Chan -> Nat], step : Nat]
         /\ UNCHANGED <<poller, vars>>
<1>1. seen' = [val |-> ck.val, ver |-> ck.ver, step |-> step] /\ UNCHANGED <<poller, vars>> /\ Answerable
  BY DEF Read, GetState, GetCurrentState
<1>2. ck = Durable /\ step = DurableStep
  <2>1. CASE pc = "pending"
    BY <1>1, <2>1
    DEF Answerable, Runs, NothingBuiltYet, History, FirstRunStartsEmpty, Durable, DurableStep
  <2>2. CASE pc # "pending"
    BY <2>2 DEF Durable, DurableStep
  <2> QED BY <2>1, <2>2
<1>3. Durable.val \in [Chan -> SUBSET Token] /\ Durable.ver \in [Chan -> Nat] /\ DurableStep \in Nat
  BY DurableType DEF Checkpoint
<1> QED BY <1>1, <1>2, <1>3

-----------------------------------------------------------------------------
(***************************************************************************)
(* The invariant.                                                          *)
(***************************************************************************)

LEMMA InitClientInv == InitClient => IInv /\ History /\ ClientInv
<1> SUFFICES ASSUME InitClient PROVE IInv /\ History /\ ClientInv
  OBVIOUS
<1>1. /\ Init /\ cursor = 0 /\ received = <<>>
      /\ seen = [val |-> EmptyCheckpoint.val, ver |-> EmptyCheckpoint.ver, step |-> 0]
  BY DEF InitClient, Unread
<1>2. IInv /\ History
  BY <1>1, InitInvariant, InitHistory
<1>3. /\ pc = "pending" /\ ~input.restored /\ input.ck = EmptyCheckpoint /\ input.step = 0
      /\ ck = EmptyCheckpoint /\ step = 0
  BY <1>1 DEF Init
<1>4. Len(received) = 0 /\ received \in Seq(Event)
  BY <1>1
<1>5. EmptyCheckpoint \in Checkpoint
  BY EmptyCheckpointOK
<1>6. ClientTypeOK
  BY <1>1, <1>4, <1>5 DEF ClientTypeOK, Checkpoint
<1>7. Runs
  <2>1. RestoredStep = 0 /\ 0 \in Nat /\ 0 * Threshold = 0
    BY <1>3, WorkflowAssumption DEF RestoredStep
  <2> QED BY <1>3, <2>1 DEF Runs, NothingBuiltYet, RunsAreAligned
<1>8. Stream
  BY <1>4 DEF Stream, DeliveredInOrder, GapsOnlyAtNewRun, ReceivedIsPast, CursorFollowsLast
<1>9. SeenIsPast
  <2>1. Durable = EmptyCheckpoint /\ DurableStep = 0
    BY <1>3 DEF Durable, DurableStep
  <2>2. \A c \in Chan : EmptyCheckpoint.ver[c] \in Nat
    BY <1>5 DEF Checkpoint
  <2> QED BY <1>1, <2>1, <2>2 DEF SeenIsPast
<1> QED BY <1>2, <1>6, <1>7, <1>8, <1>9 DEF ClientInv

\* A step that leaves the workflow alone leaves what is known of it.
LEMMA WorkflowKept ==
  ASSUME UNCHANGED vars
  PROVE  /\ Runs' = Runs /\ Durable' = Durable /\ DurableStep' = DurableStep
         /\ Round' = Round /\ RestoredStep' = RestoredStep
<1>1. UNCHANGED <<pc, ck, step, stepsInRun, input>>
  BY DEF vars, state
<1>2. Durable' = Durable /\ DurableStep' = DurableStep /\ RestoredStep' = RestoredStep
  BY <1>1 DEF Durable, DurableStep, RestoredStep
<1>3. Round' = Round
  BY <1>1, <1>2 DEF Round
<1>4. Runs' = Runs
  BY <1>1, <1>2 DEF Runs, NothingBuiltYet, RunsAreAligned
<1> QED BY <1>2, <1>3, <1>4

LEMMA StepClientInv ==
  ASSUME IInv, History, ClientInv, [NextClient]_<<vars, poller, seen>>
  PROVE  (IInv /\ History /\ ClientInv)'
<1>0. ClientTypeOK /\ Runs /\ Stream /\ SeenIsPast
  BY DEF ClientInv
<1>1. [Next]_vars
  BY DEF NextClient, Poll, QueryRaises, Read
<1>2. IInv' /\ History'
  BY <1>1, StepInvariant, StepHistory
<1>3. CASE [Next]_vars /\ UNCHANGED <<poller, seen>>
  <2>1. ClientTypeOK'
    BY <1>0, <1>3 DEF ClientTypeOK, poller
  <2>2. Runs' /\ Stream' /\ SeenIsPast'
    BY <1>0, <1>2, <1>3, StepRuns, WorkflowStepStream, WorkflowStepSeen
  <2> QED BY <1>2, <2>1, <2>2 DEF ClientInv
<1>4. CASE Poll
  <2>1. UNCHANGED vars /\ seen' = seen
    BY <1>4 DEF Poll
  <2>2. Stream' /\ received' \in Seq(Event) /\ cursor' \in Nat
    BY <1>0, <1>4, PollStream
  <2>3. ClientTypeOK'
    BY <1>0, <2>1, <2>2 DEF ClientTypeOK
  <2>4. Runs' /\ SeenIsPast'
    BY <1>0, <2>1, WorkflowKept DEF SeenIsPast
  <2> QED BY <1>2, <2>2, <2>3, <2>4 DEF ClientInv
<1>5. CASE QueryRaises
  <2>1. UNCHANGED vars /\ UNCHANGED <<cursor, received, seen>>
    BY <1>5 DEF QueryRaises
  <2>2. Runs' /\ SeenIsPast' /\ ReceivedIsPast' /\ CursorFollowsLast'
    BY <1>0, <2>1, WorkflowKept DEF SeenIsPast, Stream, ReceivedIsPast, CursorFollowsLast
  <2>3. ClientTypeOK' /\ Stream'
    BY <1>0, <2>1, <2>2
    DEF ClientTypeOK, Stream, DeliveredInOrder, GapsOnlyAtNewRun, RunOf
  <2> QED BY <1>2, <2>2, <2>3 DEF ClientInv
<1>6. CASE Read
  <2>1. /\ seen' = [val |-> Durable.val, ver |-> Durable.ver, step |-> DurableStep]
        /\ seen' \in [val : [Chan -> SUBSET Token], ver : [Chan -> Nat], step : Nat]
        /\ UNCHANGED vars /\ UNCHANGED <<cursor, received>>
    BY <1>0, <1>6, ReadStep DEF poller
  <2>2. Runs' /\ ReceivedIsPast' /\ CursorFollowsLast'
    BY <1>0, <2>1, WorkflowKept DEF Stream, ReceivedIsPast, CursorFollowsLast
  <2>3. ClientTypeOK' /\ Stream'
    BY <1>0, <2>1, <2>2
    DEF ClientTypeOK, Stream, DeliveredInOrder, GapsOnlyAtNewRun, RunOf
  <2>4. SeenIsPast'
    <3>1. /\ seen'.val = Durable.val /\ seen'.ver = Durable.ver /\ seen'.step = DurableStep
      BY <2>1
    <3>2. DurableStep \in Nat /\ \A c \in Chan : Durable.ver[c] \in Nat
      BY DurableType DEF Checkpoint
    <3> QED BY <2>1, <3>1, <3>2, WorkflowKept DEF SeenIsPast
  <2> QED BY <1>2, <2>2, <2>3, <2>4 DEF ClientInv
<1> QED BY <1>3, <1>4, <1>5, <1>6 DEF NextClient

-----------------------------------------------------------------------------
(***************************************************************************)
(* The results.                                                            *)
(***************************************************************************)

\* The invariant holds of a workflow and its client.
THEOREM ClientHolds == SpecClient => [](IInv /\ History /\ ClientInv)
<1>1. InitClient => IInv /\ History /\ ClientInv
  BY InitClientInv
<1>2. IInv /\ History /\ ClientInv /\ [NextClient]_<<vars, poller, seen>>
        => (IInv /\ History /\ ClientInv)'
  BY StepClientInv
<1> QED BY <1>1, <1>2, PTL DEF SpecClient

\* A client that streams gets each superstep's events at most once and in order, although
\* its cursor outlives the buffer it counts in.
THEOREM DeliveryInOrder == SpecClient => []DeliveredInOrder
<1>1. ClientInv => DeliveredInOrder
  BY DEF ClientInv, Stream
<1> QED BY <1>1, ClientHolds, PTL

\* A continue-as-new costs a client the beginning of a run at most, never an event
\* between two it has got of the same run.
THEOREM GapsCorrect == SpecClient => []GapsOnlyAtNewRun
<1>1. ClientInv => GapsOnlyAtNewRun
  BY DEF ClientInv, Stream
<1> QED BY <1>1, ClientHolds, PTL

\* Two reads, whatever lies between them, never show the state going back: not in steps,
\* not in versions, not in what a reducer has accumulated.
THEOREM ReadsMonotone == SpecClient => ReadsNeverGoBack
<1> DEFINE Forward ==
      /\ seen'.step >= seen.step
      /\ \A c \in Chan : seen'.ver[c] >= seen.ver[c]
      /\ \A c \in Chan : Kind[c] = "reduce" => seen.val[c] \subseteq seen'.val[c]
<1>1. IInv /\ History /\ ClientInv /\ [NextClient]_<<vars, poller, seen>> => [Forward]_seen
  <2> SUFFICES ASSUME IInv, History, ClientInv, NextClient, seen' # seen
               PROVE  Forward
    OBVIOUS
  <2>1. Read /\ ClientTypeOK /\ Runs /\ SeenIsPast
    BY DEF NextClient, Poll, QueryRaises, ClientInv
  <2>2. /\ seen'.val = Durable.val /\ seen'.ver = Durable.ver /\ seen'.step = DurableStep
    BY <2>1, ReadStep
  <2>3. /\ seen.step \in Nat /\ DurableStep \in Nat
        /\ \A c \in Chan : seen.ver[c] \in Nat /\ Durable.ver[c] \in Nat
    BY <2>1, DurableType DEF ClientTypeOK, Checkpoint
  <2> QED BY <2>1, <2>2, <2>3 DEF SeenIsPast
<1>2. ReadsNeverGoBack <=> [][Forward]_seen
  BY DEF ReadsNeverGoBack
<1> HIDE DEF Forward
<1> QED BY <1>1, <1>2, ClientHolds, PTL DEF SpecClient

\* The client changes nothing for the workflow: what is proved of the one is true of the
\* two together.
THEOREM ClientOnlyWatches == SpecClient => Spec
<1>1. InitClient => Init
  BY DEF InitClient
<1>2. [NextClient]_<<vars, poller, seen>> => [Next]_vars
  BY DEF NextClient, Poll, QueryRaises, Read
<1> QED BY <1>1, <1>2, PTL DEF SpecClient, Spec
=============================================================================
