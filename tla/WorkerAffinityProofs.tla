------------------------- MODULE WorkerAffinityProofs -------------------------
(***************************************************************************)
(* Safety of WorkerAffinity for any number of processes, nodes, crashes    *)
(* and supersteps.                                                         *)
(***************************************************************************)
EXTENDS WorkerAffinity, TLAPS

(***************************************************************************)
(* The inductive invariant.  That the pin is missing only while some       *)
(* coroutine looks for a new one (a fact about the coroutines' shared      *)
(* state, not about any one of them) is what keeps the others' activities  *)
(* on worker queues; that only a coroutine that lost an activity looks     *)
(* for a worker or tries again is what makes a first loss harmless.        *)
(***************************************************************************)
PinMissingOnlyInRediscovery ==
  pc = "superstep" /\ sticky = None => \E n \in Node : co[n] = "rediscover"

OnlyLosersRetry ==
  pc = "superstep" => \A n \in Node : co[n] \in {"rediscover", "second"} => errors[n] > 0

\* ... and conversely, so that two coroutines never overwrite each other's discovery.
RediscoveryIsExclusive ==
  /\ pc = "superstep" =>
       \A n \in Node : co[n] = "rediscover" =>
         sticky = None /\ \A m \in Node : co[m] = "rediscover" => m = n
  /\ pc \in {"start", "discovering"} => sticky = None

IInv ==
  /\ TypeOK
  /\ RediscoveryIsExclusive
  /\ PinMissingOnlyInRediscovery
  /\ OnlyLosersRetry
  /\ NodesRunOnAWorkerQueue
  /\ OneLossIsSurvived

-----------------------------------------------------------------------------
\* A process' own queue is no other queue.
LEMMA QueueOfType ==
  ASSUME TypeOK, NEW p \in Process
  PROVE  QueueOf(p) \in WorkerQueue
BY DEF TypeOK, QueueOf, WorkerQueue

\* None is no queue.
LEMMA NoneIsNoQueue == None \notin WorkerQueue /\ Shared \notin WorkerQueue
BY AffinityAssumption DEF Queue

\* A superstep that begins with a worker's queue as the pin.
LEMMA SuperstepInvariant ==
  ASSUME TypeOK, NEW q \in WorkerQueue, Superstep(q),
         UNCHANGED processes, done' \in Nat, carried' \in {None} \cup WorkerQueue
  PROVE  IInv'
<1>1. PICK ns \in (SUBSET Node) \ {{}} :
        /\ pc' = "superstep" /\ sticky' = q
        /\ co' = [n \in Node |-> IF n \in ns THEN "first" ELSE "idle"]
        /\ queue' = [n \in Node |-> IF n \in ns THEN TaskQueueForNode(q, n) ELSE None]
        /\ errors' = [n \in Node |-> 0]
  BY DEF Superstep
<1>2. q # None /\ \A n \in Node : TaskQueueForNode(q, n) = q
  BY NoneIsNoQueue DEF TaskQueueForNode
<1>3. TypeOK'
  BY <1>1, <1>2 DEF TypeOK, processes, Queue
<1>4. /\ PinMissingOnlyInRediscovery' /\ RediscoveryIsExclusive'
      /\ OnlyLosersRetry' /\ OneLossIsSurvived'
  BY <1>1, <1>2 DEF PinMissingOnlyInRediscovery, RediscoveryIsExclusive, OnlyLosersRetry,
                    OneLossIsSurvived
<1>5. NodesRunOnAWorkerQueue'
  BY <1>1, <1>2 DEF NodesRunOnAWorkerQueue, Attempt
<1> QED BY <1>3, <1>4, <1>5 DEF IInv

\* The coroutine whose activity fails.
LEMMA ActivityFailsInvariant ==
  ASSUME IInv, NEW n \in Node, ActivityFails(n)
  PROVE  IInv'
<1>1. /\ pc = "superstep" /\ co[n] \in Attempt
      /\ errors' = [errors EXCEPT ![n] = @ + 1]
      /\ UNCHANGED <<processes, carried, done>>
      /\ TypeOK
  BY DEF ActivityFails, IInv
<1>2. errors' \in [Node -> Nat] /\ errors'[n] = errors[n] + 1 /\ errors[n] \in Nat
      /\ \A m \in Node : errors'[m] >= errors[m]
  BY <1>1 DEF TypeOK
<1>3. CASE ~FallsBack /\ pc' = "failed" /\ UNCHANGED <<sticky, co, queue>>
  <2>1. PICK m \in Node : co[m] = "rediscover"
    BY <1>1, <1>3 DEF FallsBack, IInv, PinMissingOnlyInRediscovery
  <2>2. m # n /\ errors[m] > 0 /\ errors[m] \in Nat
    BY <1>1, <2>1 DEF Attempt, IInv, OnlyLosersRetry, TypeOK
  <2>3. OneLossIsSurvived'
    BY <1>2, <2>2 DEF OneLossIsSurvived
  <2>4. TypeOK'
    BY <1>1, <1>2, <1>3 DEF TypeOK, processes, Ended
  <2>5. /\ PinMissingOnlyInRediscovery' /\ RediscoveryIsExclusive'
        /\ OnlyLosersRetry' /\ NodesRunOnAWorkerQueue'
    BY <1>3 DEF PinMissingOnlyInRediscovery, RediscoveryIsExclusive, OnlyLosersRetry,
                NodesRunOnAWorkerQueue
  <2> QED BY <2>3, <2>4, <2>5 DEF IInv
<1>4. CASE FallsBack /\ co[n] = "first" /\ sticky' = None /\ AskForWorker(n) /\ UNCHANGED pc
  <2>1. co' = [co EXCEPT ![n] = "rediscover"] /\ UNCHANGED queue
    BY <1>4 DEF AskForWorker
  <2>2. co'[n] = "rediscover" /\ \A m \in Node : m # n => co'[m] = co[m]
    BY <1>1, <2>1 DEF TypeOK
  <2>3. TypeOK'
    BY <1>1, <1>2, <1>4, <2>1 DEF TypeOK, processes
  <2>4. PinMissingOnlyInRediscovery'
    BY <2>2 DEF PinMissingOnlyInRediscovery
  <2>5. RediscoveryIsExclusive'
    <3>1. \A m \in Node : co[m] # "rediscover"
      BY <1>1, <1>4 DEF FallsBack, IInv, RediscoveryIsExclusive
    <3> QED BY <1>1, <1>4, <2>2, <3>1 DEF RediscoveryIsExclusive
  <2>6. OnlyLosersRetry'
    BY <1>1, <1>2, <1>4, <2>2 DEF IInv, OnlyLosersRetry, TypeOK
  <2>7. NodesRunOnAWorkerQueue' /\ OneLossIsSurvived'
    BY <1>1, <1>4, <2>1, <2>2 DEF IInv, NodesRunOnAWorkerQueue, OneLossIsSurvived, Attempt
  <2> QED BY <2>3, <2>4, <2>5, <2>6, <2>7 DEF IInv
<1>5. CASE co[n] = "second" /\ pc' = "stuck" /\ UNCHANGED <<sticky, co, queue>>
  <2>1. errors[n] > 0
    BY <1>1, <1>5 DEF IInv, OnlyLosersRetry
  <2>2. OneLossIsSurvived'
    BY <1>2, <2>1 DEF OneLossIsSurvived
  <2>3. TypeOK'
    BY <1>1, <1>2, <1>5 DEF TypeOK, processes, Ended
  <2>4. /\ PinMissingOnlyInRediscovery' /\ RediscoveryIsExclusive'
        /\ OnlyLosersRetry' /\ NodesRunOnAWorkerQueue'
    BY <1>5 DEF PinMissingOnlyInRediscovery, RediscoveryIsExclusive, OnlyLosersRetry,
                NodesRunOnAWorkerQueue
  <2> QED BY <2>2, <2>3, <2>4 DEF IInv
<1> QED BY <1>3, <1>4, <1>5 DEF ActivityFails

\* The coroutine that found a new worker.
LEMMA RediscoverInvariant ==
  ASSUME IInv, NEW n \in Node, NEW p \in Process, Rediscover(n, p)
  PROVE  IInv'
<1> DEFINE q == QueueOf(p)
<1>1. TypeOK /\ q \in WorkerQueue /\ q # None /\ TaskQueueForNode(q, n) = q
  BY QueueOfType, NoneIsNoQueue DEF IInv, TaskQueueForNode
<1> HIDE DEF q
<1>2. /\ pc = "superstep" /\ pc' = pc /\ co[n] = "rediscover" /\ sticky' = q
      /\ co' = [co EXCEPT ![n] = "second"] /\ queue' = [queue EXCEPT ![n] = q]
      /\ UNCHANGED <<processes, carried, done, errors>>
  BY <1>1 DEF Rediscover, q
<1>3. /\ co'[n] = "second" /\ queue'[n] = q
      /\ \A m \in Node : m # n => co'[m] = co[m] /\ queue'[m] = queue[m]
  BY <1>1, <1>2 DEF TypeOK
<1>4. TypeOK'
  BY <1>1, <1>2 DEF TypeOK, processes, Queue
<1>5. PinMissingOnlyInRediscovery' /\ OneLossIsSurvived'
  BY <1>1, <1>2 DEF PinMissingOnlyInRediscovery, OneLossIsSurvived
<1>6. OnlyLosersRetry' /\ NodesRunOnAWorkerQueue'
  BY <1>1, <1>2, <1>3 DEF IInv, OnlyLosersRetry, NodesRunOnAWorkerQueue
<1>7. RediscoveryIsExclusive'
  <2>1. \A m \in Node : co[m] = "rediscover" => m = n
    BY <1>2 DEF IInv, RediscoveryIsExclusive
  <2> QED BY <1>2, <1>3, <2>1 DEF RediscoveryIsExclusive
<1> QED BY <1>4, <1>5, <1>6, <1>7 DEF IInv

\* The end of a superstep: no coroutine is looking for a worker, so there is a pin.
LEMMA EndSuperstepInvariant ==
  ASSUME IInv, EndSuperstep
  PROVE  IInv'
<1>1. /\ pc = "superstep" /\ done' = done + 1 /\ UNCHANGED processes /\ TypeOK
      /\ \A n \in Node : co[n] \in {"idle", "done"}
  BY DEF EndSuperstep, IInv
<1>2. sticky \in WorkerQueue /\ done' \in Nat
  BY <1>1 DEF IInv, PinMissingOnlyInRediscovery, TypeOK
<1>3. CASE pc' = "closed" /\ UNCHANGED <<sticky, carried, co, queue, errors>>
  <2>1. TypeOK'
    BY <1>1, <1>2, <1>3 DEF TypeOK, processes, Ended
  <2> QED BY <1>3, <2>1 DEF IInv, PinMissingOnlyInRediscovery,
                          RediscoveryIsExclusive, OnlyLosersRetry, NodesRunOnAWorkerQueue,
                          OneLossIsSurvived
<1>4. CASE /\ pc' = "start" /\ carried' = PinForNewRun /\ sticky' = None
           /\ co' = [n \in Node |-> "idle"] /\ queue' = [n \in Node |-> None]
           /\ errors' = [n \in Node |-> 0]
  <2>1. TypeOK'
    BY <1>1, <1>2, <1>4 DEF TypeOK, processes, PinForNewRun
  <2> QED BY <1>4, <2>1 DEF IInv, PinMissingOnlyInRediscovery,
                          RediscoveryIsExclusive, OnlyLosersRetry, NodesRunOnAWorkerQueue,
                          OneLossIsSurvived
<1>5. CASE Superstep(sticky) /\ UNCHANGED carried
  <2>1. carried' \in {None} \cup WorkerQueue
    BY <1>1, <1>5 DEF TypeOK
  <2> QED BY <1>1, <1>2, <1>5, <2>1, SuperstepInvariant
<1> QED BY <1>3, <1>4, <1>5 DEF EndSuperstep

\* Everything else.
LEMMA StepInvariant ==
  ASSUME IInv, [Next]_vars
  PROVE  IInv'
<1>0. TypeOK
  BY DEF IInv
<1>1. CASE Start
  <2>1. carried' \in {None} \cup WorkerQueue /\ done' \in Nat /\ UNCHANGED processes
    BY <1>0, <1>1 DEF Start, TypeOK
  <2>2. CASE carried # None /\ Superstep(carried)
    BY <1>0, <2>1, <2>2, SuperstepInvariant DEF TypeOK
  <2>3. CASE pc' = "discovering" /\ UNCHANGED <<sticky, co, queue, errors>>
    <3>1. TypeOK'
      BY <1>0, <2>1, <2>3 DEF TypeOK, processes
    <3> QED BY <1>1, <2>3, <3>1 DEF Start, IInv, PinMissingOnlyInRediscovery,
                            RediscoveryIsExclusive, OnlyLosersRetry, NodesRunOnAWorkerQueue,
                            OneLossIsSurvived
  <2> QED BY <1>1, <2>2, <2>3 DEF Start
<1>2. ASSUME NEW p \in Process, Discover(p) PROVE IInv'
  <2>1. carried' \in {None} \cup WorkerQueue /\ done' \in Nat /\ UNCHANGED processes
    BY <1>0, <1>2 DEF Discover, TypeOK
  <2>2. QueueOf(p) \in WorkerQueue /\ Superstep(QueueOf(p))
    BY <1>0, <1>2, QueueOfType DEF Discover
  <2> QED BY <1>0, <2>1, <2>2, SuperstepInvariant
<1>3. ASSUME NEW p \in Process, Crash(p) \/ Restart(p) PROVE IInv'
  <2>1. UNCHANGED workflow
    BY <1>3 DEF Crash, Restart
  <2>2. up' \subseteq Process /\ start' \in [Process -> Nat] /\ registered' \subseteq Process
        /\ crashes' \in Nat
    BY <1>0, <1>3 DEF Crash, Restart, TypeOK
  <2>3. TypeOK'
    BY <1>0, <2>1, <2>2 DEF TypeOK, workflow
  <2> QED BY <2>1, <2>3 DEF workflow, IInv, PinMissingOnlyInRediscovery,
                          RediscoveryIsExclusive, OnlyLosersRetry, NodesRunOnAWorkerQueue,
                          OneLossIsSurvived
<1>4. ASSUME NEW n \in Node, Complete(n) PROVE IInv'
  <2>1. /\ pc = "superstep" /\ co[n] \in Attempt /\ co' = [co EXCEPT ![n] = "done"]
        /\ UNCHANGED <<processes, pc, sticky, carried, queue, done, errors>>
    BY <1>4 DEF Complete
  <2>2. co'[n] = "done" /\ \A m \in Node : m # n => co'[m] = co[m]
    BY <1>0, <2>1 DEF TypeOK
  <2>3. TypeOK'
    BY <1>0, <2>1 DEF TypeOK, processes
  <2>4. PinMissingOnlyInRediscovery'
    BY <2>1, <2>2 DEF IInv, PinMissingOnlyInRediscovery, Attempt
  <2>6. RediscoveryIsExclusive'
    BY <2>1, <2>2 DEF IInv, RediscoveryIsExclusive
  <2>5. OnlyLosersRetry' /\ NodesRunOnAWorkerQueue' /\ OneLossIsSurvived'
    BY <2>1, <2>2 DEF IInv, OnlyLosersRetry, NodesRunOnAWorkerQueue, OneLossIsSurvived,
                      Attempt
  <2> QED BY <2>3, <2>4, <2>5, <2>6 DEF IInv
<1>5. CASE UNCHANGED vars
  BY <1>5 DEF vars, processes, workflow, IInv, TypeOK, PinMissingOnlyInRediscovery,
              RediscoveryIsExclusive, OnlyLosersRetry, NodesRunOnAWorkerQueue, OneLossIsSurvived
<1> QED BY <1>1, <1>2, <1>3, <1>4, <1>5, ActivityFailsInvariant, RediscoverInvariant,
           EndSuperstepInvariant DEF Next, Stay

\* A workflow starts with no superstep running.
LEMMA InitInvariant == Init => IInv
<1> SUFFICES ASSUME Init PROVE IInv
  OBVIOUS
<1>1. \A p \in Process : QueueOf(p) \in WorkerQueue
  BY DEF Init, QueueOf, WorkerQueue
<1>2. TypeOK
  BY <1>1 DEF Init, TypeOK
<1> QED BY <1>2 DEF Init, IInv, PinMissingOnlyInRediscovery, RediscoveryIsExclusive,
                    OnlyLosersRetry, NodesRunOnAWorkerQueue, OneLossIsSurvived

-----------------------------------------------------------------------------
\* The inductive invariant holds for any number of processes, nodes and crashes.
THEOREM InvariantHolds == Spec => []IInv
<1>1. Init => IInv
  BY InitInvariant
<1>2. IInv /\ [Next]_vars => IInv'
  BY StepInvariant
<1> QED BY <1>1, <1>2, PTL DEF Spec

\* The variables of the dispatch code hold what they are meant to.
THEOREM TypeCorrect == Spec => []TypeOK
<1>1. IInv => TypeOK
  BY DEF IInv
<1> QED BY <1>1, InvariantHolds, PTL

\* No node activity is ever dispatched to the shared queue.
THEOREM QueuesCorrect == Spec => []NodesRunOnAWorkerQueue
<1>1. IInv => NodesRunOnAWorkerQueue
  BY DEF IInv
<1> QED BY <1>1, InvariantHolds, PTL

\* A workflow survives any one lost activity of a superstep.
THEOREM LossCorrect == Spec => []OneLossIsSurvived
<1>1. IInv => OneLossIsSurvived
  BY DEF IInv
<1> QED BY <1>1, InvariantHolds, PTL

\* A step that changes the pin has an activity fail.
LEMMA PinStep ==
  ASSUME IInv, [Next]_vars, Pin # None, Pin' # Pin
  PROVE  \E n \in Node : errors'[n] > errors[n]
<1>1. ASSUME NEW n \in Node, ActivityFails(n) PROVE errors'[n] > errors[n]
  BY <1>1 DEF ActivityFails, IInv, TypeOK
<1>2. CASE Start
  BY <1>2 DEF Start, Pin, Superstep
<1>3. CASE EndSuperstep
  BY <1>3 DEF EndSuperstep, Pin, Superstep, PinForNewRun
<1>4. ASSUME NEW p \in Process, Discover(p) PROVE FALSE
  BY <1>4 DEF Discover, Pin, IInv, RediscoveryIsExclusive
<1>5. ASSUME NEW p \in Process, Crash(p) \/ Restart(p) PROVE FALSE
  BY <1>5 DEF Crash, Restart, workflow, Pin
<1>6. ASSUME NEW n \in Node, Complete(n) PROVE FALSE
  BY <1>6 DEF Complete, Pin
<1>7. ASSUME NEW n \in Node, NEW p \in Process, Rediscover(n, p) PROVE FALSE
  BY <1>7 DEF Rediscover, Pin, IInv, RediscoveryIsExclusive
<1>8. CASE UNCHANGED vars
  BY <1>8 DEF vars, workflow, Pin
<1> QED BY <1>1, <1>2, <1>3, <1>4, <1>5, <1>6, <1>7, <1>8 DEF Next, Stay

\* The pin survives supersteps and continue-as-new, and changes only when a node fails.
THEOREM PinCorrect == Spec => PinLeftOnlyOnFailure
<1>1. IInv /\ [Next]_vars =>
        [Pin # None /\ Pin' # Pin => \E n \in Node : errors'[n] > errors[n]]_vars
  BY PinStep
<1> QED BY <1>1, InvariantHolds, PTL DEF Spec, PinLeftOnlyOnFailure
=============================================================================
