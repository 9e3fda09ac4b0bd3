------------------------------ MODULE Supersteps ------------------------------
(***************************************************************************)
(* What the execution of a graph promises: a bulk-synchronous computation. *)
(*                                                                         *)
(* There is one state and a number of the round.  The nodes of a round are *)
(* planned from the state, each of them (and every node they reach with a  *)
(* Send or a Command.goto) has an output, and the round replaces the state *)
(* by what all outputs together make of it.  Nothing else changes the      *)
(* state but the input and single updates from outside, which may come at  *)
(* any time.  Activities, pauses, child workflows, replays and             *)
(* continue-as-new do not exist here: LangGraphWorkflow implements this    *)
(* specification with them.                                                *)
(***************************************************************************)
EXTENDS Pregel

CONSTANTS
  StartChan,      \* the channel the input is written to
  UpdateChan,     \* the channels that are updated from outside
  MaxUpdates      \* bound: updates from outside

VARIABLES
  state,          \* the checkpoint with its channels
  round,          \* the number of the round
  planned,        \* the nodes of this round, {} before they are planned
  outputs         \* what executions of this round have produced so far

bsp == <<state, round, planned, outputs>>

Init == state = EmptyCheckpoint /\ round = 0 /\ planned = {} /\ outputs = {}

\* The nodes of a round: none yet, or the ones the state makes run.
MayPlan(ck) == planned' \in {{}, PrepareNextTasks(ck)}

\* The graph's input arrives.
Begin ==
  /\ state = EmptyCheckpoint /\ planned = {}
  /\ state' = ApplyWrites(state,
       {[name |-> "__input__", path |-> "__input__", writes |-> {<<StartChan, 0>>},
         triggers |-> {}]}, 0)
  /\ MayPlan(state')
  /\ UNCHANGED <<round, outputs>>

Plan ==
  /\ planned = {} /\ outputs = {}
  /\ planned' = PrepareNextTasks(state)
  /\ UNCHANGED <<state, round, outputs>>

\* Only the planned nodes run, and those that other outputs of the round reach.
Legitimate(o, os) == o.node \in planned \/ \E p \in os : o.node \in p.reaches

\* Executions end, or are done again.
Report ==
  /\ planned # {}
  /\ outputs' # outputs /\ \A o \in outputs' : Legitimate(o, outputs' \cup outputs)
  /\ UNCHANGED <<state, round, planned>>

\* The writes of the round: every output that wrote something.
RoundWrites ==
  {[name |-> o.node, path |-> o.path, writes |-> o.writes, triggers |-> Triggers[o.node]] :
     o \in {o \in outputs : o.writes # {}}}

\* The barrier: all outputs are there, and the state is replaced as a whole.
Commit ==
  /\ planned # {} /\ \A n \in planned : \E o \in outputs : o.node = n
  /\ ~Conflict(RoundWrites)
  /\ state' = IF RoundWrites = {} THEN state ELSE ApplyWrites(state, RoundWrites, round)
  /\ round' = round + 1 /\ outputs' = {}
  /\ MayPlan(state')

\* An update from outside, accounted to this round or (once it is over) the last one.
Update ==
  /\ \E c \in UpdateChan, k \in 1..MaxUpdates, at \in {round, round - 1} :
       state' = ApplyWrites(state,
         {[name |-> "__update__", path |-> "__update__", writes |-> {<<c, k>>},
           triggers |-> {}]}, at)
  /\ UNCHANGED <<round, planned, outputs>>

Next == Begin \/ Plan \/ Report \/ Commit \/ Update

Spec == Init /\ [][Next]_bsp
=============================================================================
