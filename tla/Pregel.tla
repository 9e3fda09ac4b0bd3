------------------------------- MODULE Pregel -------------------------------
(***************************************************************************)
(* The two functions of langgraph.pregel._algo that workflow.py calls:     *)
(* prepare_next_tasks (called without updated_channels) and apply_writes,  *)
(* over the channel classes a compiled graph uses.  LangGraph itself is    *)
(* not part of this repository; what is stated here is the behaviour the   *)
(* workflow relies on.                                                     *)
(*                                                                         *)
(* A channel's value is abstracted to the set of tokens it is made of.  A  *)
(* token names who wrote it, which of the writer's writes it is, and the   *)
(* superstep it was written in, so that a property can tell a value from   *)
(* an earlier or a later one.                                              *)
(***************************************************************************)
EXTENDS Naturals

CONSTANTS
  Node,       \* the graph's nodes
  Chan,       \* the graph's channels
  Kind,       \* channel -> "last" (LastValue), "reduce" (BinaryOperator-
              \* Aggregate), "ephemeral" (EphemeralValue), "barrier"
              \* (NamedBarrierValue)
  Members,    \* barrier channel -> the nodes it waits for
  Triggers    \* node -> the channels that trigger it

\* A barrier waits for somebody, and no node has the name of a task that is not a node's.
ASSUME GraphAssumption ==
  /\ Kind \in [Chan -> {"last", "reduce", "ephemeral", "barrier"}]
  /\ Members \in [Chan -> SUBSET Node]
  /\ \A c \in Chan : Kind[c] = "barrier" => Members[c] # {}
  /\ Triggers \in [Node -> SUBSET Chan]
  /\ {"__input__", "__update__"} \cap Node = {}

\* Values of different writers, and of one writer in different supersteps, differ.
Token == [by : Node \cup {"__input__", "__update__"}, k : Nat, at : Nat]

(***************************************************************************)
(* The checkpoint together with the channel objects built from it:         *)
(*   ver   channel_versions (0: the channel has no version)                *)
(*   top   max(channel_versions.values())                                  *)
(*   val   the channels' values                                            *)
(*   seen  versions_seen                                                   *)
(*   lists the barriers whose `seen' is a list and no set: what JSON makes *)
(*         of a set, see Json                                              *)
(***************************************************************************)
Checkpoint ==
  [ver : [Chan -> Nat], top : Nat, val : [Chan -> SUBSET Token], seen : [Node -> [Chan -> Nat]],
   lists : SUBSET Chan]

EmptyCheckpoint ==
  [ver |-> [c \in Chan |-> 0], top |-> 0, val |-> [c \in Chan |-> {}],
   seen |-> [n \in Node |-> [c \in Chan |-> 0]], lists |-> {}]

\* Every member of a barrier has written.
Full(ck, c) == \A n \in Members[c] : \E t \in ck.val[c] : t.by = n

\* channel.is_available(): a barrier compares `seen' with a set, which no list is equal to.
Available(ck, c) ==
  IF Kind[c] = "barrier" THEN c \notin ck.lists /\ Full(ck, c) ELSE ck.val[c] # {}

\* prepare_next_tasks: a node runs when a trigger of it holds a version it has not seen.
PrepareNextTasks(ck) ==
  {n \in Node : \E c \in Triggers[n] : Available(ck, c) /\ ck.ver[c] > ck.seen[n][c]}

(***************************************************************************)
(* apply_writes(checkpoint, channels, tasks).  A task is a record of the   *)
(* writer's name, the path that tells it from the others, its writes (a    *)
(* set of <<channel, index>>) and its triggers; `at' is the superstep.     *)
(***************************************************************************)
WrittenTo(tasks, c, at) ==
  UNION {{[by |-> t.name, k |-> w[2], at |-> at] : w \in {x \in t.writes : x[1] = c}} :
         t \in tasks}

\* LastValue.update raises InvalidUpdateError when it is given two values.
Conflict(tasks) ==
  \E c \in Chan, t, u \in tasks :
    /\ Kind[c] = "last"
    /\ \E w \in t.writes, x \in u.writes : w[1] = c /\ x[1] = c /\ <<t, w>> # <<u, x>>

\* Barriers that were full and triggered one of the tasks are emptied first.
Consumed(ck, tasks) ==
  {c \in Chan : Kind[c] = "barrier" /\ Available(ck, c) /\ \E t \in tasks : c \in t.triggers}

Left(ck, tasks, c) == IF c \in Consumed(ck, tasks) THEN {} ELSE ck.val[c]

\* A barrier is updated only by a member it has not heard from.
News(ck, tasks, c, at) ==
  IF Kind[c] = "barrier"
    THEN {t \in WrittenTo(tasks, c, at) : \A u \in Left(ck, tasks, c) : u.by # t.by}
    ELSE WrittenTo(tasks, c, at)

\* list has no add: a barrier that is left with one raises AttributeError.
NoSet(ck, tasks, at) == \E c \in ck.lists : News(ck, tasks, c, at) # {}

\* apply_writes raises.
Raises(ck, tasks, at) == Conflict(tasks) \/ NoSet(ck, tasks, at)

\* bump_step: a superstep with a triggered task ends the life of the ephemeral
\* values that it did not write again.
Expired(ck, tasks, at) ==
  {c \in Chan :
     /\ \E t \in tasks : t.triggers # {}
     /\ Kind[c] = "ephemeral" /\ ck.val[c] # {} /\ WrittenTo(tasks, c, at) = {}}

Changed(ck, tasks, at) ==
  Consumed(ck, tasks) \cup Expired(ck, tasks, at)
    \cup {c \in Chan : News(ck, tasks, c, at) # {}}

NewValue(ck, tasks, c, at) ==
  IF c \in Expired(ck, tasks, at) THEN {}
  ELSE IF News(ck, tasks, c, at) = {} \/ Kind[c] \in {"reduce", "barrier"}
    THEN Left(ck, tasks, c) \cup News(ck, tasks, c, at)
    ELSE News(ck, tasks, c, at)

\* What a task has read: the versions of its triggers when its writes are applied.
SeenBy(ck, tasks, n, c) ==
  IF \E t \in tasks : t.name = n /\ c \in t.triggers THEN ck.ver[c] ELSE ck.seen[n][c]

ApplyWrites(ck, tasks, at) ==
  LET next == ck.top + 1
      changed == Changed(ck, tasks, at)
  IN [ver  |-> [c \in Chan |-> IF c \in changed THEN next ELSE ck.ver[c]],
      top  |-> IF changed = {} THEN ck.top ELSE next,
      val  |-> [c \in Chan |-> NewValue(ck, tasks, c, at)],
      seen |-> [n \in Node |-> [c \in Chan |-> SeenBy(ck, tasks, n, c)]],
      lists |-> ck.lists]

\* create_checkpoint and Temporal's JSON converter: a checkpoint holds the `seen' of every
\* barrier that has a version, and the converter writes a set as a list.
Json(ck) ==
  [ck EXCEPT !.lists = {c \in Chan : Kind[c] = "barrier" /\ ck.ver[c] > 0}]

=============================================================================
