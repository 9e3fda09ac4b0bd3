------------------------------- MODULE Subgraphs -------------------------------
(***************************************************************************)
(* A workflow (the parent) one of whose nodes is a subgraph, which runs as *)
(* a child workflow, on worker processes that cache, evict and replay both.*)
(*                                                                         *)
(* A graph is not sent to Temporal: a workflow's input names it by the     *)
(* reference that GraphRegistry.register made in the memory of one         *)
(* process.  The parent registers the subgraph each time its code reaches  *)
(* the node, so also when it is replayed, and unregisters it in a finally  *)
(* clause, which also runs when the cached parent is torn down.            *)
(***************************************************************************)
EXTENDS Naturals

CONSTANTS
  Process,        \* worker processes on the shared task queue
  Deployed,       \* those that hold the reference of the parent's graph at first
  None,
  MayPause,       \* whether a node of the subgraph may call interrupt()
  MaxVisits,      \* bound: times the parent executes the subgraph node
  MaxSteps,       \* bound: supersteps of one child
  MaxEvictions,   \* bound: evictions of workflows that are not over
  MaxCrashes      \* bound: crashes of processes

ASSUME SubgraphAssumption ==
  /\ Deployed \subseteq Process /\ None \notin Process /\ None \notin Nat
  /\ MayPause \in BOOLEAN
  /\ {MaxVisits, MaxSteps, MaxEvictions, MaxCrashes} \subseteq Nat

VARIABLES
  up,             \* the processes that run
  registered,     \* the processes whose GraphRegistry has the parent's graph
  registry,       \* process -> the subgraph's references in its GraphRegistry
  parent,         \* the parent: its status, where it is cached, its sub_ref there
  child,          \* the child of the present visit, with its activity
  made,           \* references made so far: a reference is its number
  visits, evictions, crashes

vars == <<up, registered, registry, parent, child, made, visits, evictions, crashes>>

\* `idle': between two executions of the subgraph node.
Parent ==
  [status : {"idle", "awaiting", "done", "failed"}, at : Process \cup {None},
   ref : Nat \cup {None}]

Child ==
  [status : {"none", "running", "paused", "completed", "failed", "terminated"},
   at : Process \cup {None}, ref : Nat \cup {None}, steps : Nat,
   act : {"none", "scheduled", "done", "failed"}]

NoChild == [status |-> "none", at |-> None, ref |-> None, steps |-> 0, act |-> "none"]

TypeOK ==
  /\ up \subseteq Process /\ registered \subseteq up
  /\ registry \in [Process -> SUBSET (1..made)]
  /\ parent \in Parent /\ child \in Child
  /\ made \in Nat /\ visits \in Nat /\ evictions \in Nat /\ crashes \in Nat

Init ==
  /\ up = Process /\ registered = Deployed
  /\ registry = [p \in Process |-> {}]
  /\ parent = [status |-> "idle", at |-> None, ref |-> None]
  /\ child = NoChild
  /\ made = 0 /\ visits = 0 /\ evictions = 0 /\ crashes = 0

-----------------------------------------------------------------------------
(***************************************************************************)
(* GraphRegistry.                                                          *)
(***************************************************************************)

\* Bug: a registration may get the reference the next one gets.
BugReferenceReused(p) ==
  /\ registry' = [registry EXCEPT ![p] = @ \cup {made + 1}]
  /\ made' = made

\* register: a reference nobody has made before, in the memory of one process.
Register(p) ==
  /\ registry' = [registry EXCEPT ![p] = @ \cup {made + 1}]
  /\ made' = made + 1

\* unregister
Unregister(p, ref) == registry' = [registry EXCEPT ![p] = @ \ {ref}]

\* get raises KeyError elsewhere, and the workflow or activity task is tried again.
Known(p, ref) == p \in up /\ ref \in registry[p]

-----------------------------------------------------------------------------
(***************************************************************************)
(* The parent.                                                             *)
(***************************************************************************)

\* A process without the parent in its cache replays it, if it knows its graph.  The
\* replayed code reaches the node again: the subgraph gets another reference, while the
\* child has been started with the first.
ReplayParent(p) ==
  /\ parent.at = None /\ parent.status \in {"idle", "awaiting"}
  /\ p \in up \cap registered
  /\ \/ /\ parent.status = "idle"
        /\ parent' = [parent EXCEPT !.at = p]
        /\ UNCHANGED <<registry, made>>
     \/ /\ parent.status = "awaiting"
        /\ Register(p)
        /\ parent' = [parent EXCEPT !.at = p, !.ref = made']
  /\ UNCHANGED <<up, registered, child, visits, evictions, crashes>>

\* Bug: the reference is released once the child is started.
BugReleasedAtStart ==
  /\ parent.at # None /\ parent.status = "idle" /\ visits < MaxVisits
  /\ made' = made + 1
  /\ parent' = [parent EXCEPT !.status = "awaiting", !.ref = made']
  /\ child' = [NoChild EXCEPT !.status = "running", !.ref = made']
  /\ visits' = visits + 1
  /\ UNCHANGED <<up, registered, registry, evictions, crashes>>

\* _execute_subgraph_as_child_workflow, up to the await.
StartSubgraph ==
  /\ parent.at # None /\ parent.status = "idle" /\ visits < MaxVisits
  /\ Register(parent.at)
  /\ parent' = [parent EXCEPT !.status = "awaiting", !.ref = made']
  /\ child' = [NoChild EXCEPT !.status = "running", !.ref = made']
  /\ visits' = visits + 1
  /\ UNCHANGED <<up, registered, evictions, crashes>>

\* Bug: the reference is given up only when the child completed.
BugUnregisterOnSuccess ==
  IF child.status = "completed" THEN Unregister(parent.at, parent.ref) ELSE UNCHANGED registry

\* The finally clause.
ReleaseReference == Unregister(parent.at, parent.ref)

\* Bug: the parent waits for a child that completed.
BugOnlySuccessReturns ==
  /\ parent.at # None /\ parent.status = "awaiting" /\ child.status = "completed"
  /\ ReleaseReference
  /\ parent' = [parent EXCEPT !.status = "idle", !.ref = None]
  /\ child' = NoChild
  /\ UNCHANGED <<up, registered, made, visits, evictions, crashes>>

\* The child completed: its channel values are the node's writes.  It failed: the error
\* leaves run().
ChildReturns ==
  /\ parent.at # None /\ parent.status = "awaiting" /\ child.status \in {"completed", "failed"}
  /\ ReleaseReference
  /\ parent' = [parent EXCEPT !.status = IF child.status = "completed" THEN "idle" ELSE "failed",
                              !.ref = None]
  /\ child' = NoChild
  /\ UNCHANGED <<up, registered, made, visits, evictions, crashes>>

\* Another node of the superstep fails for good: gather raises, and the coroutine that
\* awaits the child is abandoned as it stands.
SiblingFails ==
  /\ parent.at # None /\ parent.status = "awaiting"
  /\ parent' = [parent EXCEPT !.status = "failed"]
  /\ UNCHANGED <<up, registered, registry, child, made, visits, evictions, crashes>>

\* run() returns.
ReturnParent ==
  /\ parent.at # None /\ parent.status = "idle"
  /\ parent' = [parent EXCEPT !.status = "done"]
  /\ UNCHANGED <<up, registered, registry, child, made, visits, evictions, crashes>>

\* A cached parent is torn down: the finally clause of a coroutine that awaits runs.
TearDown ==
  /\ parent.at # None
  /\ ReleaseReference
  /\ parent' = [parent EXCEPT !.at = None, !.ref = None]

EvictClosedParent ==
  /\ parent.status \in {"done", "failed"}
  /\ TearDown
  /\ UNCHANGED <<up, registered, child, made, visits, evictions, crashes>>

EvictParent ==
  /\ parent.status \in {"idle", "awaiting"} /\ evictions < MaxEvictions
  /\ TearDown
  /\ evictions' = evictions + 1
  /\ UNCHANGED <<up, registered, child, made, visits, crashes>>

-----------------------------------------------------------------------------
(***************************************************************************)
(* The child, a workflow like the parent: its code asks for the graph when *)
(* it starts or is replayed, and each of its activities asks again.        *)
(***************************************************************************)
Live == child.status \in {"running", "paused"}

LoadChild(p) ==
  /\ child.status = "running" /\ child.at = None /\ Known(p, child.ref)
  /\ child' = [child EXCEPT !.at = p]
  /\ UNCHANGED <<up, registered, registry, parent, made, visits, evictions, crashes>>

\* A step of the cached child.
ChildStep ==
  /\ child.status = "running" /\ child.at # None
  /\ \/ /\ child.act = "none" /\ child.steps < MaxSteps
        /\ child' = [child EXCEPT !.act = "scheduled"]
     \/ /\ child.act = "none" /\ child.steps > 0
        /\ child' = [child EXCEPT !.status = "completed", !.at = None]
     \/ /\ child.act = "done"
        /\ child' = [child EXCEPT !.act = "none", !.steps = @ + 1]
     \/ /\ child.act = "done" /\ MayPause       \* the node called interrupt()
        /\ child' = [child EXCEPT !.act = "none", !.status = "paused"]
     \/ /\ child.act = "failed"
        /\ child' = [child EXCEPT !.status = "failed", !.at = None]
  /\ UNCHANGED <<up, registered, registry, parent, made, visits, evictions, crashes>>

\* An activity of the child runs where the reference is known; elsewhere it fails with
\* a KeyError and is retried.
ChildActivity(p) ==
  /\ Live /\ child.act = "scheduled" /\ Known(p, child.ref)
  /\ \E outcome \in {"done", "failed"} : child' = [child EXCEPT !.act = outcome]
  /\ UNCHANGED <<up, registered, registry, parent, made, visits, evictions, crashes>>

EvictChild ==
  /\ Live /\ child.at # None /\ evictions < MaxEvictions
  /\ child' = [child EXCEPT !.at = None]
  /\ evictions' = evictions + 1
  /\ UNCHANGED <<up, registered, registry, parent, made, visits, crashes>>

\* The parent close policy, which the code leaves at TERMINATE.
TerminateChild ==
  /\ parent.status \in {"done", "failed"} /\ Live
  /\ child' = [child EXCEPT !.status = "terminated", !.at = None]
  /\ UNCHANGED <<up, registered, registry, parent, made, visits, evictions, crashes>>

-----------------------------------------------------------------------------
Off(w, p) == IF w.at = p THEN [w EXCEPT !.at = None] ELSE w

\* A crash runs no finally clause and takes the registry with it.
Crash(p) ==
  /\ p \in up /\ crashes < MaxCrashes
  /\ up' = up \ {p} /\ registered' = registered \ {p}
  /\ registry' = [registry EXCEPT ![p] = {}]
  /\ parent' = IF parent.at = p THEN [parent EXCEPT !.at = None, !.ref = None] ELSE parent
  /\ child' = Off(child, p)
  /\ crashes' = crashes + 1
  /\ UNCHANGED <<made, visits, evictions>>

Restart(p) ==
  /\ p \notin up
  /\ up' = up \cup {p}
  /\ UNCHANGED <<registered, registry, parent, child, made, visits, evictions, crashes>>

\* Nothing to do, or nobody who could.
Stay ==
  /\ \/ parent.status \in {"done", "failed"} \/ registered = {} \/ child.status = "paused"
     \/ Live /\ \A p \in Process : ~Known(p, child.ref)
  /\ UNCHANGED vars

ParentTask ==
  (\E p \in Process : ReplayParent(p)) \/ StartSubgraph \/ ChildReturns \/ ReturnParent
ChildTask == (\E p \in Process : LoadChild(p)) \/ ChildStep

Next ==
  \/ ParentTask \/ SiblingFails \/ EvictClosedParent \/ EvictParent
  \/ ChildTask \/ EvictChild \/ TerminateChild
  \/ \E p \in Process : ChildActivity(p) \/ Crash(p) \/ Restart(p)
  \/ Stay

\* Workers poll; a task that fails with a KeyError is tried again until a process that
\* knows the graph gets it, if there is one.
Fairness ==
  /\ WF_vars(ParentTask) /\ WF_vars(ChildTask) /\ WF_vars(EvictClosedParent)
  /\ WF_vars(\E p \in Process : ChildActivity(p))
  /\ WF_vars(\E p \in Process : Restart(p))

Spec == Init /\ [][Next]_vars /\ Fairness

-----------------------------------------------------------------------------
(***************************************************************************)
(* Properties.                                                             *)
(***************************************************************************)

\* A GraphRegistry holds no reference but the one of the parent that is cached in its
\* process and awaits its child: none is left by completions, failures, abandoned
\* coroutines, evictions or replays.
NoReferenceLeaks ==
  \A p \in Process : \A ref \in registry[p] : parent.at = p /\ parent.ref = ref

\* While the parent that started a child stays cached, the child's graph is known there,
\* whatever happens to the child and to other processes.
StarterKeepsReference ==
  parent.at # None /\ parent.status = "awaiting" /\ parent.ref = child.ref =>
    Known(parent.at, child.ref)

\* The child's graph is known to no process any more.
Lost == Live /\ \A p \in Process : ~Known(p, child.ref)

\* The process of a closed parent is left without the reference.
ReferencesAreReleased ==
  parent.status \in {"done", "failed"} ~> \A p \in Process : registry[p] = {}

\* The parent gets on, unless the graph of its child, or its own, is not known to any
\* process any more, or the child waits for an answer.
ReturnsWhileGraphIsKnown ==
  parent.status = "awaiting" ~>
    (parent.status # "awaiting" \/ Lost \/ child.status = "paused" \/ registered = {})

\* workflow.py:496: child workflows provide "full durability for nested graph execution".
SubgraphNodeReturns == parent.status = "awaiting" ~> parent.status # "awaiting"
=============================================================================
