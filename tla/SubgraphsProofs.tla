---------------------------- MODULE SubgraphsProofs ----------------------------
(***************************************************************************)
(* Safety of Subgraphs for any number of processes, visits, supersteps,    *)
(* evictions and crashes.                                                  *)
(***************************************************************************)
EXTENDS Subgraphs, TLAPS

(***************************************************************************)
(* The inductive invariant.  The finally clause unregisters the reference  *)
(* of the coroutine that is torn down, and that is enough only because a   *)
(* parent has a reference exactly while its coroutine is inside the node:  *)
(* one that reaches the node, for the first time or in a replay, has none  *)
(* to overwrite, and the registries hold nothing else.                     *)
(***************************************************************************)

\* A reference belongs to a cached parent, in a process that runs.
ReferenceIsOfCachedParent ==
  /\ parent.at # None => parent.at \in up
  /\ parent.at = None => parent.ref = None

\* A parent that is not at the node, or has left it, has none.
NoReferenceOutsideTheNode == parent.status \in {"idle", "done"} => parent.ref = None

\* A parent that waits at the node has one, and its process knows it.
WaitsWithReference ==
  parent.at # None /\ parent.status = "awaiting" => Known(parent.at, parent.ref)

IInv ==
  /\ TypeOK
  /\ NoReferenceLeaks
  /\ ReferenceIsOfCachedParent
  /\ NoReferenceOutsideTheNode
  /\ WaitsWithReference

-----------------------------------------------------------------------------
\* A workflow starts at no process, and nothing is registered.
LEMMA InitInvariant == Init => IInv
<1> SUFFICES ASSUME Init PROVE IInv
  OBVIOUS
<1>1. TypeOK
  BY SubgraphAssumption DEF Init, TypeOK, Parent, Child, NoChild
<1> QED BY <1>1, SubgraphAssumption
        DEF Init, IInv, NoReferenceLeaks, ReferenceIsOfCachedParent,
            NoReferenceOutsideTheNode, WaitsWithReference

\* While the parent has no reference, no registry holds one.
LEMMA NothingRegistered ==
  ASSUME IInv, parent.ref = None, NEW p \in Process
  PROVE  registry[p] = {}
BY SubgraphAssumption DEF IInv, NoReferenceLeaks, TypeOK

\* The parent reaches the node at a process where it is cached, or is replayed: it
\* registers the subgraph there, and has no other reference.
LEMMA RegisterInvariant ==
  ASSUME IInv, parent.ref = None, NEW p \in up, Register(p),
         parent' = [parent EXCEPT !.at = p, !.status = "awaiting", !.ref = made'],
         child' \in Child, visits' \in Nat, UNCHANGED <<up, registered, evictions, crashes>>
  PROVE  IInv'
<1>1. TypeOK
  BY DEF IInv
<1>2. /\ made' = made + 1 /\ made \in Nat /\ p \in Process
      /\ parent'.at = p /\ parent'.ref = made' /\ parent'.status = "awaiting"
      /\ parent' \in Parent
  <2>1. made' = made + 1 /\ made \in Nat /\ p \in Process /\ made' \in Nat
    BY <1>1 DEF Register, TypeOK
  <2>2. parent' = [status |-> "awaiting", at |-> p, ref |-> made']
    BY <1>1 DEF TypeOK, Parent
  <2> QED BY <2>1, <2>2 DEF Parent
<1>3. \A r \in Process : registry'[r] = IF r = p THEN {made'} ELSE {}
  BY <1>1, <1>2, NothingRegistered DEF Register, TypeOK
<1>4. registry' \in [Process -> SUBSET (1..made')]
  <2>1. made' \in 1..made' /\ 1..made \subseteq 1..made'
    BY <1>2
  <2> QED BY <1>1, <1>2, <2>1 DEF Register, TypeOK
<1>5. TypeOK'
  BY <1>1, <1>2, <1>4 DEF TypeOK
<1>6. NoReferenceLeaks'
  BY <1>2, <1>3 DEF NoReferenceLeaks
<1>7. ReferenceIsOfCachedParent' /\ NoReferenceOutsideTheNode' /\ WaitsWithReference'
  BY <1>2, <1>3, SubgraphAssumption, <1>1
  DEF ReferenceIsOfCachedParent, NoReferenceOutsideTheNode, WaitsWithReference, Known, TypeOK
<1> QED BY <1>5, <1>6, <1>7 DEF IInv

\* The coroutine leaves the node through its finally clause, by itself or torn down.
LEMMA ReleaseInvariant ==
  ASSUME IInv, parent.at # None, ReleaseReference,
         parent' \in Parent, parent'.ref = None,
         \/ parent'.at = None
         \/ parent'.at = parent.at /\ parent'.status # "awaiting",
         child' \in Child, evictions' \in Nat,
         UNCHANGED <<up, registered, made, visits, crashes>>
  PROVE  IInv'
<1>1. TypeOK
  BY DEF IInv
<1>2. parent.at \in Process
  BY <1>1 DEF TypeOK, Parent
<1>3. \A p \in Process : registry'[p] = {}
  <2> SUFFICES ASSUME NEW p \in Process PROVE registry'[p] = {}
    OBVIOUS
  <2>1. registry'[p] \subseteq registry[p] /\ parent.ref \notin registry'[parent.at]
    BY <1>1, <1>2 DEF ReleaseReference, Unregister, TypeOK
  <2> QED BY <1>2, <2>1 DEF IInv, NoReferenceLeaks
<1>4. registry' \in [Process -> SUBSET (1..made')]
  BY <1>1, <1>2 DEF ReleaseReference, Unregister, TypeOK
<1>5. TypeOK'
  BY <1>1, <1>4 DEF TypeOK
<1>6. NoReferenceLeaks' /\ ReferenceIsOfCachedParent'
      /\ NoReferenceOutsideTheNode' /\ WaitsWithReference'
  BY <1>3 DEF IInv, NoReferenceLeaks, ReferenceIsOfCachedParent, NoReferenceOutsideTheNode,
              WaitsWithReference
<1> QED BY <1>5, <1>6 DEF IInv

\* A crash takes the registry of its process and the parent cached there.
LEMMA CrashInvariant ==
  ASSUME IInv, NEW p \in Process, Crash(p)
  PROVE  IInv'
<1>1. /\ p \in up /\ up' = up \ {p} /\ registered' = registered \ {p}
      /\ registry' = [registry EXCEPT ![p] = {}]
      /\ parent' = IF parent.at = p THEN [parent EXCEPT !.at = None, !.ref = None] ELSE parent
      /\ child' = Off(child, p) /\ crashes' = crashes + 1
      /\ UNCHANGED <<made, visits, evictions>>
      /\ TypeOK
  BY DEF Crash, IInv
<1>2. \A r \in Process : registry'[r] = IF r = p THEN {} ELSE registry[r]
  BY <1>1 DEF TypeOK
<1>3. parent' \in Parent /\ child' \in Child
  BY <1>1 DEF TypeOK, Parent, Child, Off
<1>4. registry' \in [Process -> SUBSET (1..made')] /\ crashes' \in Nat
  BY <1>1 DEF TypeOK
<1>5. TypeOK'
  BY <1>1, <1>3, <1>4 DEF TypeOK
<1>6. NoReferenceLeaks'
  BY <1>1, <1>2 DEF IInv, NoReferenceLeaks
<1>7. ReferenceIsOfCachedParent'
  BY <1>1 DEF IInv, ReferenceIsOfCachedParent, TypeOK, Parent
<1>8. NoReferenceOutsideTheNode'
  BY <1>1 DEF IInv, NoReferenceOutsideTheNode, TypeOK, Parent
<1>9. WaitsWithReference'
  <2>1. CASE parent.at = p
    BY <1>1, <2>1 DEF WaitsWithReference, TypeOK, Parent
  <2>2. CASE parent.at # p
    <3>1. parent' = parent
      BY <1>1, <2>2
    <3> SUFFICES ASSUME parent.at # None, parent.status = "awaiting"
                 PROVE  Known(parent.at, parent.ref)'
      BY <3>1 DEF WaitsWithReference
    <3>2. parent.at \in up /\ parent.at \in Process /\ parent.ref \in registry[parent.at]
      BY <1>1 DEF IInv, WaitsWithReference, Known, TypeOK
    <3> QED BY <1>1, <1>2, <2>2, <3>1, <3>2 DEF Known
  <2> QED BY <2>1, <2>2
<1> QED BY <1>5, <1>6, <1>7, <1>8, <1>9 DEF IInv

\* What the child, its activity and its process do, and restarts: no step of theirs touches
\* the parent or a registry.
LEMMA ChildInvariant ==
  ASSUME IInv, child' \in Child, up \subseteq up', up' \subseteq Process, evictions' \in Nat,
         UNCHANGED <<registered, registry, parent, made, visits, crashes>>
  PROVE  IInv'
<1>1. TypeOK'
  BY DEF IInv, TypeOK
<1>2. NoReferenceLeaks' /\ NoReferenceOutsideTheNode'
  BY DEF IInv, NoReferenceLeaks, NoReferenceOutsideTheNode
<1>3. ReferenceIsOfCachedParent' /\ WaitsWithReference'
  BY DEF IInv, ReferenceIsOfCachedParent, WaitsWithReference, Known
<1> QED BY <1>1, <1>2, <1>3 DEF IInv

LEMMA StepInvariant ==
  ASSUME IInv, [Next]_vars
  PROVE  IInv'
<1>0. TypeOK
  BY DEF IInv
<1>1. ASSUME NEW p \in Process, ReplayParent(p) PROVE IInv'
  <2>1. parent.at = None /\ parent.ref = None /\ p \in up /\ parent \in Parent
    BY <1>0, <1>1 DEF ReplayParent, IInv, ReferenceIsOfCachedParent, TypeOK
  <2>2. CASE parent.status = "awaiting"
    <3>1. parent' = [parent EXCEPT !.at = p, !.status = "awaiting", !.ref = made']
      BY <1>1, <2>1, <2>2 DEF ReplayParent, Parent
    <3>2. child' \in Child /\ visits' \in Nat
      BY <1>0, <1>1 DEF ReplayParent, TypeOK
    <3> QED BY <1>1, <2>1, <2>2, <3>1, <3>2, RegisterInvariant DEF ReplayParent
  <2>3. CASE parent.status = "idle"
    <3>1. /\ parent' = [parent EXCEPT !.at = p]
          /\ UNCHANGED <<up, registered, registry, child, made, visits, evictions, crashes>>
      BY <1>1, <2>3 DEF ReplayParent
    <3>2. parent' \in Parent /\ parent'.at = p /\ parent'.ref = None /\ parent'.status = "idle"
      BY <2>1, <2>3, <3>1 DEF Parent
    <3>3. TypeOK'
      BY <1>0, <3>1, <3>2 DEF TypeOK
    <3>4. NoReferenceLeaks'
      BY <2>1, <3>1, NothingRegistered DEF NoReferenceLeaks
    <3>5. ReferenceIsOfCachedParent' /\ NoReferenceOutsideTheNode' /\ WaitsWithReference'
      BY <2>1, <3>1, <3>2
      DEF ReferenceIsOfCachedParent, NoReferenceOutsideTheNode, WaitsWithReference
    <3> QED BY <3>3, <3>4, <3>5 DEF IInv
  <2> QED BY <1>1, <2>2, <2>3 DEF ReplayParent
<1>2. CASE StartSubgraph
  <2>1. /\ parent.at \in up /\ parent.ref = None /\ parent \in Parent
        /\ made \in Nat /\ made' = made + 1
    BY <1>0, <1>2 DEF StartSubgraph, Register, IInv, ReferenceIsOfCachedParent,
                      NoReferenceOutsideTheNode, TypeOK
  <2>2. parent' = [parent EXCEPT !.at = parent.at, !.status = "awaiting", !.ref = made']
    BY <1>2, <2>1 DEF StartSubgraph, Parent
  <2>3. child' \in Child /\ visits' \in Nat
    <3>1. child' = [status |-> "running", at |-> None, ref |-> made', steps |-> 0,
                    act |-> "none"]
      BY <1>2 DEF StartSubgraph, NoChild
    <3>2. made' \in Nat /\ visits' \in Nat
      BY <1>0, <1>2, <2>1 DEF StartSubgraph, TypeOK
    <3> QED BY <3>1, <3>2 DEF Child
  <2> QED BY <1>2, <2>1, <2>2, <2>3, RegisterInvariant DEF StartSubgraph
<1>3. CASE ChildReturns
  <2>1. /\ parent' \in Parent /\ parent'.ref = None /\ parent'.at = parent.at
        /\ parent'.status # "awaiting"
    BY <1>0, <1>3 DEF ChildReturns, TypeOK, Parent
  <2>2. child' \in Child /\ evictions' \in Nat
    BY <1>0, <1>3 DEF ChildReturns, TypeOK, Child, NoChild
  <2> QED BY <1>3, <2>1, <2>2, ReleaseInvariant DEF ChildReturns
<1>4. CASE EvictClosedParent \/ EvictParent
  <2>1. parent' \in Parent /\ parent'.ref = None /\ parent'.at = None
    BY <1>0, <1>4 DEF EvictClosedParent, EvictParent, TearDown, TypeOK, Parent
  <2>2. child' \in Child /\ evictions' \in Nat
    BY <1>0, <1>4 DEF EvictClosedParent, EvictParent, TypeOK
  <2> QED BY <1>4, <2>1, <2>2, ReleaseInvariant DEF EvictClosedParent, EvictParent, TearDown
<1>5. CASE SiblingFails \/ ReturnParent
  <2>1. /\ parent' \in Parent /\ parent'.at = parent.at /\ parent'.ref = parent.ref
        /\ \/ parent'.status = "failed"
           \/ parent'.status = "done" /\ parent.ref = None
        /\ UNCHANGED <<up, registered, registry, child, made, visits, evictions, crashes>>
    BY <1>0, <1>5 DEF SiblingFails, ReturnParent, TypeOK, Parent, IInv, NoReferenceOutsideTheNode
  <2>2. TypeOK' /\ NoReferenceLeaks'
    BY <1>0, <2>1 DEF TypeOK, IInv, NoReferenceLeaks
  <2>3. ReferenceIsOfCachedParent' /\ NoReferenceOutsideTheNode' /\ WaitsWithReference'
    BY <2>1 DEF IInv, ReferenceIsOfCachedParent, NoReferenceOutsideTheNode, WaitsWithReference
  <2> QED BY <2>2, <2>3 DEF IInv
<1>6. ASSUME NEW p \in Process, LoadChild(p) \/ ChildActivity(p) PROVE IInv'
  <2>1. child' \in Child
    BY <1>0, <1>6 DEF LoadChild, ChildActivity, TypeOK, Child
  <2> QED BY <1>0, <1>6, <2>1, ChildInvariant DEF LoadChild, ChildActivity, TypeOK
<1>7. CASE ChildStep \/ EvictChild \/ TerminateChild
  <2>1. child' \in Child
    <3>1. CASE ChildStep
      <4>1. child \in Child /\ child.steps \in Nat /\ child.steps + 1 \in Nat
        BY <1>0 DEF TypeOK, Child
      <4>2. CASE child' = [child EXCEPT !.act = "scheduled"]
        BY <4>1, <4>2 DEF Child
      <4>3. CASE child' = [child EXCEPT !.status = "completed", !.at = None]
        BY <4>1, <4>3 DEF Child
      <4>4. CASE child' = [child EXCEPT !.act = "none", !.steps = child.steps + 1]
        BY <4>1, <4>4 DEF Child
      <4>5. CASE child' = [child EXCEPT !.act = "none", !.status = "paused"]
        BY <4>1, <4>5 DEF Child
      <4>6. CASE child' = [child EXCEPT !.status = "failed", !.at = None]
        BY <4>1, <4>6 DEF Child
      <4> QED BY <3>1, <4>2, <4>3, <4>4, <4>5, <4>6 DEF ChildStep
    <3>2. CASE EvictChild \/ TerminateChild
      BY <1>0, <3>2 DEF EvictChild, TerminateChild, TypeOK, Child
    <3> QED BY <1>7, <3>1, <3>2
  <2>2. evictions' \in Nat
    BY <1>0, <1>7 DEF ChildStep, EvictChild, TerminateChild, TypeOK
  <2> QED BY <1>0, <1>7, <2>1, <2>2, ChildInvariant
          DEF ChildStep, EvictChild, TerminateChild, TypeOK
<1>8. ASSUME NEW p \in Process, Restart(p) PROVE IInv'
  BY <1>0, <1>8, ChildInvariant DEF Restart, TypeOK
<1>9. CASE UNCHANGED vars
  BY <1>0, <1>9, ChildInvariant DEF vars, TypeOK
<1> QED BY <1>1, <1>2, <1>3, <1>4, <1>5, <1>6, <1>7, <1>8, <1>9, CrashInvariant
        DEF Next, ParentTask, ChildTask, Stay

-----------------------------------------------------------------------------
\* The inductive invariant holds for any number of processes and whatever the bounds are.
THEOREM InvariantHolds == Spec => []IInv
<1>1. Init => IInv
  BY InitInvariant
<1>2. IInv /\ [Next]_vars => IInv'
  BY StepInvariant
<1> QED BY <1>1, <1>2, PTL DEF Spec

\* The variables hold what they are meant to: a process that is down has no graph, and
\* references are those the registries have given out.
THEOREM TypeCorrect == Spec => []TypeOK
<1>1. IInv => TypeOK
  BY DEF IInv
<1> QED BY <1>1, InvariantHolds, PTL

\* No registry is left with a reference by completions, failures, abandoned coroutines,
\* evictions, replays or crashes.
THEOREM RegistriesCorrect == Spec => []NoReferenceLeaks
<1>1. IInv => NoReferenceLeaks
  BY DEF IInv
<1> QED BY <1>1, InvariantHolds, PTL

\* The parent that started a child keeps its graph known while it stays cached.
THEOREM StarterCorrect == Spec => []StarterKeepsReference
<1>1. IInv => StarterKeepsReference
  BY DEF IInv, WaitsWithReference, StarterKeepsReference
<1> QED BY <1>1, InvariantHolds, PTL
=============================================================================
