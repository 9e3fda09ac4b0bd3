-------------------------- MODULE NodeActivityProofs --------------------------
(***************************************************************************)
(* Safety of NodeActivity for any deployment of codecs, keys and blob      *)
(* stores, any retry policy, and any number of processes, attempts,        *)
(* requests and crashes.                                                   *)
(***************************************************************************)
EXTENDS NodeActivity, SequenceTheorems, TLAPS

(***************************************************************************)
(* The inductive invariant.  At its heart is what a payload stands for: a  *)
(* value of which it is the only decoding, whoever decodes it, with which  *)
(* codec, key and reach of blobs, now or after any step of the store.      *)
(***************************************************************************)
StandsFor(kept, ids, shared, payload, v) ==
  /\ payload \in Payload(Content)
  /\ payload.enc # "blob" => payload.content = v
  /\ payload.enc = "blob" =>
       /\ payload.key \in 1..ids
       /\ payload.key \in DOMAIN kept => kept[payload.key].content = v
       /\ shared => payload.key \in DOMAIN kept

\* The input, on its way to the server and there.
InputStands ==
  /\ offered # None =>
       act.status = "none" /\ StandsFor(blobs, made, deployment.shared, offered.payload, Input)
  /\ IF act.status = "none" THEN act.input = None
     ELSE StandsFor(blobs, made, deployment.shared, act.input, Input)

\* The result, and what the workflow has read of it.
ResultStands ==
  IF act.status = "completed"
    THEN \E v \in Output : /\ StandsFor(blobs, made, deployment.shared, act.result, v)
                           /\ got \in {None, v}
    ELSE act.result = None /\ got = None

\* An execution runs in a process, on the node's input; its list holds requests of its
\* own from the moment it is running, and its output and payload are of one value.
ExecutionOK(k) ==
  LET e == run[k] IN
  /\ e.stage # "none" => e.at \in Process /\ act.status # "none"
  /\ e.stage \in {"running", "encoding", "encoded"} => e.input = Input
  /\ e.stage = "running" => \A i \in 1..Len(lists[k]) : lists[k][i] = k
  /\ IF e.stage \in {"encoding", "encoded"}
       THEN e.output \in Output /\ \A i \in 1..Len(e.output.requests) : e.output.requests[i] = k
       ELSE e.output = None
  /\ e.stage = "encoded" => StandsFor(blobs, made, deployment.shared, e.payload, e.output)
  /\ e.stage = "started" => ~e.final
  /\ e.stage = "raised" => e.error \in Error /\ (NonRetryable(e.error) => e.final)

\* What the server may have taken for the outcome of an attempt that is not the last.
Retried(k) ==
  answered[k] \in {"transient", "timeout"} \cup (IF policy.retryOn = "predicate" THEN {} ELSE {"permanent"})

AttemptsOK ==
  /\ act.status = "none" => act.attempt = 0
  /\ act.status = "started" => act.attempt \in Attempt
  /\ \A k \in Attempt : k < act.attempt => Retried(k)
  /\ act.status = "scheduled" => \A k \in Attempt : k = act.attempt => Retried(k)

IInv ==
  /\ TypeOK
  /\ InputStands
  /\ ResultStands
  /\ \A k \in Attempt : ExecutionOK(k)
  /\ AttemptsOK

-----------------------------------------------------------------------------
(***************************************************************************)
(* Payloads and the store.                                                 *)
(***************************************************************************)

\* A payload that stands for a value is decoded to it or not at all.
LEMMA DecodeReads ==
  ASSUME NEW p, NEW payload, NEW v,
         StandsFor(blobs, made, deployment.shared, payload, v)
  PROVE  \A w \in Decode(p, payload) : w = v
<1> DEFINE reach == [i \in InReach(p) |-> blobs[i].content]
<1>1. CASE payload.enc = "blob"
  <2>1. \A w \in Fetch(reach, payload) : w = v
    BY <1>1 DEF StandsFor, Fetch, InReach
  <2>2. Decoded(SetupOf(p), reach, payload) \in {Fetch(reach, payload), {}}
    BY <1>1 DEF Decoded
  <2> QED BY <2>1, <2>2 DEF Decode
<1>2. CASE payload.enc # "blob"
  <2>1. Decoded(SetupOf(p), reach, payload) \in {{payload.content}, {}}
    BY <1>2 DEF Decoded, Open
  <2> QED BY <1>2, <2>1 DEF Decode, StandsFor
<1> QED BY <1>1, <1>2

StoreOK ==
  /\ made \in Nat /\ DOMAIN blobs \subseteq 1..made
  /\ \A i \in DOMAIN blobs : blobs[i] \in [content : Content, at : Process]

\* A step of the store that leaves what all payloads stand for.
PayloadsKept ==
  \A payload, v : StandsFor(blobs, made, deployment.shared, payload, v) =>
                  StandsFor(blobs', made', deployment.shared, payload, v)

\* What is encoded stands for what was given to the codec, as soon as encode returns, and
\* a blob stored for it takes no other payload's place.
LEMMA EncodeStands ==
  ASSUME TypeOK, NEW p \in Process, NEW v \in Content, NEW large \in BOOLEAN,
         Store(p, v, large)
  PROVE  /\ StoreOK' /\ PayloadsKept
         /\ StandsFor(blobs', made', deployment.shared, Encode(p, v, large), v)
<1>1. /\ made \in Nat /\ DOMAIN blobs \subseteq 1..made
      /\ \A i \in DOMAIN blobs : blobs[i] \in [content : Content, at : Process]
      /\ SetupOf(p) \in Setup
  BY ActivityAssumption DEF TypeOK, SetupOf, Deployment
<1>2. CASE Offloads(SetupOf(p), large)
  <2>1. /\ blobs' = [i \in DOMAIN blobs \cup {made + 1} |->
                       IF i = made + 1 THEN [content |-> v, at |-> p] ELSE blobs[i]]
        /\ made' = made + 1
    BY <1>2 DEF Store, Put, NewBlob
  <2>2. /\ DOMAIN blobs' = DOMAIN blobs \cup {made + 1}
        /\ blobs'[made + 1] = [content |-> v, at |-> p]
        /\ made + 1 \notin DOMAIN blobs
        /\ \A i \in DOMAIN blobs : blobs'[i] = blobs[i]
    BY <1>1, <2>1
  <2>3. StoreOK'
    BY <1>1, <2>1, <2>2 DEF StoreOK
  <2>4. PayloadsKept
    BY <1>1, <2>1, <2>2 DEF PayloadsKept, StandsFor
  <2>5. Encode(p, v, large) = BlobRef(made + 1)
    BY <1>2 DEF Encode, Encoded, Offloads, NewBlob
  <2>6. BlobRef(made + 1) \in Payload(Content)
    BY <1>1 DEF BlobRef, Payload, Codec
  <2> QED BY <1>1, <2>1, <2>2, <2>3, <2>4, <2>5, <2>6 DEF StandsFor, BlobRef
<1>3. CASE ~Offloads(SetupOf(p), large)
  <2>1. UNCHANGED <<blobs, made>>
    BY <1>3 DEF Store, store
  <2>2. StoreOK' /\ PayloadsKept
    BY <1>1, <2>1 DEF StoreOK, PayloadsKept
  <2>3. Encode(p, v, large) =
          IF SetupOf(p).codec \in {"aes", "fernet"} THEN Seal(SetupOf(p), v) ELSE Plain(v)
    BY <1>3 DEF Encode, Encoded
  <2>4. /\ Encode(p, v, large) \in Payload(Content)
        /\ Encode(p, v, large).enc # "blob" /\ Encode(p, v, large).content = v
    BY <1>1, <2>3 DEF Seal, Plain, Payload, Setup, Codec
  <2> QED BY <2>2, <2>4 DEF StandsFor
<1> QED BY <1>2, <1>3

\* A crash takes nothing that a shared store keeps.
LEMMA CrashKeepsPayloads ==
  ASSUME TypeOK, NEW p \in Process, Crash(p)
  PROVE  StoreOK' /\ PayloadsKept
<1>1. /\ DOMAIN blobs' = {i \in DOMAIN blobs : deployment.shared \/ blobs[i].at # p}
      /\ \A i \in DOMAIN blobs' : blobs'[i] = blobs[i]
      /\ made' = made
  BY DEF Crash
<1>2. StoreOK'
  BY <1>1 DEF TypeOK, StoreOK
<1>3. PayloadsKept
  BY <1>1 DEF PayloadsKept, StandsFor
<1> QED BY <1>2, <1>3

-----------------------------------------------------------------------------
(***************************************************************************)
(* Steps.                                                                  *)
(***************************************************************************)

\* What the steps of an execution, and its process, leave of the rest.
LEMMA RestKept ==
  ASSUME IInv, UNCHANGED <<deployment, policy, act, answered, got>>, PayloadsKept
  PROVE  /\ offered' \in {offered, None} => InputStands'
         /\ ResultStands' /\ AttemptsOK'
<1>1. offered' \in {offered, None} => InputStands'
  BY DEF IInv, InputStands, PayloadsKept
<1>2. ResultStands'
  BY DEF IInv, ResultStands, PayloadsKept
<1>3. AttemptsOK'
  BY DEF IInv, AttemptsOK, Retried
<1> QED BY <1>1, <1>2, <1>3

\* An execution that the step leaves alone, or ends.
LEMMA ExecutionKept ==
  ASSUME IInv, NEW k \in Attempt, UNCHANGED <<deployment, policy>>, PayloadsKept,
         act.status # "none" => act'.status # "none",
         (run'[k] = run[k] /\ lists'[k] = lists[k]) \/ run'[k] = NoExecution
  PROVE  ExecutionOK(k)'
<1>1. CASE run'[k] = NoExecution
  BY <1>1 DEF ExecutionOK, NoExecution
<1>2. CASE run'[k] = run[k] /\ lists'[k] = lists[k]
  <2>1. ExecutionOK(k)
    BY DEF IInv
  <2> QED BY <1>2, <2>1 DEF ExecutionOK, PayloadsKept, NonRetryable
<1> QED BY <1>1, <1>2

\* A step of one execution.
LEMMA ExecutionStep ==
  ASSUME IInv, NEW k \in Attempt,
         UNCHANGED <<setting, up, offered, server, got, crashes>>,
         StoreOK', PayloadsKept,
         NEW e \in Execution, run' = [run EXCEPT ![k] = e],
         NEW l \in Seq(Attempt), lists' = [lists EXCEPT ![k] = l],
         ExecutionOK(k)'
  PROVE  IInv'
<1>1. UNCHANGED <<deployment, policy, act, answered>> /\ TypeOK
  BY DEF setting, server, IInv
<1>2. run' \in [Attempt -> Execution] /\ lists' \in [Attempt -> Seq(Attempt)]
  BY <1>1 DEF TypeOK
<1>3. TypeOK'
  BY <1>1, <1>2 DEF TypeOK, StoreOK
<1>4. \A j \in Attempt : j # k => run'[j] = run[j] /\ lists'[j] = lists[j]
  BY <1>1 DEF TypeOK
<1>5. \A j \in Attempt : ExecutionOK(j)'
  BY <1>1, <1>4, ExecutionKept
<1> QED BY <1>1, <1>3, <1>5, RestKept DEF IInv

\* The node is given what its input stands for, and a list that is empty.
LEMMA StartNodeStep ==
  ASSUME IInv, NEW k \in Attempt, StartNode(k)
  PROVE  IInv'
<1>1. TypeOK /\ ExecutionOK(k) /\ run[k].stage = "started" /\ run[k] \in Execution
  BY DEF StartNode, IInv, TypeOK
<1>2. PICK v \in Decode(run[k].at, act.input) :
        run' = [run EXCEPT ![k].stage = "running", ![k].input = v]
  BY DEF StartNode
<1>3. v = Input
  BY <1>1, DecodeReads DEF IInv, InputStands, ExecutionOK
<1> DEFINE e == [run[k] EXCEPT !.stage = "running", !.input = Input]
<1>4. run' = [run EXCEPT ![k] = e] /\ e \in Execution
  BY <1>1, <1>2, <1>3 DEF Execution, Content, TypeOK
<1>5. lists' = [lists EXCEPT ![k] = <<>>] /\ <<>> \in Seq(Attempt)
  BY EmptySeq DEF StartNode, ListOf
<1>6. run'[k] = e /\ lists'[k] = <<>> /\ UNCHANGED <<act, blobs, made, deployment, policy>>
  BY <1>1, <1>4, <1>5 DEF StartNode, TypeOK, server, store, setting
<1>7. ExecutionOK(k)'
  BY <1>1, <1>6 DEF ExecutionOK
<1>8. StoreOK' /\ PayloadsKept
  BY <1>1, <1>6 DEF TypeOK, StoreOK, PayloadsKept
<1> HIDE DEF e
<1> QED BY <1>4, <1>5, <1>7, <1>8, ExecutionStep DEF StartNode

\* The input cannot be decoded: the attempt fails with an exception that is tried again.
LEMMA RefuseInputStep ==
  ASSUME IInv, NEW k \in Attempt, RefuseInput(k)
  PROVE  IInv'
<1>1. TypeOK /\ ExecutionOK(k) /\ run[k].stage = "started" /\ run[k] \in Execution
  BY DEF RefuseInput, IInv, TypeOK
<1> DEFINE e == [run[k] EXCEPT !.stage = "raised", !.error = "transient"]
<1>2. run' = [run EXCEPT ![k] = e] /\ e \in Execution
  BY <1>1 DEF RefuseInput, Execution, Error, TypeOK
<1>3. /\ lists' = [lists EXCEPT ![k] = lists[k]] /\ lists[k] \in Seq(Attempt)
      /\ run'[k] = e /\ UNCHANGED <<lists, act, blobs, made, deployment, policy>>
  BY <1>1, <1>2 DEF RefuseInput, TypeOK, server, store, setting
<1>4. ExecutionOK(k)'
  BY <1>1, <1>3 DEF ExecutionOK, Error, NonRetryable
<1>5. StoreOK' /\ PayloadsKept
  BY <1>1, <1>3 DEF TypeOK, StoreOK, PayloadsKept
<1> HIDE DEF e
<1> QED BY <1>2, <1>3, <1>4, <1>5, ExecutionStep DEF RefuseInput

\* A request goes to the list of the execution that makes it.
LEMMA RequestStep ==
  ASSUME IInv, NEW k \in Attempt, Request(k)
  PROVE  IInv'
<1>1. /\ TypeOK /\ ExecutionOK(k) /\ run[k].stage = "running" /\ run[k] \in Execution
      /\ lists[k] \in Seq(Attempt)
  BY DEF Request, IInv, TypeOK
<1> DEFINE l == Append(lists[k], k)
<1>2. /\ l \in Seq(Attempt) /\ Len(l) = Len(lists[k]) + 1
      /\ \A i \in 1..Len(lists[k]) : l[i] = lists[k][i]
      /\ l[Len(lists[k]) + 1] = k
      /\ Len(lists[k]) \in Nat
  BY <1>1, AppendProperties
<1>3. /\ lists' = [lists EXCEPT ![k] = l] /\ run' = [run EXCEPT ![k] = run[k]]
      /\ UNCHANGED <<run, act, blobs, made, deployment, policy>>
  BY <1>1 DEF Request, ListOf, TypeOK, server, store, setting
<1>4. lists'[k] = l
  BY <1>1, <1>3 DEF TypeOK
<1> HIDE DEF l
<1>5. \A i \in 1..Len(l) : l[i] = k
  BY <1>1, <1>2 DEF ExecutionOK
<1>6. ExecutionOK(k)'
  BY <1>1, <1>3, <1>4, <1>5 DEF ExecutionOK
<1>7. StoreOK' /\ PayloadsKept
  BY <1>1, <1>3 DEF TypeOK, StoreOK, PayloadsKept
<1> QED BY <1>1, <1>2, <1>3, <1>6, <1>7, ExecutionStep DEF Request

\* The node returns its list of requests, is interrupted, or raises.
LEMMA NodeEndsStep ==
  ASSUME IInv, NEW k \in Attempt, NodeEnds(k)
  PROVE  IInv'
<1>1. /\ TypeOK /\ ExecutionOK(k) /\ run[k].stage = "running" /\ run[k] \in Execution
      /\ lists[k] \in Seq(Attempt) /\ UNCHANGED <<lists, act, blobs, made, deployment, policy>>
  BY DEF NodeEnds, IInv, TypeOK, server, store, setting
<1>2. StoreOK' /\ PayloadsKept
  BY <1>1 DEF TypeOK, StoreOK, PayloadsKept
<1>3. lists' = [lists EXCEPT ![k] = lists[k]]
  BY <1>1 DEF TypeOK
<1>4. ASSUME NEW kind \in {"value", "interrupt"}, NEW r \in {lists[k], <<>>},
             run' = [run EXCEPT ![k].stage = "encoding",
                                ![k].output = [by |-> k, kind |-> kind, requests |-> r]]
      PROVE  IInv'
  <2> DEFINE out == [by |-> k, kind |-> kind, requests |-> r]
             e == [run[k] EXCEPT !.stage = "encoding", !.output = out]
  <2>1. out \in Output /\ \A i \in 1..Len(out.requests) : out.requests[i] = k
    <3>1. r \in Seq(Attempt) /\ \A i \in 1..Len(r) : r[i] = k
      <4>1. CASE r = lists[k]
        BY <1>1, <4>1 DEF ExecutionOK
      <4>2. CASE r = <<>>
        BY <4>2
      <4> QED BY <4>1, <4>2
    <3> QED BY <3>1 DEF Output
  <2> HIDE DEF out
  <2>2. run' = [run EXCEPT ![k] = e] /\ e \in Execution /\ run'[k] = e
    BY <1>1, <1>4, <2>1 DEF Execution, Content, TypeOK, out
  <2>3. ExecutionOK(k)'
    BY <1>1, <2>1, <2>2 DEF ExecutionOK
  <2> HIDE DEF e
  <2> QED BY <1>1, <1>2, <1>3, <2>2, <2>3, ExecutionStep DEF NodeEnds
<1>5. ASSUME NEW x \in Error, Raise(k, x) PROVE IInv'
  <2> DEFINE e == [run[k] EXCEPT !.stage = "raised", !.error = x, !.final = NonRetryable(x)]
  <2>1. NonRetryable(x) \in BOOLEAN
    BY DEF NonRetryable
  <2>2. run' = [run EXCEPT ![k] = e] /\ e \in Execution /\ run'[k] = e
    BY <1>1, <1>5, <2>1 DEF Raise, Execution, TypeOK
  <2>3. ExecutionOK(k)'
    <3>1. /\ e.stage = "raised" /\ e.error = x /\ e.final = NonRetryable(x)
          /\ e.at = run[k].at /\ e.output = run[k].output
      BY <1>1 DEF Execution
    <3>2. NonRetryable(x)' = NonRetryable(x)
      BY <1>1 DEF NonRetryable
    <3> HIDE DEF e
    <3>3. NonRetryable(run[k].error)' => run'[k].final
      BY <2>2, <3>1, <3>2
    <3> QED BY <1>1, <2>2, <3>1, <3>3 DEF ExecutionOK
  <2> HIDE DEF e
  <2> QED BY <1>1, <1>2, <1>3, <2>2, <2>3, ExecutionStep DEF NodeEnds
<1> QED BY <1>4, <1>5 DEF NodeEnds, Return, Interrupt, ListOf

\* The output is encoded, and stored if it is large, before it is reported.
LEMMA EncodeOutputStep ==
  ASSUME IInv, NEW k \in Attempt, EncodeOutput(k)
  PROVE  IInv'
<1>1. /\ TypeOK /\ ExecutionOK(k) /\ run[k].stage = "encoding" /\ run[k] \in Execution
      /\ lists[k] \in Seq(Attempt) /\ UNCHANGED <<lists, act, deployment, policy>>
  BY DEF EncodeOutput, IInv, TypeOK, server, setting
<1>2. /\ run[k].at \in Process /\ run[k].output \in Output /\ run[k].output \in Content
  BY <1>1 DEF ExecutionOK, Content
<1>3. PICK large \in BOOLEAN :
        /\ Store(run[k].at, run[k].output, large)
        /\ run' = [run EXCEPT ![k].stage = "encoded",
                              ![k].payload = Encode(run[k].at, run[k].output, large)]
  BY DEF EncodeOutput
<1> DEFINE pay == Encode(run[k].at, run[k].output, large)
           e == [run[k] EXCEPT !.stage = "encoded", !.payload = pay]
<1>4. /\ StoreOK' /\ PayloadsKept
      /\ StandsFor(blobs', made', deployment.shared, pay, run[k].output)
  BY <1>1, <1>2, <1>3, EncodeStands
<1>5. pay \in Payload(Content)
  BY <1>4 DEF StandsFor
<1> HIDE DEF pay
<1>6. run' = [run EXCEPT ![k] = e] /\ e \in Execution /\ run'[k] = e
  BY <1>1, <1>3, <1>5 DEF Execution, TypeOK, pay
<1>7. ExecutionOK(k)'
  BY <1>1, <1>4, <1>6 DEF ExecutionOK
<1>8. lists' = [lists EXCEPT ![k] = lists[k]]
  BY <1>1 DEF TypeOK
<1> HIDE DEF e
<1> QED BY <1>1, <1>4, <1>6, <1>7, <1>8, ExecutionStep DEF EncodeOutput

\* The server records the end of an attempt and waits for another, or gives up.
LEMMA GiveUpRecords ==
  ASSUME IInv, act.status = "started",
         NEW outcome \in {"timeout"} \cup Error, NEW final \in BOOLEAN,
         outcome = "permanent" /\ policy.retryOn = "predicate" => final,
         GiveUp(act.attempt, outcome, final), UNCHANGED policy
  PROVE  /\ act' \in Activity /\ answered' \in [Attempt -> Outcome]
         /\ act'.status \in {"failed", "scheduled"}
         /\ act'.input = act.input /\ act'.result = act.result
         /\ AttemptsOK'
<1>1. /\ TypeOK /\ act \in Activity /\ act.attempt \in Attempt /\ AttemptsOK
  BY DEF IInv, AttemptsOK, TypeOK
<1>2. /\ act' \in {[act EXCEPT !.status = "failed"], [act EXCEPT !.status = "scheduled"]}
      /\ final => act'.status = "failed"
      /\ answered' = [answered EXCEPT ![act.attempt] = outcome]
  BY <1>1 DEF GiveUp, Activity
<1>3. /\ act' \in Activity /\ act'.status \in {"failed", "scheduled"}
      /\ act'.input = act.input /\ act'.result = act.result /\ act'.attempt = act.attempt
  BY <1>1, <1>2 DEF Activity
<1>4. answered' \in [Attempt -> Outcome]
  BY <1>1, <1>2 DEF TypeOK, Outcome, Error
<1>5. /\ answered'[act.attempt] = outcome
      /\ \A k \in Attempt : k # act.attempt => answered'[k] = answered[k]
  BY <1>1, <1>2 DEF TypeOK
<1>6. \A k \in Attempt : k < act'.attempt => Retried(k)'
  BY <1>1, <1>3, <1>5 DEF AttemptsOK, Retried, Attempt
<1>7. act'.status = "scheduled" => Retried(act.attempt)'
  BY <1>2, <1>3, <1>5 DEF Retried, Error
<1>8. act'.status = "scheduled" => \A k \in Attempt : k = act'.attempt => Retried(k)'
  BY <1>3, <1>7
<1>9. AttemptsOK'
  BY <1>3, <1>6, <1>8 DEF AttemptsOK
<1> QED BY <1>3, <1>4, <1>9

\* A step of the server about an activity that it does not complete.
LEMMA ServerStep ==
  ASSUME IInv, UNCHANGED <<setting, up, offered, lists, store, got, crashes>>,
         act' \in Activity, answered' \in [Attempt -> Outcome],
         act.status # "none", act'.status \notin {"none", "completed"},
         act'.input = act.input, act.status # "completed", act'.result = act.result,
         AttemptsOK', run' \in [Attempt -> Execution], \A k \in Attempt : ExecutionOK(k)'
  PROVE  IInv'
<1>1. UNCHANGED <<deployment, policy, blobs, made>> /\ TypeOK
  BY DEF setting, store, IInv
<1>2. TypeOK'
  BY <1>1 DEF TypeOK
<1>3. InputStands'
  BY <1>1 DEF IInv, InputStands
<1>4. ResultStands'
  BY <1>1 DEF IInv, ResultStands
<1> QED BY <1>2, <1>3, <1>4 DEF IInv

\* A timeout: the execution is not told, and goes on.
LEMMA TimeOutStep ==
  ASSUME IInv, TimeOut
  PROVE  IInv'
<1>1. /\ act.status = "started" /\ GiveUp(act.attempt, "timeout", FALSE)
      /\ UNCHANGED <<deployment, policy, run, lists, blobs, made>> /\ TypeOK
  BY DEF TimeOut, IInv, setting, worker, store
<1>2. /\ act' \in Activity /\ answered' \in [Attempt -> Outcome]
      /\ act'.status \in {"failed", "scheduled"}
      /\ act'.input = act.input /\ act'.result = act.result
      /\ AttemptsOK'
  BY <1>1, GiveUpRecords
<1>3. \A k \in Attempt : ExecutionOK(k)'
  BY <1>1, <1>2, ExecutionKept DEF PayloadsKept
<1> QED BY <1>1, <1>2, <1>3, ServerStep DEF TimeOut, TypeOK, worker

\* The deadline of the whole activity.
LEMMA ExpireStep ==
  ASSUME IInv, Expire
  PROVE  IInv'
<1>1. /\ act.status \in {"scheduled", "started"} /\ act' = [act EXCEPT !.status = "failed"]
      /\ UNCHANGED <<deployment, policy, run, lists, blobs, made, answered>> /\ TypeOK
      /\ act \in Activity
  BY DEF Expire, IInv, setting, worker, store, TypeOK
<1>2. /\ act' \in Activity /\ act'.status = "failed" /\ act'.attempt = act.attempt
      /\ act'.input = act.input /\ act'.result = act.result
  BY <1>1 DEF Activity
<1>3. AttemptsOK'
  BY <1>1, <1>2 DEF IInv, AttemptsOK, Retried
<1>4. \A k \in Attempt : ExecutionOK(k)'
  BY <1>1, <1>2, ExecutionKept DEF PayloadsKept
<1> QED BY <1>1, <1>2, <1>3, <1>4, ServerStep DEF Expire, TypeOK, worker

\* The next attempt is given to a process.
LEMMA StartAttemptStep ==
  ASSUME IInv, NEW p \in Process, StartAttempt(p)
  PROVE  IInv'
<1> DEFINE n == act.attempt + 1
           e == [NoExecution EXCEPT !.stage = "started", !.at = p]
<1>1. /\ act.status = "scheduled" /\ act.attempt < MaxAttempts
      /\ act' = [act EXCEPT !.status = "started", !.attempt = n]
      /\ run' = [run EXCEPT ![n] = e]
      /\ UNCHANGED <<deployment, policy, lists, blobs, made, answered>> /\ TypeOK
      /\ act \in Activity
  BY DEF StartAttempt, IInv, setting, store, TypeOK
<1>2. n \in Attempt /\ act.attempt \in Nat
  BY <1>1, ActivityAssumption DEF Activity, Attempt
<1>3. /\ act' \in Activity /\ act'.status = "started" /\ act'.attempt = n
      /\ act'.input = act.input /\ act'.result = act.result
  <2>1. n \in 0..MaxAttempts
    BY <1>2, ActivityAssumption DEF Attempt
  <2> HIDE DEF n
  <2> QED BY <1>1, <2>1 DEF Activity
<1>4. AttemptsOK'
  <2>1. \A k \in Attempt : k < n => k < act.attempt \/ k = act.attempt
    BY <1>2 DEF Attempt
  <2>2. \A k \in Attempt : k < n => Retried(k)
    BY <1>1, <2>1 DEF IInv, AttemptsOK
  <2> QED BY <1>1, <1>2, <1>3, <2>2 DEF AttemptsOK, Retried
<1>5. e \in Execution
  BY DEF Execution, NoExecution
<1>6. \A k \in Attempt : ExecutionOK(k)'
  <2> TAKE k \in Attempt
  <2>1. CASE k = n
    <3>1. run'[k] = e
      BY <1>1, <1>2, <2>1 DEF TypeOK
    <3> QED BY <1>3, <3>1 DEF ExecutionOK, NoExecution
  <2>2. CASE k # n
    <3>1. run'[k] = run[k] /\ lists'[k] = lists[k] /\ PayloadsKept
      BY <1>1, <2>2 DEF TypeOK, PayloadsKept
    <3> QED BY <1>1, <1>3, <3>1, ExecutionKept
  <2> QED BY <2>1, <2>2
<1>7. run' \in [Attempt -> Execution]
  BY <1>1, <1>5 DEF TypeOK
<1> HIDE DEF n, e
<1> QED BY <1>1, <1>3, <1>4, <1>6, <1>7, ServerStep DEF StartAttempt, TypeOK

\* What an execution sends: the server takes it only if it waits for that attempt.
LEMMA ReportStep ==
  ASSUME IInv, NEW k \in Attempt, Report(k)
  PROVE  IInv'
<1>1. /\ run[k].stage \in {"encoded", "raised"} /\ run' = [run EXCEPT ![k] = NoExecution]
      /\ UNCHANGED <<deployment, policy, lists, blobs, made>>
      /\ TypeOK /\ ExecutionOK(k) /\ act \in Activity
  BY DEF Report, IInv, setting, store, TypeOK
<1>2. NoExecution \in Execution
  BY DEF NoExecution, Execution
<1>3. run' \in [Attempt -> Execution] /\ PayloadsKept
  BY <1>1, <1>2 DEF TypeOK, PayloadsKept
<1>4. act'.status # "none" => \A j \in Attempt : ExecutionOK(j)'
  <2>1. \A j \in Attempt : run'[j] = IF j = k THEN NoExecution ELSE run[j]
    BY <1>1 DEF TypeOK
  <2> QED BY <1>1, <1>3, <2>1, ExecutionKept
<1>5. act.status # "none"
  BY <1>1 DEF ExecutionOK
<1>6. CASE ~Current(k) /\ UNCHANGED server
  <2>1. UNCHANGED <<act, answered>>
    BY <1>6 DEF server
  <2>2. TypeOK'
    BY <1>1, <1>3, <2>1 DEF Report, TypeOK, setting, store
  <2>3. \A j \in Attempt : ExecutionOK(j)'
    BY <1>4, <1>5, <2>1
  <2> QED BY <1>1, <1>3, <2>1, <2>2, <2>3, RestKept DEF Report, IInv
<1>7. CASE /\ Current(k) /\ run[k].stage = "encoded"
           /\ act' = [act EXCEPT !.status = "completed", !.result = run[k].payload]
           /\ answered' = [answered EXCEPT ![k] = run[k].output.kind]
  <2> DEFINE v == run[k].output
  <2>1. /\ v \in Output /\ StandsFor(blobs, made, deployment.shared, run[k].payload, v)
        /\ run[k].payload \in Payload(Content)
    BY <1>1, <1>7 DEF ExecutionOK, StandsFor
  <2>2. /\ act' \in Activity /\ act'.status = "completed" /\ act'.result = run[k].payload
        /\ act'.input = act.input /\ act'.attempt = act.attempt
    BY <1>1, <1>7, <2>1 DEF Activity
  <2>3. v.kind \in Outcome
    BY <2>1 DEF Output, Outcome
  <2>4. /\ answered' \in [Attempt -> Outcome]
        /\ \A j \in Attempt : j # k => answered'[j] = answered[j]
    BY <1>1, <1>7, <2>3 DEF TypeOK
  <2>5. TypeOK'
    BY <1>1, <1>3, <2>2, <2>4 DEF Report, TypeOK, setting, store
  <2>6. act.attempt = k /\ act.status = "started" /\ act.attempt \in Nat
    BY <1>1, <1>7 DEF Current, Activity
  <2>7. AttemptsOK'
    BY <1>1, <2>2, <2>4, <2>6 DEF IInv, AttemptsOK, Retried, Attempt
  <2>8. InputStands'
    BY <1>1, <2>2, <2>6 DEF Report, IInv, InputStands
  <2>9. ResultStands'
    <3>1. got' = None
      BY <2>6 DEF Report, IInv, ResultStands
    <3> HIDE DEF v
    <3> QED BY <1>1, <2>1, <2>2, <3>1 DEF ResultStands
  <2> QED BY <1>4, <2>2, <2>5, <2>7, <2>8, <2>9 DEF IInv
<1>8. CASE Current(k) /\ run[k].stage = "raised" /\ GiveUp(k, run[k].error, run[k].final)
  <2>1. act.status = "started" /\ act.attempt = k /\ run[k] \in Execution
    BY <1>1, <1>8 DEF Current, TypeOK
  <2>2. /\ run[k].error \in Error /\ run[k].final \in BOOLEAN
        /\ run[k].error = "permanent" /\ policy.retryOn = "predicate" => run[k].final
    BY <1>1, <1>8, <2>1 DEF ExecutionOK, NonRetryable, Execution
  <2>3. /\ act' \in Activity /\ answered' \in [Attempt -> Outcome]
        /\ act'.status \in {"failed", "scheduled"}
        /\ act'.input = act.input /\ act'.result = act.result
        /\ AttemptsOK'
    BY <1>1, <1>8, <2>1, <2>2, GiveUpRecords
  <2> QED BY <1>3, <1>4, <1>5, <2>1, <2>3, ServerStep DEF Report
<1> QED BY <1>6, <1>7, <1>8 DEF Report

\* The workflow encodes the node's input.
LEMMA EncodeInputStep ==
  ASSUME IInv, NEW p \in Process, EncodeInput(p)
  PROVE  IInv'
<1>1. /\ act.status = "none" /\ TypeOK
      /\ UNCHANGED <<deployment, policy, up, act, answered, run, lists, got, crashes>>
  BY DEF EncodeInput, IInv, setting, server, worker
<1>2. PICK large \in BOOLEAN :
        /\ Store(p, Input, large)
        /\ offered' = [at |-> p, payload |-> Encode(p, Input, large)]
  BY DEF EncodeInput
<1> DEFINE pay == Encode(p, Input, large)
<1>3. Input \in Content
  BY DEF Content
<1>4. /\ StoreOK' /\ PayloadsKept
      /\ StandsFor(blobs', made', deployment.shared, pay, Input)
  BY <1>1, <1>2, <1>3, EncodeStands
<1>5. pay \in Payload(Content)
  BY <1>4 DEF StandsFor
<1> HIDE DEF pay
<1>6. offered' \in [at : Process, payload : Payload(Content)] /\ offered'.payload = pay
  BY <1>2, <1>5 DEF pay
<1>7. TypeOK'
  BY <1>1, <1>4, <1>6 DEF TypeOK, StoreOK
<1>8. InputStands'
  BY <1>1, <1>4, <1>6 DEF IInv, InputStands
<1>9. \A k \in Attempt : ExecutionOK(k)'
  BY <1>1, <1>4, ExecutionKept
<1> QED BY <1>1, <1>4, <1>7, <1>8, <1>9, RestKept DEF IInv

\* What it offered becomes the activity's input.
LEMMA ScheduleStep ==
  ASSUME IInv, Schedule
  PROVE  IInv'
<1>1. /\ offered # None /\ offered' = None /\ act.status = "none" /\ TypeOK
      /\ act' = [act EXCEPT !.status = "scheduled", !.input = offered.payload]
      /\ UNCHANGED <<deployment, policy, up, answered, run, lists, blobs, made, got, crashes>>
      /\ StandsFor(blobs, made, deployment.shared, offered.payload, Input)
      /\ act \in Activity
  BY DEF Schedule, IInv, InputStands, TypeOK, setting, worker, store
<1>2. offered.payload \in Payload(Content)
  BY <1>1 DEF StandsFor
<1>3. /\ act' \in Activity /\ act'.status = "scheduled" /\ act'.input = offered.payload
      /\ act'.result = act.result /\ act'.attempt = act.attempt
  BY <1>1, <1>2 DEF Activity
<1>4. TypeOK'
  BY <1>1, <1>3 DEF TypeOK
<1>5. InputStands' /\ ResultStands'
  BY <1>1, <1>3 DEF IInv, InputStands, ResultStands
<1>6. \A k \in Attempt : ExecutionOK(k)'
  BY <1>1, <1>3, ExecutionKept DEF PayloadsKept
<1>7. AttemptsOK'
  BY <1>1, <1>3 DEF IInv, AttemptsOK, Attempt
<1> QED BY <1>4, <1>5, <1>6, <1>7 DEF IInv

\* The workflow reads the result.
LEMMA ReadResultStep ==
  ASSUME IInv, NEW p \in Process, ReadResult(p)
  PROVE  IInv' /\ (got # None => got' = got)
<1>1. /\ act.status = "completed" /\ TypeOK
      /\ UNCHANGED <<deployment, policy, up, offered, act, answered, run, lists, blobs, made,
                     crashes>>
  BY DEF ReadResult, IInv, setting, server, worker, store
<1>2. PICK v \in Output : /\ StandsFor(blobs, made, deployment.shared, act.result, v)
                         /\ got \in {None, v}
  BY <1>1 DEF IInv, ResultStands
<1>3. got' = v
  BY <1>2, DecodeReads DEF ReadResult
<1>4. TypeOK'
  BY <1>1, <1>3 DEF TypeOK
<1>5. ResultStands'
  BY <1>1, <1>2, <1>3 DEF ResultStands
<1>6. InputStands' /\ AttemptsOK'
  BY <1>1 DEF IInv, InputStands, AttemptsOK, Retried
<1>7. \A k \in Attempt : ExecutionOK(k)'
  BY <1>1, ExecutionKept DEF PayloadsKept
<1> QED BY <1>2, <1>3, <1>4, <1>5, <1>6, <1>7 DEF IInv

\* A crash ends the executions of its process, and its store if that is its own.
LEMMA CrashStep ==
  ASSUME IInv, NEW p \in Process, Crash(p)
  PROVE  IInv'
<1>1. /\ TypeOK /\ up' = up \ {p} /\ crashes < MaxCrashes /\ crashes' = crashes + 1
      /\ run' = [k \in Attempt |-> IF run[k].at = p THEN NoExecution ELSE run[k]]
      /\ offered' \in {offered, None}
      /\ UNCHANGED <<deployment, policy, act, answered, lists, got>>
  BY DEF Crash, IInv, setting, server
<1>2. StoreOK' /\ PayloadsKept
  BY <1>1, CrashKeepsPayloads
<1>3. NoExecution \in Execution
  BY DEF NoExecution, Execution
<1>4. run' \in [Attempt -> Execution] /\ crashes' \in 0..MaxCrashes
  BY <1>1, <1>3, ActivityAssumption DEF TypeOK
<1>5. TypeOK'
  BY <1>1, <1>2, <1>4 DEF TypeOK, StoreOK
<1>6. \A k \in Attempt : ExecutionOK(k)'
  BY <1>1, <1>2, ExecutionKept
<1> QED BY <1>1, <1>2, <1>5, <1>6, RestKept DEF IInv

LEMMA StepInvariant ==
  ASSUME IInv, [Next]_vars
  PROVE  IInv'
<1>1. ASSUME UNCHANGED <<setting, offered, server, worker, store, got, crashes>>,
             up' \subseteq Process
      PROVE  IInv'
  <2>1. UNCHANGED <<deployment, policy, offered, act, answered, run, lists, blobs, made, got,
                    crashes>> /\ TypeOK
    BY <1>1 DEF setting, server, worker, store, IInv
  <2>2. PayloadsKept /\ TypeOK'
    BY <1>1, <2>1 DEF PayloadsKept, TypeOK
  <2>3. \A k \in Attempt : ExecutionOK(k)'
    BY <2>1, <2>2, ExecutionKept
  <2> QED BY <2>1, <2>2, <2>3, RestKept DEF IInv
<1>2. ASSUME NEW p \in Process, Restart(p) PROVE IInv'
  BY <1>1, <1>2 DEF Restart, IInv, TypeOK
<1>3. CASE UNCHANGED vars
  BY <1>1, <1>3 DEF vars, IInv, TypeOK
<1> QED BY <1>2, <1>3, EncodeInputStep, ReadResultStep, StartAttemptStep, CrashStep, ScheduleStep,
           TimeOutStep, ExpireStep, StartNodeStep, RefuseInputStep, NodeEndsStep,
           EncodeOutputStep, ReportStep, RequestStep
        DEF Next, Work, Stay

\* Nothing has been encoded, scheduled or started.
LEMMA InitInvariant == Init => IInv
<1> SUFFICES ASSUME Init PROVE IInv
  OBVIOUS
<1>1. act \in Activity /\ act.status = "none" /\ act.attempt = 0 /\ act.input = None
      /\ act.result = None
  BY ActivityAssumption DEF Init, Activity
<1>2. NoExecution \in Execution /\ <<>> \in Seq(Attempt) /\ "none" \in Outcome
  BY EmptySeq DEF NoExecution, Execution, Outcome
<1>3. DOMAIN blobs = {} /\ made = 0 /\ crashes \in 0..MaxCrashes
  BY ActivityAssumption DEF Init
<1>4. TypeOK
  BY <1>1, <1>2, <1>3 DEF Init, TypeOK
<1>5. InputStands /\ ResultStands
  BY <1>1 DEF Init, InputStands, ResultStands
<1>6. \A k \in Attempt : ExecutionOK(k)
  BY DEF Init, ExecutionOK, NoExecution
<1>7. AttemptsOK
  BY <1>1 DEF AttemptsOK, Attempt
<1> QED BY <1>4, <1>5, <1>6, <1>7 DEF IInv

-----------------------------------------------------------------------------
\* The inductive invariant holds for every deployment, policy and bound.
THEOREM InvariantHolds == Spec => []IInv
<1>1. Init => IInv
  BY InitInvariant
<1>2. IInv /\ [Next]_vars => IInv'
  BY StepInvariant
<1> QED BY <1>1, <1>2, PTL DEF Spec

\* The records of the server, of the executions and of the stores are what they are
\* meant to be.
THEOREM TypeCorrect == Spec => []TypeOK
<1>1. IInv => TypeOK
  BY DEF IInv
<1> QED BY <1>1, InvariantHolds, PTL

\* Whatever the codecs and keys of the processes, and whatever became of the blobs, node
\* code runs on the input the workflow passed or not at all.
THEOREM InputCorrect == Spec => []NodesSeeTheirInput
<1>1. IInv => NodesSeeTheirInput
  BY DEF IInv, ExecutionOK, NodesSeeTheirInput
<1> QED BY <1>1, InvariantHolds, PTL

\* An output carries the requests of the execution that returns it, and no others.
THEOREM RequestsCorrect == Spec => []RequestsAreOfOneExecution
<1>1. IInv => RequestsAreOfOneExecution
  BY DEF IInv, ExecutionOK, RequestsAreOfOneExecution
<1> QED BY <1>1, InvariantHolds, PTL

\* What the server recorded can be fetched from a shared store for good.
THEOREM StoreCorrect == Spec => []NoDanglingReference
<1>1. IInv => NoDanglingReference
  BY DEF IInv, InputStands, ResultStands, StandsFor, NoDanglingReference, Recorded
<1> QED BY <1>1, InvariantHolds, PTL

\* No attempt follows one that returned, was interrupted, or failed with an exception that a
\* predicate refuses.  It says nothing of a retry_on that the activity does not find or ask:
\* with one, what it refuses is retried.
THEOREM AttemptsCorrect == Spec => []NoAttemptAfterTheLast
<1>1. IInv => NoAttemptAfterTheLast
  BY DEF IInv, AttemptsOK, Retried, NoAttemptAfterTheLast
<1> QED BY <1>1, InvariantHolds, PTL

\* Every replay reads the result that was read first.
THEOREM ReplaysCorrect == Spec => ReplaysReadTheSame
<1>1. IInv /\ [Next]_vars => [got # None => got' = got]_vars
  <2> SUFFICES ASSUME IInv, Next PROVE got # None => got' = got
    OBVIOUS
  <2>1. ASSUME NEW p \in Process, ReadResult(p) PROVE got # None => got' = got
    BY <2>1, ReadResultStep
  <2> QED BY <2>1 DEF Next, Work, EncodeInput, StartAttempt, Crash, Restart, Schedule, TimeOut,
                      Expire, StartNode, RefuseInput, NodeEnds, EncodeOutput, Report, Request,
                      Stay, vars
<1> QED BY <1>1, InvariantHolds, PTL DEF Spec, ReplaysReadTheSame
=============================================================================
