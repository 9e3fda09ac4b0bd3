-------------------------------- MODULE Client --------------------------------
(***************************************************************************)
(* A client that streams a LangGraphWorkflow and reads its state, composed *)
(* with the workflow whose get_stream_buffer and get_current_state queries *)
(* it sends: PollingStreamBackend of streaming.py, as astream uses it;     *)
(* get_state and get_state_history of graph.py, aget_tuple and alist of    *)
(* checkpoint.py.                                                          *)
(*                                                                         *)
(* The handle names the workflow, not a run, so that after a               *)
(* continue-as-new a query reads the new run's buffer, with a cursor into  *)
(* the old one's, and its state.  The last superstep of a run is emitted   *)
(* in the very segment that starts the new run: no query can come between. *)
(***************************************************************************)
EXTENDS LangGraphWorkflow

VARIABLES
  polling,     \* poll_stream is in its loop
  cursor,      \* cursor
  received,    \* what it has yielded so far
  seen         \* what the last read of the state returned

poller == <<polling, cursor, received>>

\* get_current_state: what clients get to see of the state.
GetCurrentState == [val |-> ck.val, ver |-> ck.ver, step |-> step]

\* Before the first read.
Unread == [val |-> EmptyCheckpoint.val, ver |-> EmptyCheckpoint.ver, step |-> 0]

InitClient ==
  /\ Init
  /\ polling = TRUE /\ cursor = 0 /\ received = <<>>
  /\ seen = Unread

\* A workflow that completed or failed still answers queries, one whose workflow task
\* fails on every try does not; a query that finds a continued run waits for its first
\* workflow task, which builds the channels.
Answerable == pc # "stuck" /\ (pc = "pending" => ~input.restored)

\* Bug: the slice leaves out its last event.
BugSliceWithoutLast(c) == SubSeq(stream, c + 1, Len(stream) - 1)

\* get_stream_buffer: the events from the cursor on, and the next cursor.
EventsFrom(c) == SubSeq(stream, c + 1, Len(stream))

\* Bugs: the cursor is one event ahead, or stays where it was when the stream was short.
BugCursorAhead(c) == Len(stream) + 1
BugCursorKept(c) == IF Len(stream) > 1 THEN Len(stream) ELSE c

NextCursor(c) == Len(stream)

\* One round of the loop.
Poll ==
  /\ polling /\ Answerable
  /\ received' = received \o EventsFrom(cursor)
  /\ cursor' = NextCursor(cursor)
  /\ UNCHANGED <<polling, seen, vars>>

\* A query that raises, for whatever reason, ends the loop.
QueryRaises ==
  /\ polling
  /\ polling' = FALSE
  /\ UNCHANGED <<cursor, received, seen, vars>>

\* get_state; a history is the present state alone.
GetState == Answerable /\ seen' = GetCurrentState

\* One of the four reads.  The saver keeps nothing between two of them: put, put_writes
\* and their like do nothing.
Read ==
  /\ GetState
  /\ UNCHANGED <<poller, vars>>

NextClient ==
  \/ Next /\ UNCHANGED <<poller, seen>>
  \/ Poll
  \/ QueryRaises
  \/ Read

\* The loop polls forever; that a query fails, or that the state is read, is nobody's duty.
SpecClient ==
  InitClient /\ [][NextClient]_<<vars, poller, seen>> /\ Fairness
    /\ WF_<<vars, poller, seen>>(Poll)

-----------------------------------------------------------------------------
(***************************************************************************)
(* Properties.                                                             *)
(***************************************************************************)

\* The client gets every superstep's events at most once and in order, across the
\* restarts of the buffer.
DeliveredInOrder ==
  \A i, j \in 1..Len(received) : i < j => received[i].step < received[j].step

\* Within one run, no superstep is left out once the client has got one: a cursor into
\* an older run's buffer only loses the beginning of a newer run's.
RunOf(s) == s \div Threshold
GapsOnlyAtNewRun ==
  \A i \in 1..(Len(received) - 1) :
    RunOf(received[i].step) = RunOf(received[i + 1].step) =>
      received[i + 1].step = received[i].step + 1

\* A workflow that completes or fails in its first run is streamed to the end, although
\* nobody may have polled while it ran.
FirstRunDelivered ==
  (pc \in {"closed", "failed"} /\ ~input.restored) ~> (received = stream \/ ~polling)

\* A client never reads an older state than it has read before, whatever superstep,
\* pause, update or continue-as-new lies between the reads: the step and the versions,
\* which tell it what is new, only grow, and what it saw in a reducer stays.
ReadsNeverGoBack ==
  [][/\ seen'.step >= seen.step
     /\ \A c \in Chan : seen'.ver[c] >= seen.ver[c]
     /\ \A c \in Chan : Kind[c] = "reduce" => seen.val[c] \subseteq seen'.val[c]]_seen
=============================================================================
