------------------------ MODULE MCLangGraphWorkflow ------------------------
(***************************************************************************)
(* Small graphs for LangGraphWorkflow, one per question.                   *)
(***************************************************************************)
EXTENDS LangGraphWorkflow

Does(w, s, g, k) == [writes |-> w, sends |-> s, gotos |-> g, kids |-> k]
Writes(w) == Does(w, {}, {}, 0)
Order == [__start__ |-> 0, a |-> 1, b |-> 2, j |-> 3, w |-> 4]
NoMembers == [c \in Chan |-> {}]

(***************************************************************************)
(* loop: an agent loop a -> b -> a that a reads when to leave, with a node *)
(* w triggered by a state channel (as in a Pregel graph), under updates.   *)
(* w is a subgraph: what its writers would write to "to:b" is not written. *)
(***************************************************************************)
LoopNode == {"__start__", "a", "b", "w"}
LoopChan == {"__start__", "to:a", "to:b", "log", "mode"}
LoopKind == [c \in Chan |-> CASE c = "log" -> "reduce" [] c = "mode" -> "last"
                              [] OTHER -> "ephemeral"]
LoopRank == [n \in LoopNode |-> Order[n]]
LoopTriggers == [__start__ |-> {"__start__"}, a |-> {"to:a"}, b |-> {"to:b"}, w |-> {"mode"}]
LoopBody == [__start__ |-> {Writes({"to:a", "log"})},
             a |-> {Writes({"log", "to:b"}), Writes({"log", "mode"})},
             b |-> {Writes({"log", "to:a"}), Writes({})},
             w |-> {Writes({"log", "to:b"})}]
LoopInterrupts == [n \in LoopNode |-> 0]
LoopUpdateChan == {"log", "mode"}

(***************************************************************************)
(* human: a and b run in parallel and call interrupt(), once and twice; j  *)
(* joins them.  Pauses before j and after __start__.                       *)
(***************************************************************************)
HumanNode == {"__start__", "a", "b", "j"}
HumanChan == {"__start__", "to:a", "to:b", "a+b:j", "log"}
HumanKind == [c \in Chan |-> CASE c = "log" -> "reduce" [] c = "a+b:j" -> "barrier"
                               [] OTHER -> "ephemeral"]
HumanMembers == [c \in Chan |-> IF c = "a+b:j" THEN {"a", "b"} ELSE {}]
HumanRank == [n \in HumanNode |-> Order[n]]
HumanTriggers == [__start__ |-> {"__start__"}, a |-> {"to:a"}, b |-> {"to:b"}, j |-> {"a+b:j"}]
HumanBody == [__start__ |-> {Writes({"to:a", "to:b", "log"})},
              a |-> {Writes({"log", "a+b:j"})},
              b |-> {Writes({"log", "a+b:j"})},
              j |-> {Writes({"log", "to:a"}), Writes({"log"})}]
HumanInterrupts == [n \in HumanNode |-> CASE n = "a" -> 1 [] n = "b" -> 2 [] OTHER -> 0]

\* The same graph with nobody to ask: only the join.
NoInterrupts == [n \in HumanNode |-> 0]

(***************************************************************************)
(* fan: a asks for two child workflows or fans out to w with Sends, b asks *)
(* for one, j calls interrupt(); w, which nothing triggers, may go to a    *)
(* with Command.goto, and two of them may write the same LastValue.        *)
(***************************************************************************)
FanNode == {"__start__", "a", "b", "j", "w"}
FanChan == {"__start__", "to:a", "to:b", "to:j", "log", "one"}
FanKind == [c \in Chan |-> CASE c = "log" -> "reduce" [] c = "one" -> "last"
                             [] OTHER -> "ephemeral"]
FanRank == [n \in FanNode |-> Order[n]]
FanTriggers == [__start__ |-> {"__start__"}, a |-> {"to:a"}, b |-> {"to:b"}, j |-> {"to:j"},
                w |-> {}]
FanBody == [__start__ |-> {Writes({"to:a", "to:b"}), Writes({"to:a", "to:b", "to:j"})},
            a |-> {Does({"log"}, {}, {}, 2), Does({"log"}, {<<"w", 1>>, <<"w", 2>>}, {}, 0)},
            b |-> {Does({"log"}, {}, {}, 1), Writes({"log", "to:a"})},
            j |-> {Writes({"log"})},
            w |-> {Writes({"log", "one"}), Does({"log"}, {}, {"a"}, 0)}]
FanInterrupts == [n \in FanNode |-> IF n = "j" THEN 1 ELSE 0]
=============================================================================
