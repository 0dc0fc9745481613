------------------------- MODULE MCStreamTransform -------------------------
(***************************************************************************)
(* Instances of StreamTransform for TLC.                                   *)
(***************************************************************************)
EXTENDS StreamTransform

D(tools, content, finish) ==
    [role |-> FALSE, reasoning |-> FALSE, tools |-> tools,
     content |-> content, finish |-> finish]

F(index, name, args) == [index |-> index, name |-> name, args |-> args]

(* Role, reasoning, content and finish entries, the synthetic call alone,  *)
(* as a continuation, twice in one entry, beside a real call, and beside   *)
(* standard content.                                                       *)
SomeDeltas ==
    { [D(<<>>, FALSE, "none") EXCEPT !.role = TRUE, !.reasoning = TRUE],
      D(<<>>, TRUE, "none"),
      D(<<>>, TRUE, "stop"),
      D(<<>>, FALSE, "stop"),
      D(<<>>, FALSE, "tool_calls"),
      D(<<F(0, "synthetic", TRUE)>>, FALSE, "none"),
      D(<<F(0, "synthetic", FALSE)>>, TRUE, "none"),
      D(<<F(0, "none", TRUE)>>, FALSE, "none"),
      D(<<F(0, "real", TRUE), F(1, "synthetic", TRUE)>>, FALSE, "none"),
      D(<<F(0, "synthetic", TRUE), F(0, "none", TRUE)>>, FALSE, "none"),
      D(<<F(1, "real", TRUE)>>, FALSE, "none"),
      D(<<F(1, "none", TRUE)>>, FALSE, "tool_calls"),
      D(<<F(1, "none", TRUE), F(0, "none", TRUE)>>, TRUE, "none") }

NoToolIndex == -1
=============================================================================
