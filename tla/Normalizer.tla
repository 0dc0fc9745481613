----------------------------- MODULE Normalizer -----------------------------
(***************************************************************************)
(* What the gateway makes of a whole answer of the upstream:               *)
(* NormalizeNonStreaming, internal/synthetic/normalizer.go.                *)
(*                                                                         *)
(* A choice is [content, calls, finish, message]; `message` is FALSE if it *)
(* has no message object.  A content is [from, text], from "none",         *)
(* "standard" or "transport".  A call is [name, args]; its name is "odd"   *)
(* if the entry is not a function call.                                    *)
(***************************************************************************)
EXTENDS ArgumentsRepair, FiniteSetsExt

FromTransport(contents) ==
    [from |-> "transport",
     text |-> FlattenSeq([i \in DOMAIN contents |-> contents[i].content])]

(* Of the first n calls those with one of the names, in order; of all.     *)
KeptCalls(calls, names) ==
    LET kept[n \in 0..Len(calls)] ==
            IF n = 0 THEN <<>>
            ELSE kept[n - 1] \o IF calls[n].name \in names THEN <<calls[n]>> ELSE <<>>
    IN  kept

Those(calls, names) == KeptCalls(calls, names)[Len(calls)]

CallsOf(choice, tool) == Those(choice.calls, {tool})

RealCalls(choice, tool) ==
    Those(choice.calls, {c.name : c \in Range(choice.calls)} \ {tool, "odd"})

(* Mutant: the finish reason is left as it is. *)
FinishReasonKept(choice, real) == choice.finish

FinishReasonOf(choice, real) ==
    CASE real # <<>> -> "tool_calls"
      [] real = <<>> /\ choice.finish = "tool_calls" -> "stop"
      [] OTHER -> choice.finish

(* A choice with a transport call: its content is that of the call,        *)
(* standard content is dropped, and its calls are the real ones.           *)
Replace(choice, real, contents) ==
    [failed |-> \E i \in DOMAIN contents : ~contents[i].ok,
     choice |-> [choice EXCEPT !.content = FromTransport(contents), !.calls = real,
                               !.finish = FinishReasonOf(choice, real)]]

(* A choice, and whether it makes the whole answer fail; without a         *)
(* transport call it stays as it is.                                       *)
NormalizeChoice(mode, tool, choice) ==
    LET real == RealCalls(choice, tool)
        synthetic == CallsOf(choice, tool)
    IN  CASE ~choice.message -> [failed |-> FALSE, choice |-> choice]
          [] choice.message /\ synthetic = <<>> ->
                [failed |-> mode = "required" /\ real = <<>>, choice |-> choice]
          [] OTHER ->
                Replace(choice, real,
                        [i \in DOMAIN synthetic |-> RepairSyntheticArguments(synthetic[i].args)])

(* The choices, or an error at the first choice that fails; the real calls *)
(* are counted up to there.                                                *)
Outcome(tool, choices, done) ==
    LET failing == {i \in DOMAIN choices : done[i].failed}
        counted == {i \in DOMAIN choices : choices[i].message /\ \A f \in failing : i <= f}
    IN  [failed |-> failing # {},
         realToolCalls |-> MapThenSumSet(LAMBDA i : Len(RealCalls(choices[i], tool)), counted),
         choices |-> [i \in DOMAIN choices |-> done[i].choice]]

NormalizeNonStreaming(mode, tool, choices) ==
    IF mode = "off" \/ tool = "" \/ choices = <<>>
    THEN [failed |-> FALSE, realToolCalls |-> 0, choices |-> choices]
    ELSE Outcome(tool, choices,
                 [i \in DOMAIN choices |-> NormalizeChoice(mode, tool, choices[i])])

=============================================================================
