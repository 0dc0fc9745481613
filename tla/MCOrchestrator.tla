--------------------------- MODULE MCOrchestrator ---------------------------
(***************************************************************************)
(* Instances of Orchestrator for TLC: two requests with one key, or a      *)
(* single one where only its own course matters.                           *)
(***************************************************************************)
EXTENDS Orchestrator, TLC

CONSTANTS r1, r2, k1

PairKeyOf == r1 :> k1 @@ r2 :> k1

SingleKeyOf == r1 :> k1

With(text, real, transport) == [text |-> text, real |-> real, transport |-> transport]

Empty == With(FALSE, FALSE, "none")
Plain == With(TRUE, FALSE, "none")
Tools == With(FALSE, TRUE, "none")
Broken == With(FALSE, FALSE, "broken")

(* No choice, one of every kind that is treated differently, and two in    *)
(* either order of those that decide about a retry.                        *)
FewBodies ==
    {<<>>} \cup {<<c>> : c \in {c \in Choice : c.text => c = Plain}}
           \cup {<<c, d>> : c, d \in {Plain, Tools, Broken}}
           \cup {<<Empty, Plain>>, <<Plain, Empty>>}
=============================================================================
