-------------------------- MODULE MCUpstreamClient --------------------------
(***************************************************************************)
(* Instances of UpstreamClient for TLC.  Two updates race without requests *)
(* beside them; requests meet the steps of one update after another.       *)
(***************************************************************************)
EXTENDS UpstreamClient, TLC

CONSTANTS u1, u2, env, s1, q1, q2

RacingUpdates == [updaters |-> {u1, u2}, updates |-> 3, starts |-> 2, requests |-> {}]
OneRequest == [updaters |-> {u1}, updates |-> 2, starts |-> 1, requests |-> {q1}]
TwoRequests == [updaters |-> {u1}, updates |-> 1, starts |-> 1, requests |-> {q1, q2}]

RaceOrServe == {RacingUpdates, OneRequest, TwoRequests}
=============================================================================
