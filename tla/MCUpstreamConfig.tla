-------------------------- MODULE MCUpstreamConfig --------------------------
(***************************************************************************)
(* Instances of UpstreamConfig for TLC.                                    *)
(***************************************************************************)
EXTENDS UpstreamConfig, TLC

CONSTANTS u1, u2, env, s1, s2
=============================================================================
