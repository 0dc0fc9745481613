-------------------------- MODULE MCStreamDecoder --------------------------
(***************************************************************************)
(* An instance of StreamDecoder for TLC: the shortest strings, with white  *)
(* space anywhere, and every cut of their JSON text into chunks.  Longer   *)
(* strings are in MCTransport.                                             *)
(***************************************************************************)
EXTENDS StreamDecoder

OneItem == UNION {[1..n -> {"a"}] : n \in 0..1}

AnyGap == [Places -> BOOLEAN]
=============================================================================
