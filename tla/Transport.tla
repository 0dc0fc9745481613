----------------------------- MODULE Transport ------------------------------
(***************************************************************************)
(* Exchanges of both kinds: the answer to a request that is streamed       *)
(* arrives in chunks and goes through the decoder, any other answer        *)
(* arrives whole and goes through the normaliser.                          *)
(***************************************************************************)
EXTENDS Exchange, StreamDecoder

(* The decoder has nothing to do in an exchange that is not streamed.      *)
NoDocument == CHOOSE d \in Documents : TRUE

TransportInit ==
    /\ ExInit
    /\ document \in IF case.request.stream THEN Documents ELSE {NoDocument}
    /\ pos = 0 /\ decoder = New /\ finished = FALSE

(* The upstream's stream, once it has the request. *)
Stream ==
    /\ case.request.stream /\ \E s \in sent : s.tool # NoTool
    /\ Next
    /\ UNCHANGED exchange

TransportNext ==
    \/ ExNext /\ UNCHANGED vars
    \/ Stream

TransportSpec == TransportInit /\ [][TransportNext]_<<exchange, vars>>

=============================================================================
