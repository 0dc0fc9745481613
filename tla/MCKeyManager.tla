---------------------------- MODULE MCKeyManager ----------------------------
(***************************************************************************)
(* Instances of KeyManager for TLC: the server with one or two admin calls *)
(* at a time, and the command line with one; one configured key at a time *)
(* and one created one.                                                    *)
(***************************************************************************)
EXTENDS KeyManager, TLC

CONSTANTS server, cli, o1, o2, c1, s1, s2, d1, d2

CliOps == o1 :> server @@ c1 :> cli
ServerOps == o1 :> server @@ o2 :> server

OneConfig == {{s1}}

(* API_KEY, whose id is always "default", is replaced between two starts. *)
RotatedKey == {{s1}, {s2}}
DefaultId == [k \in Keys |-> IF k \in {s1, s2} THEN "default" ELSE k]

(* Each key has an id of its own: the configuration was not edited. *)
OwnIds == [k \in Keys |-> k]

(* The server is restarted; a command runs once. *)
RestartedServer == server :> 2 @@ cli :> 1
ThreeStarts == server :> 3
=============================================================================
