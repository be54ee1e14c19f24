--------------------------- MODULE MCRuntimeCalls ---------------------------
(* Three calls of one trial: a plain call, a --help call with a timeout of *)
(* its own, and a method without a timeout_ms parameter.                   *)
EXTENDS RuntimeCalls, TLC

CONSTANTS plain, help, bare

MCCalls == {plain, help, bare}
MCExplicit == plain :> 0 @@ help :> 300 @@ bare :> 0
MCTimeoutless == {bare}
=============================================================================
