--------------------------------- MODULE MCEnv ---------------------------------
(* Values of Env's constants for TLC. *)
EXTENDS Env, TLC

CONSTANTS a, x

OneArgument == <<a, x>>
=============================================================================
