-------------------------- MODULE MCRequestPipeline --------------------------
(* One request against two or three candidates; see RequestPipeline.cfg. *)
EXTENDS RequestPipeline, TLC

CONSTANTS r1, known, tail, unknown, first, second, broken

MCSelections ==
  known :> <<first, second>> @@ tail :> <<first, broken>> @@ unknown :> <<>>

=============================================================================
