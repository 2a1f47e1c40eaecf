------------------------ MODULE MCControlOperations ------------------------
(***************************************************************************)
(* ControlOperations for TLC.  All commits use one idempotency key, so a   *)
(* second action meets the first one's.                                    *)
(***************************************************************************)
EXTENDS ControlOperations

CONSTANTS k1

MCKeyOf == [c \in Calls |-> k1]
=============================================================================
