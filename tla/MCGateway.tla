----------------------------- MODULE MCGateway ------------------------------
(* A small instance of Gateway for TLC.                                    *)
EXTENDS Gateway, TLC

(* The provider is removed while requests of the first snapshot run.       *)
MCActiveKeys == <<{"k1"}, {}>>
=============================================================================
