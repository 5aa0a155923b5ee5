-------------------------- MODULE MCStreamConsumer --------------------------
(***************************************************************************)
(* Values for checking StreamConsumer with TLC.                            *)
(***************************************************************************)
EXTENDS StreamConsumer

CONSTANTS c1, c2

=============================================================================
