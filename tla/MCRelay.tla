-------------------------------- MODULE MCRelay --------------------------------
(* Constants for model-checking Relay.                                     *)
EXTENDS Relay

AllFaults == {"connection", "tcp", "eof"}
=============================================================================
