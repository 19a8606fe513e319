------------------------------- MODULE MCProxyUdp -------------------------------
(* Constants for model-checking ProxyUdp.                                  *)
EXTENDS ProxyUdp

CONSTANTS a, b

TwoClients == {a, b}
AllFaults == {"receive", "socket", "bind", "broker"}
=============================================================================
