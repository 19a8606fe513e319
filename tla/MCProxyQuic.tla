------------------------------ MODULE MCProxyQuic ------------------------------
(* Constants for model-checking ProxyQuic.                                 *)
EXTENDS ProxyQuic, TLC

CONSTANTS a, b

TwoClients == {a, b}
OneClient  == {a}
\* The client with a certificate may know only an old version of QUIC at first.
RightVersion  == [c \in Clients |-> {"initial"}]
MixedVersions == [c \in Clients |-> IF c = a THEN {"initial", "oldVersion"} ELSE {"initial"}]
AllFaults == {"receive", "socket", "tcpRefused", "eof", "certTimer", "handler"}
HandlerFault == {"handler"}
=============================================================================
