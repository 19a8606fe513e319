------------------------------- MODULE MCPyClient -------------------------------
(* Constants for model-checking PyClient.                                  *)
EXTENDS PyClient

CONSTANTS p1, s1, k1, r1, i1

OnePublish   == {p1}
OneSubscribe == {s1}
OneConnect   == {k1}
OneReceive   == {r1}
OneId        == {i1}
AllButConnect == {"sending", "awaitAck", "receiving"}
WholeWrites  == {"whole"}
=============================================================================
