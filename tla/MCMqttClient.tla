----------------------------- MODULE MCMqttClient -----------------------------
(* Constants and symmetry for model-checking MqttClient.                   *)
EXTENDS MqttClient, TLC

CONSTANTS p1, p2, s1, i1, i2

TwoPublishes == {p1, p2}
OnePublish   == {p1}
OneSubscribe == {s1}
NoCalls      == {}
TwoIds       == {i1, i2}
OneId        == {i1}

AnyStage     == Stages
RequestStages == {"sending", "awaitAck"}
ConnectStages == {"initializing", "awaitConnack"}
NoStage      == {}
AnyWrite     == {"whole", "part", "none"}
WholeWrites  == {"whole"}

\* Publish calls are interchangeable, and so are packet identifiers.  (Only for
\* runs without liveness properties.)
Symmetric == Permutations(TwoPublishes) \cup Permutations(TwoIds)
=============================================================================
