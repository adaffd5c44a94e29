---------------------------- MODULE MCOneWireRead ----------------------------
(* Instances of OneWireRead for TLC: two sensors on one bridge.            *)
EXTENDS OneWireRead

OneBridge == [s \in Sensors |-> 1]
FirstAndLast == {0, BYTES - 1}
=============================================================================
