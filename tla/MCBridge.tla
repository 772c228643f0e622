------------------------------ MODULE MCBridge ------------------------------
(* TLC instance: three orders or copies, for two entities, one of them asked by a *)
(* slider; one replacement of the client.                                         *)
EXTENDS Bridge
CONSTANTS light, gate
OneTopicEach == {<<light, "slider">>, <<gate, "set">>}
=============================================================================
