------------------------------ MODULE MCDuplex ------------------------------
(* Duplex with a few bytes in each direction.                              *)
EXTENDS Duplex
CONSTANTS FromClient, FromUpstream
BothWays == [p \in {"down", "up"} |-> IF p = "down" THEN FromClient ELSE FromUpstream]
=============================================================================
