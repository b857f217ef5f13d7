-------------------------- MODULE MCKafkaConsumer --------------------------
(* Finite instances of KafkaConsumer for TLC.                              *)
EXTENDS KafkaConsumer

CONSTANTS p1, p2    \* partitions

\* The first record of the first partition is not valid.
MCPermanent == {<<p1, 1>>}
=============================================================================
