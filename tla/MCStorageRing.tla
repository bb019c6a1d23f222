---------------------------- MODULE MCStorageRing ----------------------------
(* Instances of StorageRing for TLC. *)
EXTENDS StorageRing

AllPrograms == {producer_consumer, ProducerConsumer_v5, ProducerConsumer_v4, bounded_buffer}
==============================================================================
