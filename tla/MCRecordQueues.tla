--------------------------- MODULE MCRecordQueues ---------------------------
(* One vector for both queues, so that one message can stand for two sources. *)
EXTENDS RecordQueues

OneVector == [q \in Queues |-> "v"]
==============================================================================
