--------------------------- MODULE MCOutboxWorker ---------------------------
(* Instances of OutboxWorker for TLC. *)
EXTENDS OutboxWorker

CONSTANTS e1, e2, w1, w2

MCEvent == {e1, e2}
MCWorker == {w1, w2}
=============================================================================
