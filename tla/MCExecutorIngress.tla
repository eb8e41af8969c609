--------------------------- MODULE MCExecutorIngress ---------------------------
(* Two plan slots and two controls over a ring of two, smaller than their sum, *)
(* so that the ring is found full as well; two items, three controls and two *)
(* demands, so that slots, credits and the buffers of the mailbox are reused.  *)
EXTENDS ExecutorIngress
=============================================================================
