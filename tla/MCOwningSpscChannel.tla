------------------------ MODULE MCOwningSpscChannel ------------------------
(* Both ends block: the queue holds fewer entries than there are messages.  *)
EXTENDS OwningSpscChannel
=============================================================================
