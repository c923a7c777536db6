------------------------------ MODULE MCOutbox ------------------------------
(* Small instances of Outbox.  Events 1 and 2 share a timestamp, event 2 is  *)
(* published outside its transaction, and the catalog flags differ.          *)
EXTENDS Outbox

CONSTANT EventCount

MCEvents == 1..EventCount
MCOccurredAt == [e \in MCEvents |-> IF e = 3 THEN 2 ELSE 1]
MCTransactional == MCEvents \ {2}
MCRecordActivity == MCEvents \cap {1, 2}
MCAutomatable == MCEvents \cap {1, 3}
MCWebhook == {1}
=============================================================================
