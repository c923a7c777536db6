--------------------------- MODULE EventDelivery ---------------------------
(***************************************************************************)
(* What the CRM event outbox (internal/crmevents) promises its producers   *)
(* and its consumers, without relays, locks, batches or crashes.           *)
(*                                                                         *)
(* An event is pending from the commit that records it.  While it is       *)
(* pending it is delivered, any number of times, to the sinks its type     *)
(* asks for.  It is settled once, when every sink that wants it has it or  *)
(* a sink failure has been recorded against it, and after that it is never *)
(* delivered again.                                                        *)
(***************************************************************************)
CONSTANTS Events,      \* identities of domain events
          Sinks,       \* the consumers of the relay
          WantedBy     \* [Events -> SUBSET Sinks], from the event catalog

VARIABLES pending,     \* recorded, not settled
          settled,     \* settled: the relay will not look at it again
          gaveUp,      \* settled with a recorded sink failure
          got          \* <<s, e>>: sink s has received event e at least once

vars == <<pending, settled, gaveUp, got>>

Init == /\ pending = {}
        /\ settled = {}
        /\ gaveUp = {}
        /\ got = {}

Record(e) == /\ e \notin pending \cup settled
             /\ pending' = pending \cup {e}
             /\ UNCHANGED <<settled, gaveUp, got>>

Deliver(s, e) == /\ e \in pending
                 /\ s \in WantedBy[e]
                 /\ got' = got \cup {<<s, e>>}
                 /\ UNCHANGED <<pending, settled, gaveUp>>

(* Events leave together, F being those with a recorded failure. *)
Settle(S, F) == /\ S \subseteq pending
                /\ F \subseteq S
                /\ \A e \in S \ F : \A s \in WantedBy[e] : <<s, e>> \in got
                /\ pending' = pending \ S
                /\ settled' = settled \cup S
                /\ gaveUp' = gaveUp \cup F
                /\ UNCHANGED got

Next == \/ \E e \in Events : Record(e)
        \/ \E s \in Sinks, e \in Events : Deliver(s, e)
        \/ \E S, F \in SUBSET Events : Settle(S, F)

Spec == Init /\ [][Next]_vars
=============================================================================
