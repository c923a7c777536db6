---------------------------- MODULE MCContacts ----------------------------
EXTENDS Labels

\* the words are alike
Symmetry == {[w \in Words |-> w],
             [w \in Words |-> IF Cardinality(Words) = 2 THEN CHOOSE v \in Words : v # w ELSE w]}
===========================================================================
