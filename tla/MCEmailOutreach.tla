--------------------------- MODULE MCEmailOutreach ---------------------------
(***************************************************************************)
(* The values TLC checks EmailOutreach with.                               *)
(***************************************************************************)
EXTENDS EmailOutreach, TLC

CONSTANTS w1, w2, r1, r2, q1, q2

TwoWorkers == {w1, w2}
OneRecipient == {r1}
TwoRecipients == {r1, r2}
OneClient == {q1}
TwoClients == {q1, q2}

Symmetry == Permutations(Workers) \cup Permutations(Recipients) \cup Permutations(Clients)

=============================================================================
