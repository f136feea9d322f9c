---------------------------- MODULE MCIngestJob -----------------------------
(* Instances of IngestJob for TLC. *)
EXTENDS IngestJob, TLC

CONSTANTS w1, w2, ann, bob, cyd, empty, c1, c2

MCWorkers == {w1, w2}
OneWorker == {w1}
MCLogins == {ann, bob, cyd}
TwoLogins == {ann, bob}
FourLines == <<ann, empty, bob, cyd>>
ThreeLines == <<ann, empty, bob>>
FiveLines == <<ann, bob, cyd, ann, bob>>

Symmetry == Permutations(MCWorkers)
=============================================================================
