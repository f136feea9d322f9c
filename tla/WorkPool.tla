------------------------------ MODULE WorkPool ------------------------------
(***************************************************************************)
(* What an ingestion run promises about the logins it was given, without   *)
(* its queue, its database or its control signals: every item is taken by  *)
(* one worker, once, and a worker has one item in hand at a time.  An item *)
(* taken is finished (with success, failure or skip) unless the run is     *)
(* torn down around its worker.  IngestJob implements this specification.  *)
(***************************************************************************)
CONSTANTS Items,    \* the positions of the logins to ingest
          Workers   \* the worker tasks

VARIABLES waiting,  \* items no worker has taken yet
          inHand,   \* worker -> the set holding the item it works on
          finished  \* items that were counted in stats.processed

poolVars == <<waiting, inHand, finished>>

Init ==
    /\ waiting = Items
    /\ inHand = [w \in Workers |-> {}]
    /\ finished = {}

Take(w) ==
    /\ inHand[w] = {}
    /\ \E i \in waiting :
          /\ waiting' = waiting \ {i}
          /\ inHand' = [inHand EXCEPT ![w] = {i}]
    /\ UNCHANGED finished

Finish(w) ==
    /\ inHand[w] # {}
    /\ finished' = finished \cup inHand[w]
    /\ inHand' = [inHand EXCEPT ![w] = {}]
    /\ UNCHANGED waiting

\* The event loop ends: whatever the workers hold is dropped.
TearDown ==
    /\ \E w \in Workers : inHand[w] # {}
    /\ inHand' = [w \in Workers |-> {}]
    /\ UNCHANGED <<waiting, finished>>

Next == TearDown \/ \E w \in Workers : Take(w) \/ Finish(w)

Spec == Init /\ [][Next]_poolVars
=============================================================================
