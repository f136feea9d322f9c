----------------------------- MODULE SearchIndex ------------------------------
(***************************************************************************)
(* The vector index beside the cohesive profiles: the point the bridge     *)
(* adds when it syncs a profile, and the batch job that embeds the         *)
(* profiles that are not marked as embedded.                               *)
(*                                                                         *)
(* Only a point that carries the profile's id can lead a search to it; the *)
(* bridge hands the indexer no id, so its points carry none.  A statement  *)
(* or a call of the index is an action.                                    *)
(***************************************************************************)
EXTENDS Integers, Sequences, FiniteSets, SequencesExt

CONSTANTS
    Rows,         \* ids of cohesive profiles, in the order the database sorts them
    BatchSize,
    MaxPasses, MaxSyncs, MaxFailures    \* bounds

RowsAssumption == Rows \subseteq Nat /\ IsFiniteSet(Rows)
BoundsAssumption ==
    BatchSize \in Nat \ {0} /\ {MaxPasses, MaxSyncs, MaxFailures} \subseteq Nat

VARIABLES
    row,       \* id -> the row and its points, for the rows there are
    unindexed, \* rows the bridge has written and not yet indexed
    pass,      \* the batch job
    count      \* what the bounds count

indexVars == <<row, unindexed, pass, count>>

NoPass == [pc |-> "off", force |-> FALSE, total |-> 0, offset |-> 0, batch |-> <<>>,
           next |-> 1, embedded |-> 0, quiet |-> TRUE]

Init ==
    /\ \E ids \in SUBSET Rows, texts \in SUBSET Rows :
         /\ texts \subseteq ids
         /\ row = [r \in ids |-> [text |-> r \in texts, vector |-> "none", named |-> 0, bare |-> 0]]
    /\ unindexed = {}
    /\ pass = NoPass
    /\ count = [passes |-> 0, syncs |-> 0, failures |-> 0]

Stored == DOMAIN row

----------------------------------------------------------------------------
(* The bridge.                                                             *)

\* The last layer of a sync: the text is written, the mark is left as it was.
UpsertCohesive(r, text) ==
    /\ count.syncs < MaxSyncs
    /\ row' = [q \in Stored \cup {r} |->
                 IF q # r THEN row[q]
                 ELSE IF r \in Stored THEN [row[r] EXCEPT !.text = text]
                 ELSE [text |-> text, vector |-> "none", named |-> 0, bare |-> 0]]
    /\ unindexed' = unindexed \cup {r}
    /\ pass' = [pass EXCEPT !.quiet = FALSE]
    /\ count' = [count EXCEPT !.syncs = @ + 1]

\* A new point every time; a failure is logged and forgotten.
IndexProfile(r) ==
    /\ r \in unindexed
    /\ unindexed' = unindexed \ {r}
    /\ row' \in {row} \cup (IF row[r].text THEN {[row EXCEPT ![r].bare = @ + 1]} ELSE {})
    /\ UNCHANGED <<pass, count>>

----------------------------------------------------------------------------
(* The batch job.                                                          *)

Eligible(force) == {r \in Stored : row[r].text /\ (force \/ row[r].vector = "none")}

CountEligible(force) ==
    /\ pass.pc \in {"off", "done"} /\ count.passes < MaxPasses
    /\ LET n == Cardinality(Eligible(force))
       IN pass' = [NoPass EXCEPT !.pc = IF n = 0 THEN "done" ELSE "fetch",
                                 !.force = force, !.total = n]
    /\ count' = [count EXCEPT !.passes = @ + 1]
    /\ UNCHANGED <<row, unindexed>>

\* ORDER BY id.
Sorted(ids) == {s \in SetToSeqs(ids) : \A i, j \in DOMAIN s : i < j => s[i] < s[j]}

\* Mutant: the page starts one row late.
FetchOneLate ==
    /\ pass.pc = "fetch"
    /\ \E sorted \in Sorted(Eligible(pass.force)) :
         LET last == IF pass.offset + BatchSize < Len(sorted) THEN pass.offset + BatchSize ELSE Len(sorted)
             page == SubSeq(sorted, pass.offset + 2, last)
             batch == [i \in DOMAIN page |-> [id |-> page[i], vector |-> row[page[i]].vector]]
         IN pass' = IF pass.offset >= pass.total \/ batch = <<>> THEN [pass EXCEPT !.pc = "done"]
                    ELSE [pass EXCEPT !.pc = "index", !.batch = batch, !.next = 1, !.embedded = 0]
    /\ UNCHANGED <<row, unindexed, count>>

\* LIMIT and OFFSET over the rows that are eligible now; what the batch knows of
\* a row's mark is what it reads here.
FetchBatch ==
    /\ pass.pc = "fetch"
    /\ \E sorted \in Sorted(Eligible(pass.force)) :
         LET last == IF pass.offset + BatchSize < Len(sorted) THEN pass.offset + BatchSize ELSE Len(sorted)
             page == SubSeq(sorted, pass.offset + 1, last)
             batch == [i \in DOMAIN page |-> [id |-> page[i], vector |-> row[page[i]].vector]]
         IN pass' = IF pass.offset >= pass.total \/ batch = <<>> THEN [pass EXCEPT !.pc = "done"]
                    ELSE [pass EXCEPT !.pc = "index", !.batch = batch, !.next = 1, !.embedded = 0]
    /\ UNCHANGED <<row, unindexed, count>>

\* A row that is marked has its own id for a point id, which the index refuses;
\* so force embeds no marked row.
BatchIndex ==
    /\ pass.pc = "index"
    /\ LET p == pass.batch[pass.next]
           on == [pass EXCEPT !.next = @ + 1, !.pc = IF pass.next = Len(pass.batch) THEN "mark" ELSE "index"]
       IN \/ /\ p.vector = "none"
             /\ row' = [row EXCEPT ![p.id].named = @ + 1]
             /\ pass' = [on EXCEPT !.embedded = @ + 1]
             /\ UNCHANGED count
          \/ /\ p.vector # "none"
             /\ pass' = on
             /\ UNCHANGED <<row, count>>
          \/ /\ p.vector = "none" /\ count.failures < MaxFailures
             /\ pass' = [on EXCEPT !.quiet = FALSE]
             /\ count' = [count EXCEPT !.failures = @ + 1]
             /\ UNCHANGED row
    /\ UNCHANGED unindexed

\* All rows of the batch are marked as soon as one of them was embedded.
MarkBatch ==
    /\ pass.pc = "mark"
    /\ LET ids == {p.id : p \in {pass.batch[i] : i \in DOMAIN pass.batch}}
       IN row' = IF pass.embedded = 0 THEN row
                 ELSE [r \in Stored |-> IF r \in ids THEN [row[r] EXCEPT !.vector = "own"] ELSE row[r]]
    /\ pass' = [pass EXCEPT !.pc = "fetch", !.offset = @ + Len(pass.batch), !.batch = <<>>]
    /\ UNCHANGED <<unindexed, count>>

Next ==
    \/ \E r \in Rows, text \in BOOLEAN : UpsertCohesive(r, text)
    \/ \E r \in Rows : IndexProfile(r)
    \/ \E force \in BOOLEAN : CountEligible(force)
    \/ FetchBatch \/ BatchIndex \/ MarkBatch

Spec == Init /\ [][Next]_indexVars

----------------------------------------------------------------------------
(* Properties.                                                             *)

\* Every variable has its type.
TypeOK ==
    /\ Stored \cup unindexed \subseteq Rows
    /\ \A r \in Stored : /\ row[r].text \in BOOLEAN /\ row[r].vector \in {"none", "own"}
                         /\ row[r].named \in 0..1 /\ row[r].bare \in 0..MaxSyncs
    /\ pass.pc \in {"off", "fetch", "index", "mark", "done"}

\* A pass moves its OFFSET on over a filter that its own marks shrink and so
\* passes rows over, but never more than it embeds: with no failure and no sync
\* meanwhile, at least half of what was to do is done; and a mark without a
\* point needs a failure (embed.py, the loop and the update of its batch).
EmbedPass ==
    /\ (pass.pc = "done" /\ pass.quiet /\ ~pass.force) => 2 * Cardinality(Eligible(FALSE)) <= pass.total
    /\ count.failures = 0 => \A r \in Stored : row[r].vector = "own" => row[r].named > 0

=============================================================================
