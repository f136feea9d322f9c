---------------------------- MODULE ProfileFields ----------------------------
(***************************************************************************)
(* The field merges of the bridge: what each layer's row holds when it is  *)
(* rebuilt from the layer below, and the decisions that go into the merge  *)
(* audit log.                                                              *)
(*                                                                         *)
(* One field stands for each list of priorities the code has:              *)
(*   display_name  bio, location: LinkedIn before GitHub before HF         *)
(*   avatar_url    website: the developer profile before LinkedIn          *)
(*   company       named social first, but no social row has it            *)
(*   headline      current_title, current_company, industry                *)
(* stars and models stand for the numbers of GitHub and of Hugging Face,   *)
(* years for what only LinkedIn gives.  A text is where it came from and   *)
(* its size; the empty text is as good as none.                            *)
(***************************************************************************)
EXTENDS Integers, Sequences, SequencesExt

CONSTANTS
    MaxSize,   \* the longest text a source gives
    ClipAt     \* the 500 characters a merged text keeps

SizesAssumption == MaxSize \in Nat /\ ClipAt \in 1..MaxSize

Absent == [src |-> "none", size |-> 0]
Text(source) == {Absent} \cup [src : {source}, size : 1..MaxSize]
Clip(v) == [v EXCEPT !.size = IF @ > ClipAt THEN ClipAt ELSE @]

DevPriority == [display_name |-> <<"github", "huggingface">>,
                avatar_url   |-> <<"github", "huggingface">>,
                company      |-> <<"github", "huggingface">>]
SocialPriority == [display_name |-> <<"linkedin", "x_twitter">>,
                   avatar_url   |-> <<"linkedin", "x_twitter">>,
                   headline     |-> <<"linkedin", "x_twitter">>]
AggregationPriority == [display_name |-> <<"social", "developer">>,
                        avatar_url   |-> <<"developer", "social">>,
                        company      |-> <<"social", "developer">>,
                        headline     |-> <<"social">>]

\* The field of a source, Absent when the source's data has no such key.
Field(data, f) == IF f \in DOMAIN data THEN data[f] ELSE Absent

(* The raw rows turned into the data of a source; nothing when there is no *)
(* such row.                                                               *)
BuildGh(row) == IF DOMAIN row = {} THEN <<>>
                ELSE [display_name |-> row.name, avatar_url |-> row.avatar,
                      company |-> row.company, stars |-> row.stars]
BuildHf(row) == IF DOMAIN row = {} THEN <<>>
                ELSE [display_name |-> row.name, avatar_url |-> row.avatar,
                      models |-> row.models]
BuildLn(row) == IF DOMAIN row = {} THEN <<>>
                ELSE [display_name |-> row.name, avatar_url |-> row.avatar,
                      headline |-> row.headline, skills |-> row.skills,
                      years |-> row.years]

\* The first source in the order that has a text wins the field; the others
\* that have one are overridden.  No merge is told the previous value.
PickWinner(f, order, data) ==
    LET have == SelectSeq(order, LAMBDA s : Field(data[s], f).size > 0)
    IN IF have = <<>>
       THEN [winner |-> "none", value |-> Absent, overridden |-> <<>>,
             action |-> "unchanged"]
       ELSE [winner |-> Head(have), value |-> Clip(Field(data[Head(have)], f)),
             overridden |-> Tail(have), action |-> "created"]

Decisions(priority, data) == [f \in DOMAIN priority |-> PickWinner(f, priority[f], data)]
Chosen(decisions) == [f \in DOMAIN decisions |-> decisions[f].value]

Number(data, k) == IF k \in DOMAIN data THEN data[k] ELSE 0
Skills(data) == IF "skills" \in DOMAIN data THEN data["skills"] ELSE {}

MergeDevFields(gh, hf) ==
    LET d == Decisions(DevPriority, [github |-> gh, huggingface |-> hf])
    IN [decisions |-> d,
        row |-> Chosen(d) @@ [stars |-> Number(gh, "stars"), models |-> Number(hf, "models"),
                              skills |-> Skills(gh) \cup Skills(hf)]]

MergeSocialFields(ln) ==
    LET d == Decisions(SocialPriority, [linkedin |-> ln, x_twitter |-> <<>>])
    IN [decisions |-> d,
        row |-> Chosen(d) @@ [years |-> Number(ln, "years"), skills |-> Skills(ln)]]

MergeAggregatedFields(dev, social) ==
    LET d == Decisions(AggregationPriority, [developer |-> dev, social |-> social])
    IN [decisions |-> d,
        row |-> Chosen(d) @@ [stars |-> Number(dev, "stars"), models |-> Number(dev, "models"),
                              years |-> Number(social, "years"),
                              skills |-> Skills(dev) \cup Skills(social)]]

MergeCohesiveFields(agg) ==
    [f \in {"display_name", "avatar_url", "company", "headline", "stars", "models",
            "years", "skills"} |-> agg[f]]

\* The rows of a decision list that are written to merge_audit_log.
AuditRows(decisions) == {f \in DOMAIN decisions : decisions[f].action # "unchanged"}

=============================================================================
