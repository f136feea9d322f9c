---------------------------- MODULE IdentityScore ----------------------------
(***************************************************************************)
(* How the identity resolver decides that two developer profiles are the   *)
(* same person: the normal forms it compares, the blocks that limit which  *)
(* pairs it looks at, the signals it weighs and the score.                 *)
(*                                                                         *)
(* A profile is the record ProfileData carries.  A text is a model value   *)
(* or a small record; a normal form says what it keeps of one, and None    *)
(* stands for an absent or empty text.  A name is a sequence of letters,   *)
(* because its similarity is computed letter by letter.  Weights are in    *)
(* hundredths.                                                             *)
(***************************************************************************)
EXTENDS Integers, Sequences, FiniteSets, FiniteSetsExt, SequencesExt

CONSTANTS
    None,          \* an absent or empty value
    NameBlockCap   \* NAME_BLOCK_CAP

NameBlockCapAssumption == NameBlockCap \in Nat

AutoMerge == 70
Review == 40

Weight == [hf_github_exact |-> 100, email_exact |-> 90, twitter_exact |-> 85,
           website_crossref |-> 80, linkedin_url_match |-> 75,
           avatar_gravatar_match |-> 70, name_location_exact |-> 60,
           name_company_fuzzy |-> 55, name_fuzzy_alone |-> 30]

----------------------------------------------------------------------------
(* Normal forms.  A handle, a place and a link are records of what is left *)
(* after cleaning and of what cleaning removes.                            *)

\* An address counts when it has an @ and is not GitHub's no-reply address;
\* case and blanks around it do not.
Emails(p) ==
    {e.clean : e \in {x \in {p.gh_email, p.email_hint} :
                        x # None /\ x.at /\ ~x.noreply}}

FirstOf(s) == IF \E i \in DOMAIN s : s[i] # None
              THEN s[Min({i \in DOMAIN s : s[i] # None})] ELSE None

\* The handle without its @; of a https:// link to the site, the handle in it.
Handle(t) == IF t = None THEN None ELSE t.clean
Twitter(p) == FirstOf(<<Handle(p.gh_twitter), Handle(p.hf_twitter)>>)

\* A link to a LinkedIn profile: the handle, or None for any other link.
LinkedInHandle(l) == IF l = None THEN None ELSE l.handle
LinkedIn(p) == FirstOf(<<LinkedInHandle(p.linkedin_url), LinkedInHandle(p.hf_linkedin)>>)

\* A name of fewer than three letters is not used.
Name(p) == LET name == FirstOf(<<p.display_name, p.gh_name, p.hf_fullname>>)
           IN IF name # None /\ Len(name) >= 3 THEN name ELSE <<>>
Place(p) == FirstOf(<<p.location, p.gh_location>>)
Company(p) == FirstOf(<<p.company, p.gh_company>>)
Sites(p) == {p.gh_website, p.website, p.hf_website} \ {None}

\* The hash in a Gravatar address, if the avatar is one and not a placeholder.
Gravatar(p) == LET a == FirstOf(<<p.gh_avatar, p.avatar_url>>)
               IN IF a = None \/ ~a.gravatar \/ a.placeholder THEN None ELSE a.hash

----------------------------------------------------------------------------
(* Jaro-Winkler similarity of two names, at least nine tenths or not.      *)

\* The letters of s found in t, in order, each within the window and each
\* place of t used once: a function from the places of s to places of t.
Matches(s, t) ==
    LET window == Max({0, Max({Len(s), Len(t)}) \div 2 - 1})
        Free(i, used) == {j \in DOMAIN t : /\ j \in (i - window)..(i + window)
                                           /\ j \notin used /\ s[i] = t[j]}
        Extend(m, i) ==
            LET free == Free(i, {m[k] : k \in DOMAIN m})
            IN IF free = {} THEN m
               ELSE [k \in DOMAIN m \cup {i} |-> IF k = i THEN Min(free) ELSE m[k]]
    IN FoldLeft(Extend, [k \in {} |-> 0], [i \in 1..Len(s) |-> i])

\* The matched letters, taken in order on each side, that differ.
OutOfOrder(s, t, m) ==
    LET left == SetToSortSeq(DOMAIN m, <)
        right == SetToSortSeq({m[k] : k \in DOMAIN m}, <)
    IN Cardinality({k \in DOMAIN left : s[left[k]] # t[right[k]]})

CommonPrefix(s, t) ==
    Max({n \in 0..Min({4, Len(s), Len(t)}) : \A i \in 1..n : s[i] = t[i]})

\* jaro + prefix * 0.1 * (1 - jaro) >= 0.9, with both sides multiplied by the
\* denominators: jaro is num / (3 * den).
Similar(s, t) ==
    \/ s = t
    \/ /\ s # <<>> /\ t # <<>>
       /\ LET m == Matches(s, t)
              n == Cardinality(DOMAIN m)
              den == 2 * n * Len(s) * Len(t)
              num == 2 * n * n * (Len(s) + Len(t))
                     + (2 * n - OutOfOrder(s, t, m)) * Len(s) * Len(t)
              prefix == CommonPrefix(s, t)
          IN n > 0 /\ num * (10 - prefix) + 3 * den * prefix >= 27 * den

----------------------------------------------------------------------------
(* Blocking: only profiles that share a key are compared.                  *)

Keys(p) ==
    {<<"email", e>> : e \in Emails(p)}
    \cup {<<"gh_crossref", g>> : g \in {p.hf_github_username, p.github_username} \ {None}}
    \cup {<<"twitter", t>> : t \in {Twitter(p)} \ {None}}
    \cup {<<"name", n>> : n \in {Name(p)} \ {<<>>}}
    \cup {<<"linkedin", l.url>> : l \in {FirstOf(<<p.linkedin_url, p.hf_linkedin>>)} \ {None}}

\* Whether the resolver compares the two profiles when it has loaded the set.
\* A name that too many profiles have is not a block.
Compared(p, q, loaded) ==
    \E k \in Keys(p) \cap Keys(q) :
        k[1] = "name" => Cardinality({r \in loaded : k \in Keys(r)}) <= NameBlockCap

----------------------------------------------------------------------------
(* Signals and score.                                                      *)

ClaimsLogin(p, q) == p.hf_github_username # None /\ p.hf_github_username = q.github_username

\* A website of one names the other's page on either platform.
PointsAt(p, q) ==
    \E s \in Sites(p) : \/ s.hf # None /\ s.hf = q.huggingface_username
                        \/ s.gh # None /\ s.gh = q.github_username

Shared(a, b) == a # None /\ a = b

\* The one signal about names, the strongest that holds.
NameSignal(p, q) ==
    LET n == Name(p)
        m == Name(q)
    IN IF n = <<>> \/ m = <<>> THEN {}
       ELSE IF n = m /\ Shared(Place(p), Place(q)) THEN {"name_location_exact"}
       ELSE IF ~Similar(n, m) THEN {}
       ELSE IF Shared(Company(p), Company(q)) THEN {"name_company_fuzzy"}
       ELSE {"name_fuzzy_alone"}

ScoreSignals(p, q) ==
    {s \in {"hf_github_exact", "email_exact", "twitter_exact", "website_crossref",
            "linkedin_url_match", "avatar_gravatar_match"} :
        CASE s = "hf_github_exact"       -> ClaimsLogin(p, q) \/ ClaimsLogin(q, p)
          [] s = "email_exact"           -> Emails(p) \cap Emails(q) # {}
          [] s = "twitter_exact"         -> Shared(Twitter(p), Twitter(q))
          [] s = "website_crossref"      -> PointsAt(p, q) \/ PointsAt(q, p)
          [] s = "linkedin_url_match"    -> Shared(LinkedIn(p), LinkedIn(q))
          [] s = "avatar_gravatar_match" -> Shared(Gravatar(p), Gravatar(q))}
    \cup NameSignal(p, q)

Score(p, q) == Max({Weight[s] : s \in ScoreSignals(p, q)} \cup {0})

\* What becomes of a pair the resolver compared.
Triage(p, q) == IF Score(p, q) >= AutoMerge THEN "approved"
                ELSE IF Score(p, q) >= Review THEN "pending" ELSE "skip"

=============================================================================
