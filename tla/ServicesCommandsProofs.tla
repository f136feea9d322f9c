------------------------ MODULE ServicesCommandsProofs ------------------------
(***************************************************************************)
(* Proofs about the commands of Services, for every value of the           *)
(* constants: what becomes of the job rows that requests, the command line *)
(* and the pipelines open, and whom a completed pipeline has tried.        *)
(***************************************************************************)
EXTENDS Services, FiniteSetTheorems, TLAPS

-----------------------------------------------------------------------------
(* The commands and the pipelines (IngestCommands).                        *)

Actors == {"caller", "runner"}
StageNames == {"create", "check", "rows", "turn", "gh", "hf", "ln", "run", "work", "complete",
               "handle", "handle_other"}
\* What may come after a stage.
Follows ==
    {<<"create", "create">>, <<"create", "rows">>, <<"create", "run">>, <<"create", "check">>,
     <<"create", "gh">>, <<"check", "run">>, <<"gh", "hf">>, <<"hf", "ln">>, <<"ln", "run">>,
     <<"run", "work">>, <<"work", "complete">>, <<"complete", "turn">>, <<"turn", "run">>,
     <<"turn", "complete">>, <<"handle", "handle_other">>}
Plan(t) ==
    /\ t \in Seq(StageNames)
    /\ \A i \in 1..(Len(t) - 1) : <<t[i], t[i + 1]>> \in Follows
    /\ \A i, j \in 1..Len(t) : t[i] = "turn" /\ t[j] = "turn" => i = j
    /\ \A i \in 1..(Len(t) - 2) : t[i] = "create" /\ t[i + 1] = "create" => t[i + 2] = "rows"
    /\ t # <<>> /\ t # <<"work">> => t[Len(t)] \in {"complete", "rows", "handle", "handle_other"}
Has(t, stage) == \E i \in 1..Len(t) : t[i] = stage

JobRow == [status : {"pending", "running", "completed", "failed"}, worked : BOOLEAN,
           lost : {"no", "step failed", "not scheduled", "handler failed", "died"}]
KindNames == {"none", "gh_ingest", "hf_ingest", "ln_ingest", "ln_given", "ln_discover", "gh_discover",
              "gh_search", "hf_search", "elsewhere"}
CommandRecord == [kind : KindNames, todo : Seq(StageNames), who : SUBSET People, org : BOOLEAN, job : Nat,
                  whoHf : SUBSET People, other : Nat]

\* The jobs of a command that is about to do t.
Holds(c, jobs) ==
    /\ c.job \in 0..Len(jobs) /\ c.other \in 0..Len(jobs)
    /\ c.other # 0 => c.job # 0 /\ c.job # c.other
    /\ c.job # 0 => jobs[c.job].lost = "no"
    /\ c.other # 0 => jobs[c.other].lost = "no" /\ jobs[c.other].status # "failed"
Fits(c, jobs) ==
    /\ Plan(c.todo) /\ Holds(c, jobs)
    /\ c.todo = <<>> => c = Commands!Idle
    /\ c.todo # <<>> /\ c.todo[1] = "create" =>
         /\ c.other = 0
         /\ c.job = 0 <=> c.todo[2] # "rows"
    /\ c.todo # <<>> /\ c.todo[1] = "check" => c.other = 0
    /\ c.todo # <<>> /\ c.todo[1] # "create" /\ c.todo # <<"work">> => c.job # 0
    /\ c.todo = <<"work">> => c.job = 0
    /\ Has(c.todo, "turn") \/ Has(c.todo, "handle_other") => c.other # 0
    /\ c.todo = <<"rows">> => c.other # 0
    /\ c.other # 0 /\ ~Has(c.todo, "turn") /\ ~Has(c.todo, "handle_other") /\ ~Has(c.todo, "rows")
         => jobs[c.other].status = "completed"
    /\ c.todo # <<>> /\ c.todo[1] = "complete" => jobs[c.job].worked
    /\ c.todo # <<>> /\ c.todo[1] = "turn" => jobs[c.job].status = "completed"
    /\ \A i \in 1..(Len(c.todo) - 1) :
         c.todo[i] = "turn" /\ c.todo[i + 1] = "complete" => jobs[c.other].worked
    /\ c.job # 0 => (jobs[c.job].status = "failed" <=> c.todo[1] = "handle_other")
Single(c) == c.other = 0 /\ \A i \in 1..Len(c.todo) : c.todo[i] \in {"create", "run", "work", "complete"}

Closed(r) ==
    /\ r.status \in {"pending", "running"} => r.lost # "no"
    /\ r.status = "completed" => r.worked
    /\ r.status = "failed" => r.lost \in {"no", "died"}
Sound(r) ==
    /\ r.status = "completed" => r.worked
    /\ r.status = "failed" => r.lost \in {"no", "died"}
CommandsHeld(c) == {c.job, c.other} \ {0}

CommandsFit ==
    /\ job \in Seq(JobRow)
    /\ command \in [Actors -> CommandRecord]
    /\ \A a \in Actors : Fits(command[a], job)
    /\ Single(command["runner"])
    /\ CommandsHeld(command["caller"]) \cap CommandsHeld(command["runner"]) = {}
    /\ \A j \in DOMAIN job : Sound(job[j])
    /\ \A j \in DOMAIN job : (\A a \in Actors : j \notin CommandsHeld(command[a])) => Closed(job[j])

-----------------------------------------------------------------------------
LEMMA Accounted == ASSUME CommandsFit PROVE Commands!JobsAccountedFor
  BY DEF CommandsFit, Commands!JobsAccountedFor, Commands!Jobs, CommandsHeld, Actors, Sound, Closed

LEMMA HeldThere ==
    ASSUME CommandsFit, NEW b \in Actors, NEW j \in CommandsHeld(command[b]) PROVE j \in 1..Len(job)
<1>1. Holds(command[b], job) /\ command[b] \in CommandRecord
  BY DEF CommandsFit, Fits
<1>2. command[b].job \in 0..Len(job) /\ command[b].other \in 0..Len(job)
  BY <1>1 DEF Holds
<1> QED
  BY <1>2 DEF CommandsHeld, CommandsFit

\* One command goes on to c; the rows that were not its own stay as they are.
LEMMA OneGoesOn ==
    ASSUME CommandsFit, NEW a \in Actors, NEW c \in CommandRecord,
           command' = [command EXCEPT ![a] = c],
           job' \in Seq(JobRow), Len(job') >= Len(job),
           \A j \in DOMAIN job : j \notin CommandsHeld(command[a]) => job'[j] = job[j],
           \A j \in CommandsHeld(c) : j \in CommandsHeld(command[a]) \/ j > Len(job),
           Fits(c, job'), a = "runner" => Single(c),
           \A j \in CommandsHeld(command[a]) \cup (DOMAIN job' \ DOMAIN job) :
             Sound(job'[j]) /\ (j \notin CommandsHeld(c) => Closed(job'[j]))
    PROVE  CommandsFit'
<1>1. command' \in [Actors -> CommandRecord] /\ command'[a] = c /\ \A b \in Actors : b # a => command'[b] = command[b]
  BY DEF CommandsFit
<1>2. DOMAIN job = 1..Len(job) /\ DOMAIN job' = 1..Len(job') /\ Len(job) \in Nat /\ Len(job') \in Nat
  BY DEF CommandsFit
<1>3. ASSUME NEW b \in Actors, b # a PROVE Fits(command[b], job') /\ CommandsHeld(command[b]) \cap CommandsHeld(command[a]) = {}
  <2>1. CommandsHeld(command[b]) \cap CommandsHeld(command[a]) = {}
    BY <1>3 DEF CommandsFit, Actors
  <2>2. \A j \in CommandsHeld(command[b]) : j \in DOMAIN job /\ job'[j] = job[j]
    BY <1>2, <2>1, HeldThere
  <2>3. Fits(command[b], job)
    BY DEF CommandsFit
  <2>4. command[b] \in CommandRecord
    BY DEF CommandsFit
  <2>5. Holds(command[b], job')
    BY <1>2, <2>2, <2>3, <2>4 DEF Fits, Holds, CommandsHeld, CommandRecord
  <2>6. command[b].job # 0 => job'[command[b].job] = job[command[b].job]
    BY <2>2 DEF CommandsHeld
  <2>7. command[b].other # 0 => job'[command[b].other] = job[command[b].other]
    BY <2>2 DEF CommandsHeld
  <2>8. \A i \in 1..(Len(command[b].todo) - 1) :
         command[b].todo[i] = "turn" /\ command[b].todo[i + 1] = "complete" => job'[command[b].other].worked
    <3> SUFFICES ASSUME NEW i \in 1..(Len(command[b].todo) - 1), command[b].todo[i] = "turn", command[b].todo[i + 1] = "complete"
                 PROVE  job'[command[b].other].worked
      OBVIOUS
    <3>1. Has(command[b].todo, "turn")
      BY <2>4 DEF Has, CommandRecord
    <3> QED
      BY <2>3, <2>7, <3>1 DEF Fits
  <2>9. /\ command[b].todo # <<>> /\ command[b].todo[1] = "complete" => job'[command[b].job].worked
        /\ command[b].todo # <<>> /\ command[b].todo[1] = "turn" => job'[command[b].job].status = "completed"
    BY <2>3, <2>6 DEF Fits
  <2> QED
    BY <2>1, <2>3, <2>5, <2>6, <2>7, <2>8, <2>9 DEF Fits
<1>4. \A b \in Actors : Fits(command'[b], job')
  BY <1>1, <1>3
<1>5. CommandsHeld(command'["caller"]) \cap CommandsHeld(command'["runner"]) = {}
  <2>1. ASSUME NEW b \in Actors, b # a, NEW j \in CommandsHeld(command[b]) PROVE j \in 1..Len(job) /\ j \notin CommandsHeld(command[a])
    BY <1>3, <2>1, HeldThere
  <2>2. ASSUME NEW b \in Actors, b # a, NEW j \in CommandsHeld(command[b]) PROVE j \notin CommandsHeld(c)
    BY <1>2, <2>1, <2>2
  <2> QED
    BY <1>1, <2>2 DEF Actors
<1>6. Single(command'["runner"])
  BY <1>1 DEF Actors, CommandsFit
<1>7. ASSUME NEW j \in DOMAIN job'
      PROVE  Sound(job'[j]) /\ ((\A b \in Actors : j \notin CommandsHeld(command'[b])) => Closed(job'[j]))
  <2>1. CASE j \in CommandsHeld(command[a]) \cup (DOMAIN job' \ DOMAIN job)
    BY <1>1, <2>1
  <2>2. CASE j \in DOMAIN job /\ j \notin CommandsHeld(command[a])
    BY <1>1, <2>2 DEF CommandsFit
  <2> QED
    BY <2>1, <2>2
<1> QED
  BY <1>1, <1>4, <1>5, <1>6, <1>7 DEF CommandsFit

-----------------------------------------------------------------------------
(* A command's stages, one after the other.                                *)

LEMMA PlanTail ==
    ASSUME NEW t, Plan(t), Len(t) > 1
    PROVE  /\ Plan(Tail(t)) /\ Len(Tail(t)) = Len(t) - 1 /\ Tail(t) # <<>> /\ Tail(t) # <<"work">>
           /\ \A i \in 1..(Len(t) - 1) : Tail(t)[i] = t[i + 1]
           /\ <<t[1], t[2]>> \in Follows
           /\ \A s : Has(Tail(t), s) => Has(t, s)
           /\ \A s : Has(t, s) /\ t[1] # s => Has(Tail(t), s)
<1>1. t \in Seq(StageNames) /\ Len(t) \in Nat /\ Tail(t) \in Seq(StageNames) /\ Len(Tail(t)) = Len(t) - 1
      /\ \A i \in 1..(Len(t) - 1) : Tail(t)[i] = t[i + 1]
  BY DEF Plan
<1> DEFINE r == Tail(t)
<1>2. r \in Seq(StageNames) /\ Len(r) = Len(t) - 1 /\ \A i \in 1..Len(r) : r[i] = t[i + 1]
  BY <1>1
<1> HIDE DEF r
<1>3. t # <<>> /\ t # <<"work">> /\ r # <<>>
  BY <1>1, <1>2
<1>4. r[Len(r)] = t[Len(t)]
  BY <1>1, <1>2
<1>5. t[Len(t)] \in {"complete", "rows", "handle", "handle_other"}
  BY <1>3 DEF Plan
<1>6. r # <<"work">>
  BY <1>2, <1>4, <1>5
<1>7. \A i \in 1..(Len(r) - 1) : <<r[i], r[i + 1]>> \in Follows
  BY <1>1, <1>2 DEF Plan
<1>8. \A i, j \in 1..Len(r) : r[i] = "turn" /\ r[j] = "turn" => i = j
  <2> SUFFICES ASSUME NEW i \in 1..Len(r), NEW j \in 1..Len(r), r[i] = "turn", r[j] = "turn" PROVE i = j
    OBVIOUS
  <2>1. i + 1 \in 1..Len(t) /\ j + 1 \in 1..Len(t) /\ t[i + 1] = "turn" /\ t[j + 1] = "turn"
    BY <1>1, <1>2
  <2>2. i + 1 = j + 1
    BY <2>1 DEF Plan
  <2> QED
    BY <1>1, <2>2
<1>9. \A i \in 1..(Len(r) - 2) : r[i] = "create" /\ r[i + 1] = "create" => r[i + 2] = "rows"
  <2> SUFFICES ASSUME NEW i \in 1..(Len(r) - 2), r[i] = "create", r[i + 1] = "create" PROVE r[i + 2] = "rows"
    OBVIOUS
  <2>1. i + 1 \in 1..(Len(t) - 2) /\ t[i + 1] = "create" /\ t[i + 1 + 1] = "create" /\ r[i + 2] = t[i + 1 + 2]
    BY <1>1, <1>2
  <2> QED
    BY <2>1 DEF Plan
<1>10. Plan(r)
  BY <1>2, <1>4, <1>5, <1>7, <1>8, <1>9 DEF Plan
<1>11. <<t[1], t[2]>> \in Follows
  BY <1>1 DEF Plan
<1>12. \A s : Has(r, s) => Has(t, s)
  <2> SUFFICES ASSUME NEW s, Has(r, s) PROVE Has(t, s)
    OBVIOUS
  <2>1. PICK i \in 1..Len(r) : r[i] = s
    BY DEF Has
  <2>2. i + 1 \in 1..Len(t) /\ t[i + 1] = s
    BY <1>1, <1>2, <2>1
  <2> QED
    BY <2>2 DEF Has
<1>13. \A s : Has(t, s) /\ t[1] # s => Has(r, s)
  <2> SUFFICES ASSUME NEW s, Has(t, s), t[1] # s PROVE Has(r, s)
    OBVIOUS
  <2>1. PICK i \in 1..Len(t) : t[i] = s
    BY DEF Has
  <2>2. i - 1 \in 1..Len(r) /\ r[i - 1] = s
    BY <1>1, <1>2, <2>1
  <2> QED
    BY <2>2 DEF Has
<1> QED
  BY <1>1, <1>2, <1>3, <1>6, <1>10, <1>11, <1>12, <1>13 DEF r

LEMMA LastStage ==
    ASSUME NEW t, Plan(t), t # <<>>
    PROVE  /\ Len(t) \in Nat /\ Len(t) >= 1 /\ t[1] \in StageNames
           /\ Len(t) = 1 \/ Len(t) > 1
           /\ Len(t) = 1 => t[1] \in {"complete", "rows", "handle", "handle_other", "work"}
           /\ Len(t) = 1 => t = <<t[1]>>
           /\ t[1] \in {"rows", "handle_other"} => Len(t) = 1
           /\ t[1] = "create" => Len(t) > 1 /\ t[2] \in {"create", "rows", "run", "check", "gh"}
           /\ t[1] = "create" /\ t[2] = "create" => Len(t) > 2 /\ t[3] = "rows"
<1>1. t \in Seq(StageNames) /\ Len(t) \in Nat /\ Len(t) >= 1
  BY DEF Plan
<1> DEFINE n == Len(t)
<1>a. n \in Nat /\ n >= 1
  BY <1>1
<1> HIDE DEF n
<1>b. n = 1 \/ n > 1
  BY <1>a
<1>c. Len(t) = 1 \/ Len(t) > 1
  BY <1>b DEF n
<1>2. t[1] \in StageNames
  BY <1>1
<1>3. Len(t) = 1 => t = <<t[1]>>
  BY <1>1
<1>4. t # <<"work">> => t[Len(t)] \in {"complete", "rows", "handle", "handle_other"}
  BY DEF Plan
<1>5. Len(t) > 1 => <<t[1], t[2]>> \in Follows /\ t # <<"work">>
  BY <1>1 DEF Plan
<1>6. t[1] \in {"rows", "handle_other"} => Len(t) = 1
  BY <1>1, <1>5 DEF Follows
<1>7. t[1] = "create" => Len(t) > 1 /\ t[2] \in {"create", "rows", "run", "check", "gh"}
  BY <1>1, <1>3, <1>4, <1>5 DEF Follows
<1>8. t[1] = "create" /\ t[2] = "create" => Len(t) > 2 /\ t[3] = "rows"
  BY <1>1, <1>4, <1>5, <1>7 DEF Plan
<1> QED
  BY <1>1, <1>2, <1>3, <1>4, <1>6, <1>7, <1>8, <1>c

LEMMA IdleFits == ASSUME NEW jobs, Len(jobs) \in Nat PROVE Commands!Idle \in CommandRecord /\ Fits(Commands!Idle, jobs) /\ CommandsHeld(Commands!Idle) = {} /\ Single(Commands!Idle)
<1>1. Commands!Idle \in CommandRecord /\ Commands!Idle.todo = <<>> /\ Commands!Idle.job = 0 /\ Commands!Idle.other = 0
  BY DEF Commands!Idle, CommandRecord, KindNames
<1>2. Plan(<<>>)
  BY DEF Plan
<1>3. \A s : ~Has(<<>>, s)
  BY DEF Has
<1>4. Holds(Commands!Idle, jobs)
  BY <1>1 DEF Holds
<1>5. Fits(Commands!Idle, jobs)
  BY <1>1, <1>2, <1>3, <1>4 DEF Fits
<1> QED
  BY <1>1, <1>5 DEF CommandsHeld, Single

\* A command with its first stage done; jobs2 is what the stage made of jobs.
LEMMA TailFits ==
    ASSUME NEW c \in CommandRecord, NEW jobs, NEW jobs2, Fits(c, jobs), Len(c.todo) > 1,
           c.todo[1] \in {"check", "gh", "hf", "ln", "run", "work", "complete"},
           Len(jobs2) = Len(jobs),
           c.other # 0 => jobs2[c.other] = jobs[c.other],
           c.job # 0 => jobs2[c.job].lost = "no" /\ jobs2[c.job].status # "failed",
           c.todo[2] = "complete" => jobs2[c.job].worked,
           c.todo[2] = "turn" => jobs2[c.job].status = "completed"
    PROVE  LET d == [c EXCEPT !.todo = Tail(@)]
           IN /\ d \in CommandRecord /\ Fits(d, jobs2) /\ CommandsHeld(d) = CommandsHeld(c) /\ (Single(c) => Single(d))
<1> DEFINE d == [c EXCEPT !.todo = Tail(@)]
           t == c.todo
           r == Tail(t)
<1>1. Plan(t) /\ t # <<>> /\ Len(t) > 1 /\ Len(t) \in Nat
  BY DEF Fits, Plan
<1>2. /\ Plan(r) /\ Len(r) = Len(t) - 1 /\ r # <<>> /\ r # <<"work">>
      /\ \A i \in 1..(Len(t) - 1) : r[i] = t[i + 1]
      /\ <<t[1], t[2]>> \in Follows
      /\ \A s : Has(r, s) => Has(t, s)
      /\ \A s : Has(t, s) /\ t[1] # s => Has(r, s)
  BY <1>1, PlanTail
<1>3. /\ d \in CommandRecord /\ d.todo = r /\ d.job = c.job /\ d.other = c.other /\ CommandsHeld(d) = CommandsHeld(c)
  BY <1>2 DEF CommandRecord, Plan, CommandsHeld
<1> HIDE DEF d, r
<1>4. Single(c) => Single(d)
  BY <1>1, <1>2, <1>3 DEF Single
<1>5. r[1] = t[2] /\ t[2] \notin {"create", "check", "handle", "handle_other", "rows"}
  BY <1>1, <1>2 DEF Follows
<1>6. c.job # 0
  BY <1>1, LastStage DEF Fits
<1>7. Holds(d, jobs2)
  BY <1>3 DEF Fits, Holds
<1>8. \A i \in 1..(Len(r) - 1) : r[i] = "turn" /\ r[i + 1] = "complete" => jobs2[c.other].worked
  <2> SUFFICES ASSUME NEW i \in 1..(Len(r) - 1), r[i] = "turn", r[i + 1] = "complete" PROVE jobs2[c.other].worked
    OBVIOUS
  <2>1. i + 1 \in 1..(Len(t) - 1) /\ t[i + 1] = "turn" /\ t[i + 1 + 1] = "complete"
    BY <1>1, <1>2
  <2>2. Has(t, "turn")
    BY <1>1, <2>1, SMTT(40) DEF Has
  <2>3. jobs[c.other].worked /\ c.other # 0
    BY <2>1, <2>2 DEF Fits
  <2> QED
    BY <2>3
<1>9. Has(r, "turn") \/ Has(r, "handle_other") => c.other # 0
  BY <1>2 DEF Fits
<1>10. c.other # 0 /\ ~Has(r, "turn") /\ ~Has(r, "handle_other") /\ ~Has(r, "rows") => jobs2[c.other].status = "completed"
  <2> SUFFICES ASSUME c.other # 0, ~Has(r, "turn"), ~Has(r, "handle_other"), ~Has(r, "rows") PROVE jobs2[c.other].status = "completed"
    OBVIOUS
  <2>1. ~Has(t, "turn") /\ ~Has(t, "handle_other") /\ ~Has(t, "rows")
    BY <1>2
  <2> QED
    BY <2>1 DEF Fits
<1>11. r # <<"rows">>
  BY <1>5
<1>12. Fits(d, jobs2)
  BY <1>2, <1>3, <1>5, <1>6, <1>7, <1>8, <1>9, <1>10, <1>11 DEF Fits
<1> QED
  BY <1>3, <1>4, <1>12 DEF d, r

\* What a stage makes of its own job before its process goes on or is free.
LEMMA StageGoes ==
    ASSUME CommandsFit, NEW a \in Actors, command[a].todo # <<>>,
           command[a].todo[1] \in {"gh", "hf", "ln", "run", "work", "complete"},
           Commands!Goes(a), job' \in Seq(JobRow), Len(job') = Len(job),
           \A j \in DOMAIN job : j # command[a].job => job'[j] = job[j],
           command[a].job # 0 => /\ Sound(job'[command[a].job]) /\ job'[command[a].job].lost = "no"
                                 /\ job'[command[a].job].status # "failed",
           command[a].todo[1] = "work" /\ command[a].job # 0 => job'[command[a].job].worked,
           command[a].todo[1] = "complete" => job'[command[a].job].status = "completed"
    PROVE  CommandsFit'
<1> DEFINE c == command[a]
<1>1. c \in CommandRecord /\ Fits(c, job) /\ Plan(c.todo) /\ (a = "runner" => Single(c))
  BY DEF CommandsFit, Fits
<1>2. c.job \in 0..Len(job) /\ c.other \in 0..Len(job) /\ (c.other # 0 => c.job # 0 /\ c.job # c.other)
      /\ Len(job) \in Nat /\ DOMAIN job = 1..Len(job) /\ DOMAIN job' = 1..Len(job)
  BY <1>1 DEF CommandsFit, Fits, Holds
<1>3. c.other # 0 => job'[c.other] = job[c.other] /\ Sound(job[c.other])
  BY <1>2 DEF CommandsFit
<1>4. \A j \in CommandsHeld(c) : Sound(job'[j])
  BY <1>2, <1>3 DEF CommandsHeld
<1>5. CASE Len(c.todo) > 1
  <2> DEFINE d == [c EXCEPT !.todo = Tail(@)]
  <2>1. command' = [command EXCEPT ![a] = d]
    BY <1>5 DEF Commands!Goes, CommandsFit
  <2>2. <<c.todo[1], c.todo[2]>> \in Follows
    BY <1>1, <1>5, PlanTail
  <2>3. c.todo[2] = "complete" => job'[c.job].worked
    <3> SUFFICES ASSUME c.todo[2] = "complete" PROVE job'[c.job].worked
      OBVIOUS
    <3>1. c.todo[1] = "work"
      BY <2>2 DEF Follows
    <3>2. c.job # 0
      BY <1>1, <1>5, <3>1 DEF Fits
    <3> QED
      BY <3>1, <3>2
  <2>4. c.todo[2] = "turn" => job'[c.job].status = "completed"
    BY <2>2 DEF Follows
  <2>5. d \in CommandRecord /\ Fits(d, job') /\ CommandsHeld(d) = CommandsHeld(c) /\ (Single(c) => Single(d))
    BY <1>1, <1>3, <1>5, <2>3, <2>4, TailFits
  <2> HIDE DEF d
  <2>6. \A j \in CommandsHeld(c) \cup (DOMAIN job' \ DOMAIN job) : Sound(job'[j]) /\ (j \notin CommandsHeld(d) => Closed(job'[j]))
    BY <1>2, <1>4, <2>5
  <2>7. \A j \in DOMAIN job : j \notin CommandsHeld(c) => job'[j] = job[j]
    BY <1>2 DEF CommandsHeld
  <2>8. \A j \in CommandsHeld(d) : j \in CommandsHeld(c) \/ j > Len(job)
    BY <2>5
  <2>9. Len(job') >= Len(job) /\ (a = "runner" => Single(d))
    BY <1>1, <1>2, <2>5
  <2> HIDE DEF c
  <2> QED
    BY <2>1, <2>5, <2>6, <2>7, <2>8, <2>9, OneGoesOn DEF c
<1>6. CASE ~(Len(c.todo) > 1)
  <2>0. Len(c.todo) = 1
    BY <1>1, <1>6, LastStage
  <2>1. c.todo = <<c.todo[1]>> /\ c.todo[1] \in {"complete", "work"}
    BY <1>1, <2>0, LastStage
  <2>2. command' = [command EXCEPT ![a] = Commands!Idle]
    BY <1>6 DEF Commands!Goes
  <2>3. c.todo[1] = "complete" => c.job # 0 /\ Closed(job'[c.job])
    BY <1>1, <2>1 DEF Fits, Closed, Sound
  <2>4. c.todo[1] = "work" => c.job = 0 /\ c.other = 0
    BY <1>1, <1>2, <2>1 DEF Fits
  <2>5. c.other # 0 => job[c.other].status = "completed"
    <3>1. ~Has(c.todo, "turn") /\ ~Has(c.todo, "handle_other") /\ ~Has(c.todo, "rows")
      BY <2>1 DEF Has
    <3> QED
      BY <1>1, <3>1 DEF Fits
  <2>6. \A j \in CommandsHeld(c) : Closed(job'[j])
    BY <1>3, <2>1, <2>3, <2>4, <2>5 DEF CommandsHeld, Closed, Sound
  <2>7. \A j \in DOMAIN job : j \notin CommandsHeld(c) => job'[j] = job[j]
    BY <1>2 DEF CommandsHeld
  <2>8. Commands!Idle \in CommandRecord /\ Fits(Commands!Idle, job') /\ CommandsHeld(Commands!Idle) = {} /\ Single(Commands!Idle)
    BY <1>2, IdleFits
  <2>9. \A j \in CommandsHeld(c) \cup (DOMAIN job' \ DOMAIN job) : Sound(job'[j]) /\ (j \notin CommandsHeld(Commands!Idle) => Closed(job'[j]))
    BY <1>2, <1>4, <2>6
  <2>10. \A j \in CommandsHeld(Commands!Idle) : j \in CommandsHeld(c) \/ j > Len(job)
    BY <2>8
  <2>11. Len(job') >= Len(job) /\ (a = "runner" => Single(Commands!Idle))
    BY <1>2, <2>8
  <2> HIDE DEF c
  <2> QED
    BY <2>2, <2>7, <2>8, <2>9, <2>10, <2>11, OneGoesOn DEF c
<1> QED
  BY <1>1, <1>5, <1>6 DEF Plan

LEMMA AtStage ==
    ASSUME CommandsFit, NEW a \in Actors, NEW stage, Commands!At(a, stage)
    PROVE  command[a].todo # <<>> /\ command[a].todo[1] = stage /\ Fits(command[a], job)
           /\ command[a] \in CommandRecord
  BY DEF Commands!At, CommandsFit

LEMMA MarkRunningKeeps == ASSUME CommandsFit, NEW a \in Actors, Commands!MarkRunning(a) PROVE CommandsFit'
<1> DEFINE j == command[a].job
<1>1. Commands!At(a, "run") /\ Commands!Goes(a) /\ job' = [job EXCEPT ![j].status = "running"]
  BY DEF Commands!MarkRunning, Commands!SetJob
<1>2. command[a].todo # <<>> /\ command[a].todo[1] = "run" /\ Fits(command[a], job)
  BY <1>1, AtStage
<1>3. command[a].todo # <<"work">>
  BY <1>2
<1>4. j # 0 /\ j \in 1..Len(job) /\ job[j].lost = "no" /\ job \in Seq(JobRow) /\ Len(job) \in Nat
  BY <1>2, <1>3 DEF Fits, Holds, CommandsFit
<1> HIDE DEF j
<1>5. job[j] \in JobRow
  BY <1>4
<1>6. [job[j] EXCEPT !.status = "running"] \in JobRow
  BY <1>5 DEF JobRow
<1>7. /\ job' \in Seq(JobRow) /\ Len(job') = Len(job)
      /\ job'[j] = [job[j] EXCEPT !.status = "running"]
      /\ \A i \in DOMAIN job : i # j => job'[i] = job[i]
  BY <1>1, <1>4, <1>6
<1>8. Sound(job'[j]) /\ job'[j].lost = "no" /\ job'[j].status # "failed"
  BY <1>4, <1>5, <1>7 DEF Sound, JobRow
<1> QED
  BY <1>1, <1>2, <1>7, <1>8, StageGoes DEF j

LEMMA MarkCompletedKeeps == ASSUME CommandsFit, NEW a \in Actors, Commands!MarkCompleted(a) PROVE CommandsFit'
<1> DEFINE j == command[a].job
<1>1. Commands!At(a, "complete") /\ Commands!Goes(a) /\ job' = [job EXCEPT ![j].status = "completed"]
  BY DEF Commands!MarkCompleted, Commands!SetJob
<1>2. command[a].todo # <<>> /\ command[a].todo[1] = "complete" /\ Fits(command[a], job)
  BY <1>1, AtStage
<1>3. command[a].todo # <<"work">>
  BY <1>2
<1>4. j # 0 /\ j \in 1..Len(job) /\ job[j].lost = "no" /\ job \in Seq(JobRow) /\ Len(job) \in Nat /\ job[j].worked
  BY <1>2, <1>3 DEF Fits, Holds, CommandsFit
<1> HIDE DEF j
<1>5. job[j] \in JobRow
  BY <1>4
<1>6. [job[j] EXCEPT !.status = "completed"] \in JobRow
  BY <1>5 DEF JobRow
<1>7. /\ job' \in Seq(JobRow) /\ Len(job') = Len(job)
      /\ job'[j] = [job[j] EXCEPT !.status = "completed"]
      /\ \A i \in DOMAIN job : i # j => job'[i] = job[i]
  BY <1>1, <1>4, <1>6
<1>8. Sound(job'[j]) /\ job'[j].lost = "no" /\ job'[j].status = "completed"
  BY <1>4, <1>5, <1>7 DEF Sound, JobRow
<1> QED
  BY <1>1, <1>2, <1>7, <1>8, StageGoes DEF j

LEMMA WorkKeeps == ASSUME CommandsFit, NEW a \in Actors, Commands!Work(a) PROVE CommandsFit'
<1> DEFINE j == command[a].job
<1>1. Commands!At(a, "work") /\ Commands!Goes(a) /\ job' = IF j = 0 THEN job ELSE [job EXCEPT ![j].worked = TRUE]
  BY DEF Commands!Work, Commands!Worked
<1>2. command[a].todo # <<>> /\ command[a].todo[1] = "work" /\ Fits(command[a], job)
  BY <1>1, AtStage
<1>3. job \in Seq(JobRow) /\ Len(job) \in Nat
  BY DEF CommandsFit
<1>4. CASE j = 0
  BY <1>1, <1>2, <1>3, <1>4, StageGoes
<1>5. CASE j # 0
  <2>1. j \in 1..Len(job) /\ job[j].lost = "no" /\ job[j].status # "failed" /\ Sound(job[j])
    BY <1>2, <1>3, <1>5 DEF Fits, Holds, CommandsFit
  <2>0. job' = [job EXCEPT ![j].worked = TRUE]
    BY <1>1, <1>5
  <2> HIDE DEF j
  <2>2. job[j] \in JobRow
    BY <1>3, <2>1
  <2>3. [job[j] EXCEPT !.worked = TRUE] \in JobRow
    BY <2>2 DEF JobRow
  <2> DEFINE r == [job[j] EXCEPT !.worked = TRUE]
  <2>a. job' = [job EXCEPT ![j] = r]
    BY <2>0
  <2>b. r \in JobRow
    BY <2>3
  <2> HIDE DEF r
  <2>c. /\ job' \in Seq(JobRow) /\ Len(job') = Len(job) /\ job'[j] = r
        /\ \A i \in DOMAIN job : i # j => job'[i] = job[i]
    BY <1>3, <2>a, <2>b, <2>1
  <2>4. /\ job' \in Seq(JobRow) /\ Len(job') = Len(job)
        /\ job'[j] = [job[j] EXCEPT !.worked = TRUE]
        /\ \A i \in DOMAIN job : i # j => job'[i] = job[i]
    BY <2>c DEF r
  <2>5. Sound(job'[j]) /\ job'[j].lost = "no" /\ job'[j].status # "failed" /\ job'[j].worked
    BY <2>1, <2>2, <2>4 DEF Sound, JobRow
  <2> QED
    BY <1>1, <1>2, <2>4, <2>5, StageGoes DEF j
<1> QED
  BY <1>4, <1>5

LEMMA IngestPersonKeeps == ASSUME CommandsFit, NEW a \in Actors, Commands!IngestPerson(a) PROVE CommandsFit'
<1>1. PICK pf \in Commands!Platforms : Commands!At(a, pf)
  BY DEF Commands!IngestPerson
<1>2. Commands!Goes(a) /\ job' = job
  BY DEF Commands!IngestPerson
<1>3. command[a].todo # <<>> /\ command[a].todo[1] = pf /\ Fits(command[a], job)
  BY <1>1, AtStage
<1>4. command[a].todo # <<"work">>
  BY <1>3 DEF Commands!Platforms
<1>5. command[a].job # 0 => command[a].job \in 1..Len(job) /\ job[command[a].job].lost = "no" /\ job[command[a].job].status # "failed"
  BY <1>3 DEF Fits, Holds, CommandsFit, Commands!Platforms
<1> QED
  BY <1>2, <1>3, <1>5, StageGoes DEF Commands!Platforms, CommandsFit

\* A command that leaves: what it leaves open has been lost.
LEMMA OneLeaves ==
    ASSUME CommandsFit, NEW a \in Actors, command' = [command EXCEPT ![a] = Commands!Idle],
           job' \in Seq(JobRow), Len(job') = Len(job),
           \A j \in DOMAIN job : j \notin CommandsHeld(command[a]) => job'[j] = job[j],
           \A j \in CommandsHeld(command[a]) : Closed(job'[j])
    PROVE  CommandsFit'
<1>1. DOMAIN job' = DOMAIN job /\ Len(job) \in Nat
  BY DEF CommandsFit
<1>2. Commands!Idle \in CommandRecord /\ Fits(Commands!Idle, job') /\ CommandsHeld(Commands!Idle) = {} /\ Single(Commands!Idle)
  BY <1>1, IdleFits
<1>3. \A j \in CommandsHeld(command[a]) \cup (DOMAIN job' \ DOMAIN job) : Sound(job'[j]) /\ (j \notin CommandsHeld(Commands!Idle) => Closed(job'[j]))
  BY <1>1 DEF Closed, Sound
<1>4. (\A j \in CommandsHeld(Commands!Idle) : j \in CommandsHeld(command[a]) \/ j > Len(job)) /\ Len(job') >= Len(job) /\ (a = "runner" => Single(Commands!Idle))
  BY <1>1, <1>2
<1> QED
  BY <1>2, <1>3, <1>4, OneGoesOn

LEMMA DiesKeeps == ASSUME CommandsFit, NEW a \in Actors, Commands!Dies(a) PROVE CommandsFit'
<1>1. /\ command' = [command EXCEPT ![a] = Commands!Idle]
      /\ job' = [j \in DOMAIN job |-> IF j \in CommandsHeld(command[a]) THEN [job[j] EXCEPT !.lost = "died"] ELSE job[j]]
  BY DEF Commands!Dies, Commands!Jobs, CommandsHeld
<1>2. job \in Seq(JobRow) /\ Len(job) \in Nat /\ DOMAIN job = 1..Len(job) /\ \A j \in DOMAIN job : Sound(job[j]) /\ job[j] \in JobRow
  BY DEF CommandsFit
<1>3. \A j \in DOMAIN job : LET r == [job[j] EXCEPT !.lost = "died"] IN r \in JobRow /\ Closed(r)
  BY <1>2 DEF Closed, Sound, JobRow
<1>4. \A j \in DOMAIN job : job'[j] = IF j \in CommandsHeld(command[a]) THEN [job[j] EXCEPT !.lost = "died"] ELSE job[j]
  BY <1>1
<1>5. job' \in [1..Len(job) -> JobRow]
  <2>1. \A j \in 1..Len(job) : job'[j] \in JobRow
    BY <1>2, <1>3, <1>4
  <2> QED
    BY <1>1, <1>2, <2>1
<1>6. job' \in Seq(JobRow) /\ Len(job') = Len(job)
  BY <1>2, <1>5
<1>7. \A j \in CommandsHeld(command[a]) : j \in DOMAIN job
  BY <1>2, HeldThere
<1>8. \A j \in CommandsHeld(command[a]) : Closed(job'[j])
  BY <1>3, <1>4, <1>7
<1>9. \A j \in DOMAIN job : j \notin CommandsHeld(command[a]) => job'[j] = job[j]
  BY <1>4
<1> QED
  BY <1>1, <1>6, <1>8, <1>9, OneLeaves

LEMMA HandlerFailsKeeps == ASSUME CommandsFit, NEW a \in Actors, Commands!HandlerFails(a) PROVE CommandsFit'
<1> DEFINE Open(j) == j \in CommandsHeld(command[a]) /\ job[j].status \in {"pending", "running"}
<1>1. /\ command' = [command EXCEPT ![a] = Commands!Idle]
      /\ job' = [j \in DOMAIN job |-> IF Open(j) THEN [job[j] EXCEPT !.lost = "handler failed"] ELSE job[j]]
  BY DEF Commands!HandlerFails, Commands!Jobs, CommandsHeld
<1> HIDE DEF Open
<1>2. job \in Seq(JobRow) /\ Len(job) \in Nat /\ DOMAIN job = 1..Len(job) /\ \A j \in DOMAIN job : Sound(job[j]) /\ job[j] \in JobRow
  BY DEF CommandsFit
<1>3. \A j \in DOMAIN job : Open(j) => LET r == [job[j] EXCEPT !.lost = "handler failed"] IN r \in JobRow /\ Closed(r)
  BY <1>2 DEF Closed, Sound, JobRow, Open
<1>4. \A j \in DOMAIN job : job'[j] = IF Open(j) THEN [job[j] EXCEPT !.lost = "handler failed"] ELSE job[j]
  BY <1>1
<1>5. job' \in [1..Len(job) -> JobRow]
  <2>1. \A j \in 1..Len(job) : job'[j] \in JobRow
    BY <1>2, <1>3, <1>4
  <2> QED
    BY <1>1, <1>2, <2>1
<1>6. job' \in Seq(JobRow) /\ Len(job') = Len(job)
  BY <1>2, <1>5
<1>7. \A j \in CommandsHeld(command[a]) : j \in DOMAIN job
  BY <1>2, HeldThere
<1>8. ASSUME NEW j \in CommandsHeld(command[a]) PROVE Closed(job'[j])
  <2>1. CASE Open(j)
    BY <1>3, <1>4, <1>7, <2>1
  <2>2. CASE ~Open(j)
    <3>1. job'[j] = job[j] /\ job[j].status \notin {"pending", "running"} /\ Sound(job[j])
      BY <1>2, <1>4, <1>7, <2>2 DEF Open
    <3> QED
      BY <3>1 DEF Sound, Closed
  <2> QED
    BY <2>1, <2>2
<1>9. \A j \in DOMAIN job : j \notin CommandsHeld(command[a]) => job'[j] = job[j]
  BY <1>4 DEF Open
<1> QED
  BY <1>1, <1>6, <1>8, <1>9, OneLeaves

LEMMA CreateJobKeeps == ASSUME CommandsFit, NEW a \in Actors, Commands!CreateJob(a) PROVE CommandsFit'
<1> DEFINE c == command[a]
           t == c.todo
           r == Tail(t)
           n == Len(job) + 1
           d == [c EXCEPT !.job = n, !.other = c.job, !.todo = r]
           new == [status |-> "pending", worked |-> FALSE, lost |-> "no"]
<1>1. /\ c \in CommandRecord /\ Fits(c, job) /\ Plan(t) /\ t # <<>> /\ t[1] = "create"
      /\ (a = "runner" => Single(c))
  BY AtStage DEF Commands!CreateJob, Fits, CommandsFit
<1>2. job \in Seq(JobRow) /\ Len(job) \in Nat /\ new \in JobRow /\ job' = Append(job, new)
  <2>1. job' = Append(job, new)
    BY DEF Commands!CreateJob
  <2>2. new \in JobRow
    BY DEF JobRow
  <2> QED
    BY <2>1, <2>2 DEF CommandsFit
<1>3. command' = [command EXCEPT ![a] = d]
  BY DEF Commands!CreateJob, CommandsFit
<1>4. /\ Len(t) > 1 /\ Len(t) \in Nat /\ t[2] \in {"create", "rows", "run", "check", "gh"}
      /\ t[2] = "create" => Len(t) > 2 /\ t[3] = "rows"
  BY <1>1, LastStage
<1>5. /\ Plan(r) /\ Len(r) = Len(t) - 1 /\ r # <<>> /\ r # <<"work">>
      /\ \A i \in 1..(Len(t) - 1) : r[i] = t[i + 1]
      /\ \A s : Has(r, s) => Has(t, s)
  BY <1>1, <1>4, PlanTail
<1>6. r[1] = t[2] /\ (t[2] = "create" => r[2] = "rows")
  BY <1>4, <1>5
<1>7. /\ c.other = 0 /\ c.job \in 0..Len(job) /\ (c.job = 0 <=> t[2] # "rows")
      /\ (c.job # 0 => job[c.job].lost = "no" /\ job[c.job].status # "failed")
      /\ ~Has(t, "turn") /\ ~Has(t, "handle_other")
  BY <1>1 DEF Fits, Holds
<1>8. /\ job' \in Seq(JobRow) /\ Len(job') = n /\ job'[n] = new /\ \A j \in 1..Len(job) : job'[j] = job[j]
      /\ DOMAIN job' = 1..n /\ DOMAIN job = 1..Len(job)
  BY <1>2
<1>9. d.job = n /\ d.other = c.job /\ d.todo = r /\ d \in CommandRecord
  <2>1. r \in Seq(StageNames) /\ n \in Nat /\ c.job \in Nat
    BY <1>1, <1>2, <1>5, <1>7 DEF CommandRecord, Plan
  <2> HIDE DEF r, n, c
  <2> QED
    BY <1>1, <2>1 DEF CommandRecord
<1>10. new.status = "pending" /\ new.lost = "no"
  OBVIOUS
<1> HIDE DEF new, d, r
<1>11. Holds(d, job')
  BY <1>2, <1>7, <1>8, <1>9, <1>10 DEF Holds
<1>12. d.job # 0 /\ n # 0
  BY <1>2, <1>9
<1>13. c.job # 0 => t[2] = "rows"
  BY <1>7
<1>14. c.job # 0 => Has(r, "rows")
  <2>1. 1 \in 1..Len(r)
    BY <1>4, <1>5
  <2> QED
    BY <1>6, <1>13, <2>1 DEF Has
<1>15. \A i \in 1..(Len(r) - 1) : ~(r[i] = "turn")
  <2>1. \A i \in 1..Len(r) : r[i] # "turn"
    BY <1>5, <1>7 DEF Has
  <2> QED
    BY <1>4, <1>5, <2>1
<1>16. Fits(d, job')
  <2>1. r[1] = "create" => d.other = 0 /\ (d.job = 0 <=> r[2] # "rows")
    BY <1>6, <1>7, <1>9, <1>12
  <2>2. Has(r, "turn") \/ Has(r, "handle_other") => d.other # 0
    BY <1>5, <1>7
  <2>3. r = <<"rows">> => d.other # 0
    BY <1>6, <1>7, <1>9
  <2>4. ~(d.other # 0 /\ ~Has(r, "turn") /\ ~Has(r, "handle_other") /\ ~Has(r, "rows"))
    BY <1>9, <1>14
  <2>5. r[1] \notin {"complete", "turn", "handle_other"} /\ (r[1] = "check" => d.other = 0)
    BY <1>4, <1>6, <1>7, <1>9
  <2> QED
    BY <1>5, <1>8, <1>9, <1>10, <1>11, <1>12, <1>15, <2>1, <2>2, <2>3, <2>4, <2>5 DEF Fits
<1>17. a = "runner" => Single(d)
  <2> SUFFICES ASSUME a = "runner" PROVE Single(d)
    OBVIOUS
  <2>1. \A i \in 1..Len(t) : t[i] \in {"create", "run", "work", "complete"}
    BY <1>1 DEF Single
  <2>2. \A i \in 1..Len(r) : i + 1 \in 1..Len(t) /\ r[i] = t[i + 1]
    BY <1>4, <1>5
  <2>3. t[2] # "rows"
    BY <1>4, <2>1
  <2> QED
    BY <1>7, <1>9, <2>1, <2>2, <2>3 DEF Single
<1>18. CommandsHeld(d) = {n, c.job} \ {0} /\ CommandsHeld(c) = {c.job} \ {0}
  BY <1>7, <1>9 DEF CommandsHeld
<1>19. /\ \A j \in DOMAIN job : j \notin CommandsHeld(c) => job'[j] = job[j]
       /\ \A j \in CommandsHeld(d) : j \in CommandsHeld(c) \/ j > Len(job)
       /\ Len(job') >= Len(job)
  BY <1>2, <1>8, <1>18
<1>20. ASSUME NEW j \in CommandsHeld(c) \cup (DOMAIN job' \ DOMAIN job)
       PROVE  Sound(job'[j]) /\ (j \notin CommandsHeld(d) => Closed(job'[j]))
  <2>1. CASE j = n
    BY <1>8, <1>10, <1>12, <1>18, <2>1 DEF Sound
  <2>2. CASE j # n
    <3>1. j = c.job /\ j # 0
      BY <1>2, <1>8, <1>18, <2>2
    <3>2. job'[j] = job[j] /\ Sound(job[j]) /\ j \in CommandsHeld(d)
      BY <1>2, <1>7, <1>8, <1>18, <3>1 DEF CommandsFit
    <3> QED
      BY <3>2
  <2> QED
    BY <2>1, <2>2
<1> HIDE DEF c, n
<1> QED
  BY <1>3, <1>8, <1>9, <1>16, <1>17, <1>19, <1>20, OneGoesOn DEF c

LEMMA CheckOrgKeeps == ASSUME CommandsFit, NEW a \in Actors, Commands!CheckOrg(a) PROVE CommandsFit'
<1> DEFINE c == command[a]
<1>1. c \in CommandRecord /\ Fits(c, job) /\ c.todo # <<>> /\ c.todo[1] = "check" /\ Plan(c.todo)
  BY AtStage DEF Commands!CheckOrg, Fits
<1>2. c.todo # <<"work">> /\ ~(a = "runner")
  <2>1. Len(c.todo) >= 1 /\ Len(c.todo) \in Nat
    BY <1>1, LastStage
  <2> QED
    BY <1>1, <2>1 DEF CommandsFit, Single
<1>3. job \in Seq(JobRow) /\ Len(job) \in Nat /\ DOMAIN job = 1..Len(job)
  BY DEF CommandsFit
<1>4. /\ c.job \in 1..Len(job) /\ job[c.job].lost = "no" /\ job[c.job].status # "failed" /\ Sound(job[c.job])
      /\ job[c.job] \in JobRow
  BY <1>1, <1>2, <1>3 DEF Fits, Holds, CommandsFit
<1>5. CASE table.org
  <2> DEFINE r == [job[c.job] EXCEPT !.lost = "not scheduled"]
  <2>1. command' = [command EXCEPT ![a] = Commands!Idle] /\ job' = [job EXCEPT ![c.job] = r]
    BY <1>5 DEF Commands!CheckOrg
  <2>2. r \in JobRow /\ Closed(r)
    BY <1>4 DEF JobRow, Closed, Sound
  <2>3. c.other = 0
    BY <1>1 DEF Fits
  <2> HIDE DEF r
  <2>4. job' \in Seq(JobRow) /\ Len(job') = Len(job) /\ job'[c.job] = r /\ \A j \in DOMAIN job : j # c.job => job'[j] = job[j]
    BY <1>3, <1>4, <2>1, <2>2
  <2>5. CommandsHeld(c) = {c.job}
    BY <1>3, <1>4, <2>3 DEF CommandsHeld
  <2>6. \A j \in DOMAIN job : j \notin CommandsHeld(c) => job'[j] = job[j]
    BY <2>4, <2>5
  <2>7. \A j \in CommandsHeld(c) : Closed(job'[j])
    BY <2>2, <2>4, <2>5
  <2> HIDE DEF c
  <2> QED
    BY <2>1, <2>4, <2>6, <2>7, OneLeaves DEF c
<1>6. CASE ~table.org
  <2> DEFINE d == [c EXCEPT !.todo = Tail(@)]
  <2>1. command' = [command EXCEPT ![a] = d] /\ job' = job
    BY <1>6 DEF Commands!CheckOrg, CommandsFit
  <2>2. Len(c.todo) > 1 /\ <<c.todo[1], c.todo[2]>> \in Follows
    <3>1. Len(c.todo) > 1
      BY <1>1, LastStage
    <3> QED
      BY <1>1, <3>1, PlanTail
  <2>3. d \in CommandRecord /\ Fits(d, job') /\ CommandsHeld(d) = CommandsHeld(c)
    BY <1>1, <1>3, <1>4, <2>1, <2>2, TailFits DEF Follows
  <2>4. \A j \in CommandsHeld(c) : j \in DOMAIN job /\ Sound(job[j])
    BY <1>3, HeldThere DEF CommandsFit
  <2> HIDE DEF d
  <2>5. /\ \A j \in DOMAIN job : j \notin CommandsHeld(c) => job'[j] = job[j]
        /\ \A j \in CommandsHeld(d) : j \in CommandsHeld(c) \/ j > Len(job)
        /\ Len(job') >= Len(job)
        /\ \A j \in CommandsHeld(c) \cup (DOMAIN job' \ DOMAIN job) :
             Sound(job'[j]) /\ (j \notin CommandsHeld(d) => Closed(job'[j]))
    BY <1>3, <2>1, <2>3, <2>4
  <2> HIDE DEF c
  <2> QED
    BY <1>2, <1>3, <2>1, <2>3, <2>5, OneGoesOn DEF c
<1> QED
  BY <1>5, <1>6

LEMMA TurnToHfKeeps == ASSUME CommandsFit, NEW a \in Actors, Commands!TurnToHf(a) PROVE CommandsFit'
<1> DEFINE c == command[a]
           t == c.todo
           r == Tail(t)
           d == [c EXCEPT !.kind = "hf_ingest", !.who = c.whoHf, !.todo = r, !.job = c.other, !.other = c.job]
<1>1. c \in CommandRecord /\ Fits(c, job) /\ t # <<>> /\ t[1] = "turn" /\ Plan(t)
  BY AtStage DEF Commands!TurnToHf, Fits
<1>2. command' = [command EXCEPT ![a] = d] /\ job' = job
  BY DEF Commands!TurnToHf
<1>3. job \in Seq(JobRow) /\ Len(job) \in Nat /\ DOMAIN job = 1..Len(job)
  BY DEF CommandsFit
<1>4. Len(t) > 1 /\ Len(t) \in Nat
  BY <1>1, LastStage
<1>5. /\ Plan(r) /\ Len(r) = Len(t) - 1 /\ r # <<>> /\ r # <<"work">>
      /\ \A i \in 1..(Len(t) - 1) : r[i] = t[i + 1]
      /\ <<t[1], t[2]>> \in Follows
  BY <1>1, <1>4, PlanTail
<1>6. r[1] = t[2] /\ t[2] \in {"run", "complete"}
  BY <1>1, <1>4, <1>5 DEF Follows
<1>7. ~Has(r, "turn")
  <2> SUFFICES ASSUME NEW i \in 1..Len(r), r[i] = "turn" PROVE FALSE
    BY DEF Has
  <2>1. i + 1 \in 1..Len(t) /\ t[i + 1] = "turn" /\ 1 \in 1..Len(t)
    BY <1>4, <1>5
  <2>2. 1 = i + 1
    BY <1>1, <2>1 DEF Plan
  <2> QED
    BY <2>2
<1>8. Has(t, "turn")
  BY <1>1, <1>4 DEF Has
<1>9. c.other # 0 /\ c.job # 0 /\ c.job # c.other /\ c.job \in 0..Len(job) /\ c.other \in 0..Len(job)
      /\ job[c.job].lost = "no" /\ job[c.other].lost = "no" /\ job[c.other].status # "failed"
      /\ job[c.job].status = "completed"
  BY <1>1, <1>8 DEF Fits, Holds
<1>10. t[2] = "complete" => job[c.other].worked
  <2>1. 1 \in 1..(Len(t) - 1) /\ 1 + 1 = 2
    BY <1>4
  <2> QED
    BY <1>1, <2>1 DEF Fits
<1>11. /\ d \in CommandRecord /\ d.todo = r /\ d.job = c.other /\ d.other = c.job
  <2>1. r \in Seq(StageNames)
    BY <1>5 DEF Plan
  <2> HIDE DEF r, c
  <2> QED
    BY <1>1, <2>1 DEF CommandRecord, KindNames
<1> HIDE DEF d, r
<1>12. Holds(d, job)
  BY <1>9, <1>11 DEF Holds
<1>13. ~Has(r, "handle_other")
  <2> SUFFICES ASSUME NEW i \in 1..Len(r), r[i] = "handle_other" PROVE FALSE
    BY DEF Has
  <2>1. i + 1 \in 1..Len(t) /\ t[i + 1] = "handle_other" /\ i \in 1..(Len(t) - 1) /\ i \in Nat
    BY <1>4, <1>5
  <2>2. t[i] = "handle"
    BY <1>1, <2>1 DEF Plan, Follows
  <2>3. i # 1
    BY <1>1, <2>2
  <2>4. i - 1 \in 1..(Len(t) - 1) /\ (i - 1) + 1 = i
    BY <1>4, <2>1, <2>3
  <2>5. <<t[i - 1], t[i]>> \in Follows
    BY <1>1, <2>4 DEF Plan
  <2> QED
    BY <2>2, <2>5 DEF Follows
<1>14. \A i \in 1..(Len(r) - 1) : ~(r[i] = "turn")
  BY <1>4, <1>5, <1>7 DEF Has
<1>15. Fits(d, job)
  BY <1>5, <1>6, <1>7, <1>9, <1>10, <1>11, <1>12, <1>13, <1>14 DEF Fits
<1>16. CommandsHeld(d) = CommandsHeld(c)
  BY <1>11 DEF CommandsHeld
<1>17. ~(a = "runner")
  BY <1>9 DEF CommandsFit, Single
<1>18. \A j \in CommandsHeld(c) : j \in DOMAIN job /\ Sound(job[j])
  BY <1>3, HeldThere DEF CommandsFit
<1>19. /\ \A j \in DOMAIN job : j \notin CommandsHeld(c) => job'[j] = job[j]
       /\ \A j \in CommandsHeld(d) : j \in CommandsHeld(c) \/ j > Len(job)
       /\ Len(job') >= Len(job)
       /\ \A j \in CommandsHeld(c) \cup (DOMAIN job' \ DOMAIN job) :
            Sound(job'[j]) /\ (j \notin CommandsHeld(d) => Closed(job'[j]))
  BY <1>2, <1>3, <1>16, <1>18
<1> HIDE DEF c
<1> QED
  BY <1>2, <1>3, <1>11, <1>15, <1>17, <1>19, OneGoesOn DEF c

\* The stages of one platform of a retry.
RetryStages == {<<"complete">>, <<"run", "work", "complete">>}
LEMMA TwoPlans ==
    ASSUME NEW x \in RetryStages, NEW y \in RetryStages
    PROVE  LET t == x \o <<"turn">> \o y
           IN /\ Plan(t) /\ t # <<>> /\ t # <<"work">> /\ t # <<"rows">>
              /\ Has(t, "turn") /\ ~Has(t, "handle_other")
              /\ t[1] \in {"run", "complete"} /\ (t[1] = "complete" => x = <<"complete">>)
              /\ \A i \in 1..(Len(t) - 1) : t[i] = "turn" /\ t[i + 1] = "complete" => y = <<"complete">>
<1>1. CASE x = <<"complete">> /\ y = <<"complete">>
  BY <1>1 DEF Plan, Has, Follows, StageNames
<1>2. CASE x = <<"complete">> /\ y = <<"run", "work", "complete">>
  BY <1>2 DEF Plan, Has, Follows, StageNames
<1>3. CASE x = <<"run", "work", "complete">> /\ y = <<"complete">>
  BY <1>3 DEF Plan, Has, Follows, StageNames
<1>4. CASE x = <<"run", "work", "complete">> /\ y = <<"run", "work", "complete">>
  BY <1>4 DEF Plan, Has, Follows, StageNames
<1> QED
  BY <1>1, <1>2, <1>3, <1>4 DEF RetryStages

LEMMA ReadRowsKeeps == ASSUME CommandsFit, NEW a \in Actors, Commands!ReadRows(a) PROVE CommandsFit'
<1> DEFINE c == command[a]
           Done(j, gh, hf) == (j = c.other /\ gh = {}) \/ (j = c.job /\ hf = {})
<1>1. c \in CommandRecord /\ Fits(c, job) /\ c.todo # <<>> /\ c.todo[1] = "rows" /\ Plan(c.todo)
  BY AtStage DEF Commands!ReadRows, Fits
<1>2. c.todo = <<"rows">>
  BY <1>1, LastStage
<1>3. job \in Seq(JobRow) /\ Len(job) \in Nat /\ DOMAIN job = 1..Len(job) /\ \A j \in DOMAIN job : job[j] \in JobRow /\ Sound(job[j])
  BY DEF CommandsFit
<1>4. /\ c.other # 0 /\ c.job # 0 /\ c.job # c.other /\ c.job \in 1..Len(job) /\ c.other \in 1..Len(job)
      /\ job[c.job].lost = "no" /\ job[c.other].lost = "no"
      /\ job[c.job].status # "failed" /\ job[c.other].status # "failed"
  BY <1>1, <1>2, <1>3 DEF Fits, Holds
<1>5. ~(a = "runner")
  BY <1>4 DEF CommandsFit, Single
<1>6. PICK gh \in SUBSET People, hf \in SUBSET People :
        /\ command' = [command EXCEPT ![a] = [c EXCEPT !.who = gh, !.whoHf = hf, !.job = c.other, !.other = c.job,
             !.todo = (IF gh = {} THEN <<"complete">> ELSE <<"run", "work", "complete">>) \o <<"turn">>
                      \o (IF hf = {} THEN <<"complete">> ELSE <<"run", "work", "complete">>)]]
        /\ job' = [j \in DOMAIN job |-> IF Done(j, gh, hf) THEN [job[j] EXCEPT !.worked = TRUE] ELSE job[j]]
  <2>1. PICK status \in {"failed", "pending"} :
         LET Again(pf) == {p \in Commands!Having(pf, status) : table.checkpoint[pf][p].tries < MaxAttempts}
             Stages(who) == IF who = {} THEN <<"complete">> ELSE <<"run", "work", "complete">>
         IN /\ command' = [command EXCEPT ![a] = [command[a] EXCEPT
                 !.who = Again("gh"), !.whoHf = Again("hf"),
                 !.job = command[a].other, !.other = command[a].job,
                 !.todo = Stages(Again("gh")) \o <<"turn">> \o Stages(Again("hf"))]]
            /\ job' = [j \in DOMAIN job |->
                 IF \/ j = command[a].other /\ Again("gh") = {}
                    \/ j = command[a].job /\ Again("hf") = {}
                 THEN [job[j] EXCEPT !.worked = TRUE] ELSE job[j]]
    BY DEF Commands!ReadRows
  <2> DEFINE D(pf) == {p \in Commands!Having(pf, status) : table.checkpoint[pf][p].tries < MaxAttempts}
  <2>2. D("gh") \in SUBSET People /\ D("hf") \in SUBSET People
    BY DEF Commands!Having
  <2>3. /\ command' = [command EXCEPT ![a] = [c EXCEPT !.who = D("gh"), !.whoHf = D("hf"), !.job = c.other, !.other = c.job,
             !.todo = (IF D("gh") = {} THEN <<"complete">> ELSE <<"run", "work", "complete">>) \o <<"turn">>
                      \o (IF D("hf") = {} THEN <<"complete">> ELSE <<"run", "work", "complete">>)]]
        /\ job' = [j \in DOMAIN job |-> IF Done(j, D("gh"), D("hf")) THEN [job[j] EXCEPT !.worked = TRUE] ELSE job[j]]
    BY <2>1, Zenon
  <2> HIDE DEF D
  <2> QED
    BY <2>2, <2>3
<1> DEFINE x == IF gh = {} THEN <<"complete">> ELSE <<"run", "work", "complete">>
           y == IF hf = {} THEN <<"complete">> ELSE <<"run", "work", "complete">>
           t == x \o <<"turn">> \o y
           d == [c EXCEPT !.who = gh, !.whoHf = hf, !.job = c.other, !.other = c.job, !.todo = t]
           Own(j) == Done(j, gh, hf)
<1>7. x \in RetryStages /\ y \in RetryStages /\ (x = <<"complete">> => gh = {}) /\ (y = <<"complete">> => hf = {})
  BY DEF RetryStages
<1>8. command' = [command EXCEPT ![a] = d] /\ job' = [j \in DOMAIN job |-> IF Own(j) THEN [job[j] EXCEPT !.worked = TRUE] ELSE job[j]]
  BY <1>6
<1> HIDE DEF x, y
<1>9. /\ Plan(t) /\ t # <<>> /\ t # <<"work">> /\ t # <<"rows">>
      /\ Has(t, "turn") /\ ~Has(t, "handle_other")
      /\ t[1] \in {"run", "complete"} /\ (t[1] = "complete" => gh = {})
      /\ \A i \in 1..(Len(t) - 1) : t[i] = "turn" /\ t[i + 1] = "complete" => hf = {}
  BY <1>7, TwoPlans
<1> HIDE DEF t
<1>10. /\ d \in CommandRecord /\ d.todo = t /\ d.job = c.other /\ d.other = c.job
  <2>1. t \in Seq(StageNames)
    BY <1>9 DEF Plan
  <2> HIDE DEF c
  <2> QED
    BY <1>1, <2>1 DEF CommandRecord
<1>11. /\ gh = {} => Own(c.other)
       /\ hf = {} => Own(c.job)
       /\ \A j : Own(j) => j \in CommandsHeld(c)
  BY <1>4 DEF CommandsHeld
<1> HIDE DEF d, Own
<1>12. \A j \in DOMAIN job : job'[j] = IF Own(j) THEN [job[j] EXCEPT !.worked = TRUE] ELSE job[j]
  BY <1>8
<1>13. \A j \in DOMAIN job : LET r == [job[j] EXCEPT !.worked = TRUE]
                             IN r \in JobRow /\ r.status = job[j].status /\ r.lost = job[j].lost /\ r.worked /\ Sound(r)
  BY <1>3 DEF JobRow, Sound
<1>14. \A j \in DOMAIN job : /\ job'[j] \in JobRow /\ job'[j].status = job[j].status /\ job'[j].lost = job[j].lost
                             /\ Sound(job'[j]) /\ (Own(j) => job'[j].worked)
  BY <1>3, <1>12, <1>13
<1>15. job' \in Seq(JobRow) /\ Len(job') = Len(job) /\ DOMAIN job' = DOMAIN job
  <2>1. job' \in [1..Len(job) -> JobRow]
    BY <1>3, <1>8, <1>14
  <2> QED
    BY <1>3, <2>1
<1>16. Holds(d, job')
  BY <1>3, <1>4, <1>10, <1>14, <1>15 DEF Holds
<1>17. /\ job'[c.other].status # "failed" /\ (gh = {} => job'[c.other].worked) /\ (hf = {} => job'[c.job].worked)
  BY <1>3, <1>4, <1>11, <1>14
<1>18. Fits(d, job')
  BY <1>4, <1>9, <1>10, <1>16, <1>17 DEF Fits
<1>19. CommandsHeld(d) = CommandsHeld(c)
  BY <1>10 DEF CommandsHeld
<1>20. \A j \in CommandsHeld(c) : j \in DOMAIN job
  BY <1>3, HeldThere
<1>21. /\ \A j \in DOMAIN job : j \notin CommandsHeld(c) => job'[j] = job[j]
       /\ \A j \in CommandsHeld(d) : j \in CommandsHeld(c) \/ j > Len(job)
       /\ Len(job') >= Len(job)
       /\ \A j \in CommandsHeld(c) \cup (DOMAIN job' \ DOMAIN job) :
            Sound(job'[j]) /\ (j \notin CommandsHeld(d) => Closed(job'[j]))
  BY <1>3, <1>11, <1>12, <1>14, <1>15, <1>19, <1>20
<1> HIDE DEF c
<1> QED
  BY <1>5, <1>8, <1>10, <1>15, <1>18, <1>21, OneGoesOn DEF c

LEMMA CommandsRaiseKeeps == ASSUME CommandsFit, NEW a \in Actors, Commands!Raise(a) PROVE CommandsFit'
<1> DEFINE c == command[a]
<1>1. c \in CommandRecord /\ Fits(c, job) /\ Plan(c.todo) /\ (a = "runner" => Single(c)) /\ c # Commands!Idle /\ c.todo # <<>>
  BY DEF CommandsFit, Fits, Commands!Raise, Commands!Ready
<1>2. job \in Seq(JobRow) /\ Len(job) \in Nat /\ DOMAIN job = 1..Len(job) /\ \A j \in DOMAIN job : job[j] \in JobRow /\ Sound(job[j])
  BY DEF CommandsFit
<1>3. c.todo[1] \notin {"handle", "handle_other"} /\ Head(c.todo) = c.todo[1]
  <2>1. Head(c.todo) = c.todo[1]
    BY <1>1 DEF Plan
  <2>2. ~Commands!At(a, "handle") /\ ~Commands!At(a, "handle_other")
    BY DEF Commands!Raise
  <2> QED
    BY <1>1, <2>1, <2>2 DEF Commands!At
<1>4. c.job \in 0..Len(job) /\ c.other \in 0..Len(job) /\ (c.other # 0 => c.job # 0 /\ c.job # c.other)
      /\ (c.job # 0 => job[c.job].lost = "no" /\ job[c.job].status # "failed")
      /\ (c.other # 0 => job[c.other].lost = "no" /\ job[c.other].status # "failed")
  BY <1>1, <1>3 DEF Fits, Holds
<1>5. CASE a # "runner" /\ c.job # 0 /\ ~Commands!At(a, "check") /\ ~Commands!At(a, "create")
  <2> DEFINE t == IF c.other = 0 THEN <<"handle">> ELSE <<"handle", "handle_other">>
             d == [c EXCEPT !.todo = t]
  <2>1. command' = [command EXCEPT ![a] = d] /\ job' = job
    BY <1>5 DEF Commands!Raise, CommandsFit
  <2>2. Plan(t) /\ t # <<>> /\ t[1] = "handle" /\ (Has(t, "handle_other") <=> c.other # 0) /\ ~Has(t, "turn")
        /\ t # <<"work">> /\ t # <<"rows">> /\ \A i \in 1..(Len(t) - 1) : t[i] # "turn"
    <3>1. CASE c.other = 0
      BY <3>1 DEF Plan, Has, Follows, StageNames
    <3>2. CASE c.other # 0
      BY <3>2 DEF Plan, Has, Follows, StageNames
    <3> QED
      BY <3>1, <3>2
  <2> HIDE DEF t
  <2>3. d \in CommandRecord /\ d.todo = t /\ d.job = c.job /\ d.other = c.other
    <3>1. t \in Seq(StageNames)
      BY <2>2 DEF Plan
    <3> HIDE DEF c
    <3> QED
      BY <1>1, <3>1 DEF CommandRecord
  <2> HIDE DEF d
  <2>4. Fits(d, job)
    BY <1>4, <1>5, <2>2, <2>3 DEF Fits, Holds
  <2>5. CommandsHeld(d) = CommandsHeld(c)
    BY <2>3 DEF CommandsHeld
  <2>6. \A j \in CommandsHeld(c) : j \in DOMAIN job
    BY <1>2, HeldThere
  <2>7. /\ \A j \in DOMAIN job : j \notin CommandsHeld(c) => job'[j] = job[j]
        /\ \A j \in CommandsHeld(d) : j \in CommandsHeld(c) \/ j > Len(job)
        /\ Len(job') >= Len(job)
        /\ \A j \in CommandsHeld(c) \cup (DOMAIN job' \ DOMAIN job) :
             Sound(job'[j]) /\ (j \notin CommandsHeld(d) => Closed(job'[j]))
    BY <1>2, <2>1, <2>5, <2>6
  <2> HIDE DEF c
  <2> QED
    BY <1>2, <1>5, <2>1, <2>3, <2>4, <2>7, OneGoesOn DEF c
<1>6. CASE ~(a # "runner" /\ c.job # 0 /\ ~Commands!At(a, "check") /\ ~Commands!At(a, "create"))
  <2> DEFINE why == IF a = "runner" THEN "step failed" ELSE "not scheduled"
  <2>1. /\ command' = [command EXCEPT ![a] = Commands!Idle]
        /\ job' = IF c.job = 0 THEN job ELSE [job EXCEPT ![c.job].lost = why]
    BY <1>6 DEF Commands!Raise
  <2>2. c.other = 0
    <3>1. CASE c.job = 0
      BY <1>4, <3>1
    <3>2. CASE a = "runner"
      BY <1>1, <3>2 DEF Single
    <3>3. CASE Commands!At(a, "check") \/ Commands!At(a, "create")
      BY <1>1, <3>3 DEF Commands!At, Fits
    <3> QED
      BY <1>6, <3>1, <3>2, <3>3
  <2>3. CASE c.job = 0
    BY <1>2, <2>1, <2>2, <2>3, OneLeaves DEF CommandsHeld
  <2>4. CASE c.job # 0
    <3> DEFINE r == [job[c.job] EXCEPT !.lost = why]
    <3>0. c.job \in 1..Len(job)
      BY <1>2, <1>4, <2>4
    <3>1. job' = [job EXCEPT ![c.job] = r] /\ c.job \in 1..Len(job)
      BY <2>1, <2>4, <3>0
    <3>2. r \in JobRow /\ Closed(r)
      <4> DEFINE row0 == job[c.job]
      <4>1. row0 \in JobRow /\ Sound(row0) /\ row0.status # "failed" /\ why \in {"step failed", "not scheduled"}
        BY <1>2, <1>4, <2>4, <3>0
      <4> HIDE DEF row0, why
      <4>2. [row0 EXCEPT !.lost = why] \in JobRow /\ Closed([row0 EXCEPT !.lost = why])
        BY <4>1 DEF JobRow, Closed, Sound
      <4> QED
        BY <4>2 DEF row0
    <3> HIDE DEF r
    <3>4. job' \in Seq(JobRow) /\ Len(job') = Len(job) /\ job'[c.job] = r /\ \A j \in DOMAIN job : j # c.job => job'[j] = job[j]
      BY <1>2, <3>1, <3>2
    <3>5. CommandsHeld(c) = {c.job}
      BY <2>2, <2>4 DEF CommandsHeld
    <3>6. \A j \in DOMAIN job : j \notin CommandsHeld(c) => job'[j] = job[j]
      BY <3>4, <3>5
    <3>7. \A j \in CommandsHeld(c) : Closed(job'[j])
      BY <3>2, <3>4, <3>5
    <3> HIDE DEF c
    <3> QED
      BY <2>1, <3>4, <3>6, <3>7, OneLeaves DEF c
  <2> QED
    BY <2>3, <2>4
<1> QED
  BY <1>5, <1>6

LEMMA MarkFailedKeeps == ASSUME CommandsFit, NEW a \in Actors, Commands!MarkFailed(a) PROVE CommandsFit'
<1> DEFINE c == command[a]
           t == c.todo
<1>1. /\ c \in CommandRecord /\ Fits(c, job) /\ Plan(t) /\ (a = "runner" => Single(c)) /\ t # <<>>
      /\ t[1] \in {"handle", "handle_other"} /\ Commands!Goes(a)
  BY AtStage DEF CommandsFit, Fits, Commands!MarkFailed
<1>2. job \in Seq(JobRow) /\ Len(job) \in Nat /\ DOMAIN job = 1..Len(job) /\ \A j \in DOMAIN job : job[j] \in JobRow /\ Sound(job[j])
  BY DEF CommandsFit
<1>3. Len(t) \in Nat /\ Len(t) >= 1 /\ (Len(t) = 1 \/ Len(t) > 1) /\ (t[1] = "handle_other" => Len(t) = 1)
  BY <1>1, LastStage
<1>4. c.job \in 1..Len(job) /\ c.other \in 0..Len(job) /\ c.job # c.other
      /\ job[c.job].lost = "no" /\ (c.other # 0 => job[c.other].lost = "no" /\ job[c.other].status # "failed")
      /\ (t[1] = "handle_other" => c.other # 0 /\ job[c.job].status = "failed")
  <2>1. t # <<"work">> /\ t[1] # "create"
    BY <1>1, <1>3
  <2>2. c.job # 0
    BY <1>1, <2>1 DEF Fits
  <2>3. t[1] = "handle_other" => Has(t, "handle_other")
    BY <1>3 DEF Has
  <2> QED
    BY <1>1, <1>2, <2>2, <2>3 DEF Fits, Holds
<1>5. ~(a = "runner")
  BY <1>1, <1>3 DEF Single
<1>6. \A j \in 1..Len(job) : job[j].lost = "no" =>
        LET r == [job[j] EXCEPT !.status = "failed"]
        IN r \in JobRow /\ Closed(r) /\ Sound(r) /\ r.status = "failed" /\ r.lost = job[j].lost
  BY <1>2 DEF JobRow, Closed, Sound
<1>7. CASE Len(t) > 1
  <2> DEFINE d == [c EXCEPT !.todo = Tail(@)]
             r == [job[c.job] EXCEPT !.status = "failed"]
  <2>1. command' = [command EXCEPT ![a] = d]
    BY <1>1, <1>7 DEF Commands!Goes, CommandsFit
  <2>2. /\ Plan(Tail(t)) /\ Len(Tail(t)) = Len(t) - 1 /\ Tail(t) # <<>> /\ Tail(t) # <<"work">>
        /\ \A i \in 1..(Len(t) - 1) : Tail(t)[i] = t[i + 1]
        /\ <<t[1], t[2]>> \in Follows
        /\ \A s : Has(Tail(t), s) => Has(t, s)
    BY <1>1, <1>7, PlanTail
  <2>3. t[1] = "handle" /\ t[2] = "handle_other" /\ Tail(t)[1] = "handle_other"
    BY <1>1, <1>3, <1>7, <2>2 DEF Follows
  <2>4. Len(Tail(t)) = 1
    BY <2>2, <2>3, LastStage
  <2>5. job' = [job EXCEPT ![c.job] = r]
    <3>1. Commands!At(a, "handle") /\ ~Commands!At(a, "handle_other")
      BY <1>1, <1>3, <2>3 DEF Commands!At, Commands!MarkFailed, Plan
    <3> QED
      BY <3>1 DEF Commands!MarkFailed, Commands!SetJob
  <2>6. r \in JobRow /\ Sound(r) /\ r.status = "failed" /\ r.lost = "no"
    BY <1>4, <1>6
  <2>7. d \in CommandRecord /\ d.todo = Tail(t) /\ d.job = c.job /\ d.other = c.other
    <3>1. Tail(t) \in Seq(StageNames)
      BY <2>2 DEF Plan
    <3> HIDE DEF c
    <3> QED
      BY <1>1, <3>1 DEF CommandRecord, c
  <2>8. Has(t, "handle_other") /\ Has(Tail(t), "handle_other") /\ 1..(Len(Tail(t)) - 1) = {}
    <3> DEFINE u == Tail(t)
               n == Len(t)
               m == Len(u)
    <3>1. n \in Nat /\ n > 1 /\ m = 1 /\ t[2] = "handle_other" /\ u[1] = "handle_other"
      BY <1>3, <1>7, <2>3, <2>4
    <3> HIDE DEF u, n, m
    <3>2. 2 \in 1..n /\ 1 \in 1..m /\ 1..(m - 1) = {}
      BY <3>1
    <3>3. Has(t, "handle_other") /\ Has(u, "handle_other")
      BY <3>1, <3>2 DEF Has, n, m
    <3> QED
      BY <3>2, <3>3 DEF u, m
  <2>9. c.other # 0
    BY <1>1, <2>8 DEF Fits
  <2> HIDE DEF d, r
  <2>10. /\ job' \in Seq(JobRow) /\ Len(job') = Len(job) /\ job'[c.job] = r
         /\ \A j \in DOMAIN job : j # c.job => job'[j] = job[j]
    BY <1>2, <1>4, <2>5, <2>6
  <2>11. Holds(d, job')
    BY <1>2, <1>4, <2>6, <2>7, <2>10 DEF Holds
  <2>12. Fits(d, job')
    <3> DEFINE u == Tail(t)
    <3>1. /\ Plan(u) /\ u # <<>> /\ u # <<"work">> /\ u[1] = "handle_other" /\ d.todo = u
          /\ Has(u, "handle_other") /\ 1..(Len(u) - 1) = {}
      BY <2>2, <2>3, <2>7, <2>8
    <3> HIDE DEF u
    <3>2. u # <<"rows">>
      <4>1. "rows" # "handle_other"
        OBVIOUS
      <4> QED
        BY <3>1, <4>1
    <3>3. \A i \in 1..(Len(u) - 1) : u[i] = "turn" /\ u[i + 1] = "complete" => job'[c.other].worked
      BY <3>1
    <3>4. c.job # 0
      BY <1>2, <1>4
    <3> QED
      BY <3>3, <3>4, <2>6, <2>7, <2>9, <2>10, <2>11, <3>1, <3>2 DEF Fits
  <2>13. CommandsHeld(d) = CommandsHeld(c)
    BY <2>7 DEF CommandsHeld
  <2>14. \A j \in CommandsHeld(c) : j \in DOMAIN job /\ Sound(job'[j])
    BY <1>2, <2>6, <2>10, HeldThere
  <2>15. /\ \A j \in DOMAIN job : j \notin CommandsHeld(c) => job'[j] = job[j]
         /\ \A j \in CommandsHeld(d) : j \in CommandsHeld(c) \/ j > Len(job)
         /\ Len(job') >= Len(job)
         /\ \A j \in CommandsHeld(c) \cup (DOMAIN job' \ DOMAIN job) :
              Sound(job'[j]) /\ (j \notin CommandsHeld(d) => Closed(job'[j]))
    <3>1. c.job \in CommandsHeld(c)
      BY <1>2, <1>4 DEF CommandsHeld
    <3>2. DOMAIN job' = DOMAIN job /\ Len(job') >= Len(job)
      BY <1>2, <2>10
    <3> HIDE DEF c
    <3> QED
      BY <2>10, <2>13, <2>14, <3>1, <3>2
  <2> HIDE DEF c
  <2> QED
    BY <1>5, <2>1, <2>7, <2>10, <2>12, <2>15, OneGoesOn DEF c
<1>8. CASE Len(t) = 1
  <2> DEFINE n == IF t[1] = "handle" THEN c.job ELSE c.other
             r == [job[n] EXCEPT !.status = "failed"]
  <2>1. command' = [command EXCEPT ![a] = Commands!Idle]
    BY <1>1, <1>8 DEF Commands!Goes
  <2>2. job' = [job EXCEPT ![n] = r]
    <3>1. Head(t) = t[1]
      BY <1>1 DEF Plan
    <3>2. CASE t[1] = "handle"
      BY <3>1, <3>2 DEF Commands!MarkFailed, Commands!SetJob, Commands!At
    <3>3. CASE t[1] # "handle"
      BY <1>1, <3>1, <3>3 DEF Commands!MarkFailed, Commands!SetJob, Commands!At
    <3> QED
      BY <3>2, <3>3
  <2>3. n \in 1..Len(job) /\ job[n].lost = "no"
    BY <1>1, <1>2, <1>4
  <2>4. r \in JobRow /\ Closed(r)
    BY <1>6, <2>3
  <2>5. t[1] = "handle" => (c.other # 0 => job[c.other].status = "completed")
    <3> SUFFICES ASSUME t[1] = "handle", c.other # 0 PROVE job[c.other].status = "completed"
      OBVIOUS
    <3>1. ~Has(t, "turn") /\ ~Has(t, "handle_other") /\ ~Has(t, "rows")
      BY <1>8 DEF Has
    <3> QED
      BY <1>1, <3>1 DEF Fits
  <2>6. \A j \in CommandsHeld(c) : j # n => Closed(job[j])
    <3> SUFFICES ASSUME NEW j \in CommandsHeld(c), j # n PROVE Closed(job[j])
      OBVIOUS
    <3>1. j \in DOMAIN job /\ Sound(job[j])
      BY <1>2, HeldThere
    <3>2. CASE t[1] = "handle"
      BY <2>5, <3>1, <3>2 DEF CommandsHeld, Closed, Sound
    <3>3. CASE t[1] = "handle_other"
      BY <1>4, <3>1, <3>3 DEF CommandsHeld, Closed, Sound
    <3> QED
      BY <1>1, <3>2, <3>3
  <2> HIDE DEF r, n
  <2>7. /\ job' \in Seq(JobRow) /\ Len(job') = Len(job) /\ job'[n] = r
        /\ \A j \in DOMAIN job : j # n => job'[j] = job[j]
    BY <1>2, <2>2, <2>3, <2>4
  <2>8. n \in CommandsHeld(c)
    BY <1>1, <1>2, <1>4, <2>3 DEF CommandsHeld, n
  <2>9. /\ \A j \in DOMAIN job : j \notin CommandsHeld(c) => job'[j] = job[j]
        /\ \A j \in CommandsHeld(c) : Closed(job'[j])
    <3>1. \A j \in CommandsHeld(c) : j \in DOMAIN job
      BY <1>2, HeldThere
    <3> QED
      BY <2>4, <2>6, <2>7, <2>8, <3>1
  <2> HIDE DEF c
  <2> QED
    BY <2>1, <2>7, <2>9, OneLeaves DEF c
<1> QED
  BY <1>3, <1>7, <1>8

-----------------------------------------------------------------------------
(* A command begins.                                                       *)

Beginnings ==
    {<<"create", "run", "work", "complete">>, <<"create", "check", "run", "work", "complete">>,
     <<"create", "gh", "hf", "ln", "run", "work", "complete">>, <<"create", "create", "rows">>, <<"work">>}
LEMMA BeginningsPlan ==
    ASSUME NEW t \in Beginnings
    PROVE  /\ Plan(t) /\ t # <<>> /\ ~Has(t, "turn") /\ ~Has(t, "handle_other") /\ t # <<"rows">>
           /\ t[1] \in {"create", "work"} /\ (t[1] = "create" => t[2] # "rows") /\ (t[1] = "work" => t = <<"work">>)
           /\ \A i \in 1..(Len(t) - 1) : t[i] # "turn"
           /\ t \in {<<"create", "run", "work", "complete">>, <<"work">>} =>
                \A i \in 1..Len(t) : t[i] \in {"create", "run", "work", "complete"}
<1>1. CASE t = <<"create", "run", "work", "complete">>
  BY <1>1 DEF Plan, Has, Follows, StageNames
<1>2. CASE t = <<"create", "check", "run", "work", "complete">>
  BY <1>2 DEF Plan, Has, Follows, StageNames
<1>3. CASE t = <<"create", "gh", "hf", "ln", "run", "work", "complete">>
  BY <1>3 DEF Plan, Has, Follows, StageNames
<1>4. CASE t = <<"create", "create", "rows">>
  BY <1>4 DEF Plan, Has, Follows, StageNames
<1>5. CASE t = <<"work">>
  BY <1>5 DEF Plan, Has, Follows, StageNames
<1> QED
  BY <1>1, <1>2, <1>3, <1>4, <1>5 DEF Beginnings

LEMMA BeginsKeeps ==
    ASSUME CommandsFit, NEW a \in Actors, command[a] = Commands!Idle, job' = job,
           NEW d \in CommandRecord, d.todo \in Beginnings, d.job = 0, d.other = 0,
           a = "runner" => d.todo \in {<<"create", "run", "work", "complete">>, <<"work">>},
           command' = [command EXCEPT ![a] = d]
    PROVE  CommandsFit'
<1> DEFINE t == d.todo
<1> HIDE DEF t
<1>0. t \in Beginnings
  BY DEF t
<1>1. /\ Plan(t) /\ t # <<>> /\ ~Has(t, "turn") /\ ~Has(t, "handle_other") /\ t # <<"rows">>
      /\ t[1] \in {"create", "work"} /\ (t[1] = "create" => t[2] # "rows") /\ (t[1] = "work" => t = <<"work">>)
      /\ \A i \in 1..(Len(t) - 1) : t[i] # "turn"
      /\ t \in {<<"create", "run", "work", "complete">>, <<"work">>} =>
           \A i \in 1..Len(t) : t[i] \in {"create", "run", "work", "complete"}
  BY <1>0, BeginningsPlan
<1>2. d.todo = t /\ d.job = 0 /\ d.other = 0
  BY DEF t
<1>3. job \in Seq(JobRow) /\ Len(job) \in Nat
  BY DEF CommandsFit
<1>4. Fits(d, job) /\ CommandsHeld(d) = {} /\ (a = "runner" => Single(d))
  BY <1>1, <1>2, <1>3 DEF Fits, Holds, CommandsHeld, Single
<1>5. CommandsHeld(command[a]) = {}
  BY DEF CommandsHeld, Commands!Idle
<1>6. /\ \A j \in DOMAIN job : j \notin CommandsHeld(command[a]) => job'[j] = job[j]
      /\ \A j \in CommandsHeld(d) : j \in CommandsHeld(command[a]) \/ j > Len(job)
      /\ Len(job') >= Len(job) /\ job' \in Seq(JobRow) /\ Fits(d, job')
      /\ \A j \in CommandsHeld(command[a]) \cup (DOMAIN job' \ DOMAIN job) :
           Sound(job'[j]) /\ (j \notin CommandsHeld(d) => Closed(job'[j]))
  BY <1>3, <1>4, <1>5
<1> QED
  BY <1>2, <1>4, <1>6, OneGoesOn

-----------------------------------------------------------------------------
(* The tables, and the pipeline over them.                                 *)

Checkpoint == [status : {"absent", "discovered", "pending", "ingested", "failed"}, tries : Nat]
TableTyped == table \in [checkpoint : [Commands!Platforms -> [People -> Checkpoint]], org : BOOLEAN]

\* What an ingestion leaves of somebody, and what nothing takes back.
TriedGh(p) == table.checkpoint["gh"][p].status \in {"ingested", "failed"}
TriedHf(p) == table.checkpoint["hf"][p].status \in {"ingested", "failed", "pending"}

TableGrows ==
    /\ TableTyped'
    /\ \A p \in People : (TriedGh(p) => TriedGh(p)') /\ (TriedHf(p) => TriedHf(p)')

StepNames == {"gh_discover", "gh_ingest", "hf_discover", "hf_ingest", "hf_crossref", "identity_resolve",
              "ln_discover", "ln_crossref", "ln_ingest", "bridge_sync", "embed"}
\* The steps whose handlers do without the parameters.
TextSteps == {"ln_discover", "hf_crossref", "ln_crossref"}
Ordered(s) ==
    /\ s \in Seq(StepNames)
    /\ s # <<>> => s[Len(s)] \notin TextSteps
    /\ \A i, k \in 1..Len(s) :
         /\ s[i] = "gh_ingest" /\ s[k] = "gh_discover" => k < i
         /\ s[i] = "hf_ingest" /\ s[k] \in {"hf_discover", "hf_crossref"} => k < i
RunRecord == [steps : Seq(StepNames), at : Nat, text : BOOLEAN,
              status : {"none", "running", "paused", "completed", "failed", "died"},
              named : SUBSET People, known : SUBSET People, onHf : SUBSET People]

\* The runner's command is that of its step.
Performs(c, r) ==
    LET name == r.steps[r.at]
    IN /\ r.status = "running" /\ (r.text => name = "ln_discover")
       /\ c.kind = "gh_search" => name = "gh_discover" /\ c.todo = <<"work">>
       /\ c.kind = "hf_search" => name = "hf_discover" /\ c.todo = <<"work">>
       /\ name = "gh_ingest" => c.kind = "gh_ingest" /\ c.todo # <<"work">> /\ (r.named = {} => c.who = r.known)
       /\ name = "hf_ingest" => c.kind = "hf_ingest" /\ c.todo # <<"work">> /\ c.who = r.onHf
\* What a step has tried when it is done.
HasTried(name, r) ==
    /\ name = "gh_ingest" /\ r.named = {} => \A p \in r.known : TriedGh(p)
    /\ name = "hf_ingest" => \A p \in r.onHf : TriedHf(p)

CommandsRunTyped ==
    /\ run \in RunRecord /\ Ordered(run.steps)
    /\ run.status \in {"running", "paused"} => run.at \in 1..Len(run.steps)
    /\ run.status = "completed" => ~run.text
RunTries ==
    \A i \in 1..Len(run.steps) : i < run.at => HasTried(run.steps[i], run)
RunnerPerforms ==
    command["runner"] # Commands!Idle =>
      /\ Performs(command["runner"], run)
      /\ command["runner"].todo[1] = "complete" => HasTried(run.steps[run.at], run)

CommandsCInv == CommandsFit /\ TableTyped /\ CommandsRunTyped /\ RunTries /\ RunnerPerforms

LEMMA StepsOrdered ==
    ASSUME NEW type \in {"daily", "weekly", "seed", "gh_only", "hf_only", "ln_only", "dependent"}
    PROVE  Ordered(Commands!Steps[type]) /\ Commands!Steps[type] # <<>>
<1>1. CASE type = "daily"
  BY <1>1 DEF Commands!Steps, Ordered, StepNames, TextSteps
<1>2. CASE type = "weekly"
  BY <1>2 DEF Commands!Steps, Ordered, StepNames, TextSteps
<1>3. CASE type = "seed"
  BY <1>3 DEF Commands!Steps, Ordered, StepNames, TextSteps
<1>4. CASE type = "gh_only"
  BY <1>4 DEF Commands!Steps, Ordered, StepNames, TextSteps
<1>5. CASE type = "hf_only"
  BY <1>5 DEF Commands!Steps, Ordered, StepNames, TextSteps
<1>6. CASE type = "ln_only"
  BY <1>6 DEF Commands!Steps, Ordered, StepNames, TextSteps
<1>7. CASE type = "dependent"
  BY <1>7 DEF Commands!Steps, Ordered, StepNames, TextSteps
<1> QED
  BY <1>1, <1>2, <1>3, <1>4, <1>5, <1>6, <1>7

LEMMA MarkGrows ==
    ASSUME TableTyped, NEW pf \in {"gh", "ln"}, NEW people, NEW status \in {"discovered", "pending"},
           NEW marked, marked = Commands!Mark(pf, people \cap Commands!Having(pf, "absent"), status),
           table' = marked \/ \E org \in BOOLEAN : table' = [marked EXCEPT !.org = org]
    PROVE  TableGrows
<1> DEFINE old == table.checkpoint[pf]
           new == [p \in People |-> IF p \in people \cap Commands!Having(pf, "absent")
                                    THEN [old[p] EXCEPT !.status = status] ELSE old[p]]
<1>1. table \in [checkpoint : [Commands!Platforms -> [People -> Checkpoint]], org : BOOLEAN] /\ pf \in Commands!Platforms
  BY DEF TableTyped, Commands!Platforms
<1>2. PICK org \in BOOLEAN : table' = [checkpoint |-> [table.checkpoint EXCEPT ![pf] = new], org |-> org]
  <2>0. Commands!Mark(pf, people \cap Commands!Having(pf, "absent"), status) = [table EXCEPT !.checkpoint[pf] = new]
    BY <1>1 DEF Commands!Mark
  <2> HIDE DEF new
  <2>1. Commands!Mark(pf, people \cap Commands!Having(pf, "absent"), status)
          = [checkpoint |-> [table.checkpoint EXCEPT ![pf] = new], org |-> table.org]
    BY <1>1, <2>0
  <2>2. table.org \in BOOLEAN
    BY <1>1
  <2> QED
    BY <2>1, <2>2
<1>3. \A p \in People : old[p] \in Checkpoint
  BY <1>1
<1>4. \A p \in People : new[p] = IF p \in people /\ old[p].status = "absent" THEN [old[p] EXCEPT !.status = status] ELSE old[p]
  BY DEF Commands!Having
<1>5. \A p \in People : new[p] \in Checkpoint /\ (old[p].status # "absent" => new[p] = old[p])
  BY <1>3, <1>4 DEF Checkpoint
<1>6. new \in [People -> Checkpoint]
  BY <1>5
<1>7. /\ table'.checkpoint[pf] = new /\ \A q \in Commands!Platforms : q # pf => table'.checkpoint[q] = table.checkpoint[q]
      /\ table' \in [checkpoint : [Commands!Platforms -> [People -> Checkpoint]], org : BOOLEAN]
  <2> HIDE DEF new
  <2> QED
    BY <1>1, <1>2, <1>6
<1>8. table'.checkpoint["hf"] = table.checkpoint["hf"]
  BY <1>7 DEF Commands!Platforms
<1>9. ASSUME NEW p \in People, TriedGh(p) PROVE TriedGh(p)'
  <2>1. CASE pf = "gh"
    BY <1>5, <1>7, <1>9, <2>1 DEF TriedGh
  <2>2. CASE pf # "gh"
    BY <1>7, <1>9, <2>2 DEF TriedGh, Commands!Platforms
  <2> QED
    BY <2>1, <2>2
<1> QED
  BY <1>7, <1>8, <1>9 DEF TableGrows, TableTyped, TriedHf

LEMMA IngestedGrows ==
    ASSUME TableTyped, NEW pf \in Commands!Platforms, NEW people, table' \in Commands!Ingested(pf, people)
    PROVE  /\ TableGrows
           /\ \A p \in people \cap People : (pf = "gh" => TriedGh(p)') /\ (pf = "hf" => TriedHf(p)')
<1> DEFINE old == table.checkpoint[pf]
           todo == people \ Commands!Having(pf, "ingested")
           ends == {"ingested", "failed"} \cup (IF pf = "hf" THEN {"pending"} ELSE {})
           more == IF pf = "gh" THEN 2 ELSE 1
           Row(r, e) == [status |-> e, tries |-> r.tries + more]
<1>1. table \in [checkpoint : [Commands!Platforms -> [People -> Checkpoint]], org : BOOLEAN]
  BY DEF TableTyped
<1>2. PICK end \in [todo -> ends] : table' = [table EXCEPT !.checkpoint[pf] =
                                                [p \in People |-> IF p \in todo THEN Row(@[p], end[p]) ELSE @[p]]]
  BY DEF Commands!Ingested
<1> DEFINE new == [p \in People |-> IF p \in todo THEN Row(old[p], end[p]) ELSE old[p]]
<1>3. table' = [checkpoint |-> [table.checkpoint EXCEPT ![pf] = new], org |-> table.org]
  BY <1>1, <1>2
<1>4. \A p \in People : old[p] \in Checkpoint
  BY <1>1
<1>5. \A p \in People : p \in todo => new[p] \in Checkpoint /\ new[p].status \in ends
  <2>1. more \in Nat /\ ends \subseteq {"ingested", "failed", "pending"}
    OBVIOUS
  <2>2. \A p \in todo : end[p] \in ends
    BY <1>2
  <2>3. \A p \in People : p \in todo => new[p] = [status |-> end[p], tries |-> old[p].tries + more]
    OBVIOUS
  <2>4. \A p \in People : old[p].tries \in Nat
    BY <1>4 DEF Checkpoint
  <2> HIDE DEF more, ends, todo, old, new
  <2> SUFFICES ASSUME NEW p \in People, p \in todo PROVE new[p] \in Checkpoint /\ new[p].status \in ends
    OBVIOUS
  <2>5. new[p] = [status |-> end[p], tries |-> old[p].tries + more]
    BY <2>3
  <2>6. end[p] \in ends
    BY <2>2
  <2>7. end[p] \in {"ingested", "failed", "pending"}
    BY <2>1, <2>6
  <2>8. old[p].tries + more \in Nat
    BY <2>1, <2>4
  <2> QED
    BY <2>5, <2>6, <2>7, <2>8 DEF Checkpoint
<1>6. \A p \in People : p \notin todo => new[p] = old[p] /\ (p \in people => old[p].status = "ingested")
  BY DEF Commands!Having
<1>7. new \in [People -> Checkpoint]
  BY <1>4, <1>5, <1>6
<1>8. /\ table'.checkpoint[pf] = new /\ \A q \in Commands!Platforms : q # pf => table'.checkpoint[q] = table.checkpoint[q]
      /\ table' \in [checkpoint : [Commands!Platforms -> [People -> Checkpoint]], org : BOOLEAN]
  <2> HIDE DEF new
  <2> QED
    BY <1>1, <1>3, <1>7
<1> HIDE DEF new, todo
<1>9. ASSUME NEW p \in People PROVE (TriedGh(p) \/ (pf = "gh" /\ p \in people)) => TriedGh(p)'
  <2>1. CASE pf = "gh"
    BY <1>5, <1>6, <1>8, <2>1 DEF TriedGh
  <2>2. CASE pf # "gh"
    BY <1>8, <2>2 DEF TriedGh, Commands!Platforms
  <2> QED
    BY <2>1, <2>2
<1>10. ASSUME NEW p \in People PROVE (TriedHf(p) \/ (pf = "hf" /\ p \in people)) => TriedHf(p)'
  <2>1. CASE pf = "hf"
    BY <1>5, <1>6, <1>8, <2>1 DEF TriedHf
  <2>2. CASE pf # "hf"
    BY <1>8, <2>2 DEF TriedHf, Commands!Platforms
  <2> QED
    BY <2>1, <2>2
<1> QED
  BY <1>8, <1>9, <1>10 DEF TableGrows, TableTyped

LEMMA TriedStays ==
    ASSUME TableGrows, NEW name, NEW r, r \in RunRecord, HasTried(name, r)
    PROVE  HasTried(name, r)'
  BY DEF TableGrows, HasTried, RunRecord

\* The runner and its pipeline stay as they are.
LEMMA RunStays ==
    ASSUME CommandsCInv, TableGrows, run' = run, command'["runner"] = command["runner"]
    PROVE  TableTyped' /\ CommandsRunTyped' /\ RunTries' /\ RunnerPerforms'
<1>1. run \in RunRecord
  BY DEF CommandsCInv, CommandsRunTyped
<1>2. \A name : HasTried(name, run) => HasTried(name, run)'
  BY <1>1 DEF TableGrows, HasTried, RunRecord
<1>3. RunTries'
  BY <1>2 DEF CommandsCInv, RunTries, HasTried
<1>4. RunnerPerforms'
  BY <1>2 DEF CommandsCInv, RunnerPerforms, HasTried
<1> QED
  BY <1>3, <1>4 DEF TableGrows, CommandsCInv, CommandsRunTyped

\* The runner goes on to another stage of the step it performs.
LEMMA RunnerMoves ==
    ASSUME CommandsCInv, TableGrows, run' = run, command["runner"] # Commands!Idle, command["runner"].todo # <<"work">>,
           command'["runner"].kind = command["runner"].kind, command'["runner"].who = command["runner"].who,
           command'["runner"].todo # <<"work">>,
           command'["runner"].todo[1] = "complete" => HasTried(run.steps[run.at], run)'
    PROVE  TableTyped' /\ CommandsRunTyped' /\ RunTries' /\ RunnerPerforms'
<1>1. run \in RunRecord
  BY DEF CommandsCInv, CommandsRunTyped
<1>2. \A name : HasTried(name, run) => HasTried(name, run)'
  BY <1>1 DEF TableGrows, HasTried, RunRecord
<1>3. RunTries'
  BY <1>2 DEF CommandsCInv, RunTries, HasTried
<1>4. RunnerPerforms'
  BY DEF CommandsCInv, RunnerPerforms, Performs, HasTried
<1> QED
  BY <1>3, <1>4 DEF TableGrows, CommandsCInv, CommandsRunTyped

\* The step is done.
LEMMA RunnerAdvances ==
    ASSUME CommandsCInv, TableGrows, run.status = "running", command'["runner"] = Commands!Idle,
           run.text => run.steps[run.at] \in TextSteps,
           NEW found \in SUBSET People, NEW there \in SUBSET People,
           found = run.known \/ run.steps[run.at] = "gh_discover",
           there = run.onHf \/ run.steps[run.at] \in {"hf_discover", "hf_crossref"},
           run' = [Commands!NextStep("completed") EXCEPT !.known = found, !.onHf = there],
           NEW done, done = run.steps[run.at],
           HasTried(done, run)' \/ done \notin {"gh_ingest", "hf_ingest"}
    PROVE  TableTyped' /\ CommandsRunTyped' /\ RunTries' /\ RunnerPerforms'
<1>1. run \in RunRecord /\ Ordered(run.steps) /\ run.at \in 1..Len(run.steps) /\ Len(run.steps) \in Nat
  BY DEF CommandsCInv, CommandsRunTyped, RunRecord
<1>2. /\ run' \in RunRecord /\ run'.steps = run.steps /\ run'.at = run.at + 1 /\ run'.text = run.text
      /\ run'.named = run.named /\ run'.known = found /\ run'.onHf = there
      /\ run'.status = IF run.at = Len(run.steps) THEN "completed" ELSE "running"
  <2> DEFINE r == Commands!NextStep("completed")
  <2>1. /\ r \in RunRecord /\ r.steps = run.steps /\ r.at = run.at + 1 /\ r.text = run.text
        /\ r.named = run.named
        /\ r.status = IF run.at = Len(run.steps) THEN "completed" ELSE "running"
    <3> DEFINE status == IF run.at = Len(run.steps) THEN "completed" ELSE "running"
    <3>1. r = [run EXCEPT !.at = run.at + 1, !.status = status] /\ run.at + 1 \in Nat /\ status \in {"completed", "running"}
      BY <1>1 DEF Commands!NextStep, RunRecord
    <3> HIDE DEF r, status
    <3>2. r \in RunRecord /\ r.steps = run.steps /\ r.at = run.at + 1 /\ r.text = run.text /\ r.named = run.named /\ r.status = status
      BY <1>1, <3>1 DEF RunRecord
    <3> QED
      BY <3>2 DEF status
  <2> HIDE DEF r
  <2>2. run' = [r EXCEPT !.known = found, !.onHf = there]
    BY DEF r
  <2> QED
    BY <2>1, <2>2 DEF RunRecord
<1>3. run.at = Len(run.steps) => ~run.text
  BY <1>1 DEF Ordered
<1>4. CommandsRunTyped'
  BY <1>1, <1>2, <1>3 DEF CommandsRunTyped
<1>5. ASSUME NEW i \in 1..Len(run.steps), i < run.at + 1, NEW name, name = run.steps[i] PROVE HasTried(name, run)'
  <2>0. ~(run.at < i)
    BY <1>1, <1>5
  <2>1. name = "gh_ingest" => found = run.known
    <3>1. run.steps[i] = "gh_ingest" /\ run.steps[run.at] = "gh_discover" => run.at < i
      BY <1>1 DEF Ordered
    <3> QED
      BY <1>5, <2>0, <3>1
  <2>2. name = "hf_ingest" => there = run.onHf
    <3>1. run.steps[i] = "hf_ingest" /\ run.steps[run.at] \in {"hf_discover", "hf_crossref"} => run.at < i
      BY <1>1 DEF Ordered
    <3> QED
      BY <1>5, <2>0, <3>1
  <2>3. CASE i = run.at
    <3>1. CASE name \in {"gh_ingest", "hf_ingest"}
      BY <1>5, <2>3, <3>1
    <3>2. CASE name \notin {"gh_ingest", "hf_ingest"}
      BY <1>2, <3>2 DEF HasTried
    <3> QED
      BY <3>1, <3>2
  <2>4. CASE i < run.at
    <3>1. HasTried(name, run)
      BY <1>5, <2>4 DEF CommandsCInv, RunTries
    <3> QED
      BY <1>1, <1>2, <2>1, <2>2, <3>1 DEF HasTried, TableGrows, RunRecord
  <2> QED
    BY <1>1, <1>5, <2>3, <2>4
<1>6. RunTries'
  BY <1>2, <1>5 DEF RunTries
<1> QED
  BY <1>4, <1>6 DEF TableGrows, RunnerPerforms

\* The pipeline ends, or is paused and forgets.
LEMMA RunnerStops ==
    ASSUME CommandsCInv, TableGrows, command'["runner"] = Commands!Idle,
           NEW status \in {"failed", "died"}, run' = [run EXCEPT !.status = status]
    PROVE  TableTyped' /\ CommandsRunTyped' /\ RunTries' /\ RunnerPerforms'
<1>1. run \in RunRecord /\ Ordered(run.steps)
  BY DEF CommandsCInv, CommandsRunTyped
<1>2. /\ run' \in RunRecord /\ run'.steps = run.steps /\ run'.at = run.at /\ run'.text = run.text
      /\ run'.named = run.named /\ run'.known = run.known /\ run'.onHf = run.onHf /\ run'.status = status
  BY <1>1 DEF RunRecord
<1>3. \A name : HasTried(name, run) => HasTried(name, run)'
  BY <1>1, <1>2 DEF TableGrows, HasTried, RunRecord
<1>4. RunTries'
  BY <1>2, <1>3 DEF CommandsCInv, RunTries
<1> QED
  BY <1>1, <1>2, <1>4 DEF TableGrows, CommandsRunTyped, RunnerPerforms

LEMMA TableStays == ASSUME TableTyped, table' = table PROVE TableGrows
  BY DEF TableTyped, TableGrows, TriedGh, TriedHf

\* The runner begins a command for its step.
LEMMA RunnerBegins ==
    ASSUME CommandsCInv, table' = table, run' = run, command'["runner"].todo[1] # "complete", Performs(command'["runner"], run)
    PROVE  TableTyped' /\ CommandsRunTyped' /\ RunTries' /\ RunnerPerforms'
<1>1. TableGrows
  BY TableStays DEF CommandsCInv
<1>2. run \in RunRecord
  BY DEF CommandsCInv, CommandsRunTyped
<1>3. \A name : HasTried(name, run) => HasTried(name, run)'
  BY <1>1, <1>2 DEF TableGrows, HasTried, RunRecord
<1>4. RunTries'
  BY <1>3 DEF CommandsCInv, RunTries, HasTried
<1>5. RunnerPerforms'
  BY DEF RunnerPerforms, Performs
<1> QED
  BY <1>1, <1>4, <1>5 DEF TableGrows, CommandsCInv, CommandsRunTyped

-----------------------------------------------------------------------------
LEMMA StagesKeepCommands ==
    ASSUME CommandsFit, NEW a \in Actors, Commands!Stage(a) PROVE CommandsFit'
  BY CreateJobKeeps, ReadRowsKeeps, TurnToHfKeeps, CheckOrgKeeps, IngestPersonKeeps, MarkRunningKeeps,
     WorkKeeps,
     MarkCompletedKeeps, CommandsRaiseKeeps, MarkFailedKeeps, HandlerFailsKeeps, DiesKeeps DEF Commands!Stage

\* What a stage of a command does to the tables.
LEMMA StagesGrow ==
    ASSUME TableTyped, NEW a \in Actors, Commands!Stage(a) PROVE TableGrows
<1>1. CASE Commands!CreateJob(a) \/ Commands!ReadRows(a) \/ Commands!TurnToHf(a) \/ Commands!CheckOrg(a) \/ Commands!MarkRunning(a) \/ Commands!MarkCompleted(a)
           \/ Commands!Raise(a) \/ Commands!MarkFailed(a) \/ Commands!HandlerFails(a) \/ Commands!Dies(a)
  BY <1>1, TableStays
     DEF Commands!CreateJob, Commands!ReadRows, Commands!TurnToHf, Commands!CheckOrg, Commands!MarkRunning,
         Commands!MarkCompleted, Commands!Raise, Commands!MarkFailed,
     Commands!HandlerFails, Commands!Dies
<1>2. CASE Commands!IngestPerson(a)
  <2>1. PICK pf \in Commands!Platforms : table' \in {table} \cup Commands!Ingested(pf, command[a].who)
    BY <1>2 DEF Commands!IngestPerson
  <2> QED
    BY <2>1, TableStays, IngestedGrows
<1>3. CASE Commands!Work(a)
  <2>1. Commands!Ingest(a)
    BY <1>3 DEF Commands!Work
  <2>2. CASE \E people : \E pf \in Commands!Platforms : table' \in Commands!Ingested(pf, people)
    BY <2>2, IngestedGrows
  <2>3. CASE table' = Commands!UpsertPendingUrls(Listed \cap Commands!Having("gh", "ingested"))
    <3>1. table' = Commands!Mark("ln", (Listed \cap Commands!Having("gh", "ingested")) \cap Commands!Having("ln", "absent"), "pending")
      BY <2>3 DEF Commands!UpsertPendingUrls
    <3> QED
      BY <3>1, MarkGrows
  <2>4. CASE \E found \in SUBSET People : table' = [Commands!BulkMarkDiscovered(found) EXCEPT !.org = @ \/ command[a].org]
    <3>1. PICK found \in SUBSET People : table' = [Commands!BulkMarkDiscovered(found) EXCEPT !.org = @ \/ command[a].org]
      BY <2>4
    <3> DEFINE org == Commands!BulkMarkDiscovered(found).org \/ command[a].org
    <3>2. table' = [Commands!Mark("gh", found \cap Commands!Having("gh", "absent"), "discovered") EXCEPT !.org = org]
      BY <3>1 DEF Commands!BulkMarkDiscovered
    <3>3. org \in BOOLEAN
      OBVIOUS
    <3> HIDE DEF org
    <3> QED
      BY <3>2, <3>3, MarkGrows
  <2>5. CASE table' = table
    BY <2>5, TableStays
  <2> QED
    BY <2>1, <2>2, <2>3, <2>4, <2>5 DEF Commands!Ingest, Commands!Platforms
<1> QED
  BY <1>1, <1>2, <1>3 DEF Commands!Stage

LEMMA RunnerAdvancesPlainly ==
    ASSUME CommandsCInv, TableGrows, run.status = "running", command'["runner"] = Commands!Idle,
           run.text => run.steps[run.at] \in TextSteps, run' = Commands!NextStep("completed"),
           NEW done, done = run.steps[run.at],
           HasTried(done, run)' \/ done \notin {"gh_ingest", "hf_ingest"}
    PROVE  TableTyped' /\ CommandsRunTyped' /\ RunTries' /\ RunnerPerforms'
<1>1. run \in RunRecord
  BY DEF CommandsCInv, CommandsRunTyped
<1> DEFINE status == IF run.at = Len(run.steps) THEN "completed" ELSE run.status
           r == [run EXCEPT !.at = run.at + 1, !.status = status]
<1>2. run' = r
  BY DEF Commands!NextStep
<1>3. r = [r EXCEPT !.known = run.known, !.onHf = run.onHf]
  <2> HIDE DEF status
  <2> QED
    BY <1>1 DEF RunRecord
<1>4. run' = [Commands!NextStep("completed") EXCEPT !.known = run.known, !.onHf = run.onHf]
  <2> HIDE DEF r
  <2> QED
    BY <1>2, <1>3
<1>5. run.known \in SUBSET People /\ run.onHf \in SUBSET People
  BY <1>1 DEF RunRecord
<1> HIDE DEF r, status
<1> QED
  BY <1>4, <1>5, RunnerAdvances

\* A stage that the runner's plan has.
LEMMA RunnerStages ==
    ASSUME CommandsFit, NEW stage, Commands!At("runner", stage)
    PROVE  /\ stage \in {"create", "run", "work", "complete"}
           /\ command["runner"] # Commands!Idle /\ command["runner"].todo[1] = stage
           /\ LET t == command["runner"].todo
              IN /\ Plan(t) /\ t # <<>> /\ (Len(t) = 1 \/ Len(t) > 1)
                 /\ Len(t) > 1 => /\ t # <<"work">> /\ Tail(t) # <<"work">> /\ Tail(t)[1] = t[2]
                                  /\ <<stage, t[2]>> \in {<<"create", "run">>, <<"run", "work">>, <<"work", "complete">>}
                 /\ Len(t) = 1 => (stage = "work" /\ t = <<"work">>) \/ stage = "complete"
<1> DEFINE c == command["runner"]
           t == c.todo
<1>1. /\ Fits(c, job) /\ Single(c) /\ Plan(t) /\ t # <<>> /\ t[1] = stage /\ Fits(c, job)
  BY AtStage DEF CommandsFit, Fits, Actors
<1>2. Len(t) \in Nat /\ Len(t) >= 1 /\ (Len(t) = 1 \/ Len(t) > 1)
      /\ (Len(t) = 1 => t[1] \in {"complete", "rows", "handle", "handle_other", "work"} /\ t = <<t[1]>>)
  BY <1>1, LastStage
<1>3. \A i \in 1..Len(t) : t[i] \in {"create", "run", "work", "complete"}
  BY <1>1 DEF Single
<1>4. stage \in {"create", "run", "work", "complete"}
  BY <1>1, <1>2, <1>3
<1>5. c # Commands!Idle
  BY <1>1 DEF Commands!Idle
<1>6. ASSUME Len(t) > 1
      PROVE  /\ t # <<"work">> /\ Tail(t) # <<"work">> /\ Tail(t)[1] = t[2]
             /\ <<stage, t[2]>> \in {<<"create", "run">>, <<"run", "work">>, <<"work", "complete">>}
  <2>1. Tail(t) # <<"work">> /\ <<t[1], t[2]>> \in Follows /\ \A i \in 1..(Len(t) - 1) : Tail(t)[i] = t[i + 1]
    BY <1>1, <1>6, PlanTail
  <2>2. Tail(t)[1] = t[2]
    BY <1>2, <1>6, <2>1
  <2>3. t[2] \in {"create", "run", "work", "complete"}
    BY <1>2, <1>3, <1>6
  <2>4. ~(t[1] = "create" /\ t[2] = "create")
    <3>1. t[1] = "create" /\ t[2] = "create" => Len(t) > 2 /\ t[3] = "rows"
      BY <1>1, LastStage
    <3>2. Len(t) > 2 => t[3] # "rows"
      BY <1>2, <1>3
    <3> QED
      BY <3>1, <3>2
  <2> DEFINE x == t[2]
  <2>5. <<stage, x>> \in Follows /\ x \in {"create", "run", "work", "complete"} /\ ~(stage = "create" /\ x = "create")
    BY <1>1, <2>1, <2>3, <2>4
  <2> HIDE DEF x
  <2>6. <<stage, x>> \in {<<"create", "run">>, <<"run", "work">>, <<"work", "complete">>}
    BY <1>4, <2>5 DEF Follows
  <2>7. t # <<"work">>
    <3> HIDE DEF t
    <3>1. Len(<<"work">>) = 1
      OBVIOUS
    <3>2. t = <<"work">> => Len(t) = 1
      BY <3>1, Zenon
    <3>3. Len(t) = 1 => FALSE
      <4> DEFINE n == Len(t)
      <4>1. n > 1 /\ n \in Nat
        BY <1>2, <1>6
      <4> HIDE DEF n
      <4>2. n # 1
        BY <4>1
      <4> QED
        BY <4>2 DEF n
    <3> QED
      BY <3>2, <3>3
  <2> QED
    BY <2>1, <2>2, <2>6, <2>7 DEF x
<1> QED
  BY <1>1, <1>2, <1>4, <1>5, <1>6

LEMMA RunnerStageKeeps ==
    ASSUME CommandsCInv, Commands!Stage("runner")
    PROVE  TableTyped' /\ CommandsRunTyped' /\ RunTries' /\ RunnerPerforms'
<1> DEFINE c == command["runner"]
           t == c.todo
           name == run.steps[run.at]
<1>1. CommandsFit /\ TableTyped /\ TableGrows /\ "runner" \in Actors
  BY StagesGrow DEF CommandsCInv, Actors
<1>2. c # Commands!Idle => Performs(c, run) /\ (t[1] = "complete" => HasTried(name, run))
  BY DEF CommandsCInv, RunnerPerforms
<1>3. c \in CommandRecord /\ run \in RunRecord /\ command \in [Actors -> CommandRecord]
  BY <1>1 DEF CommandsFit, CommandsCInv, CommandsRunTyped
<1>4. CASE Commands!CreateJob("runner")
  <2>1. Commands!At("runner", "create") /\ run' = run
        /\ command' = [command EXCEPT !["runner"].job = Len(job) + 1, !["runner"].other = command["runner"].job,
                                      !["runner"].todo = Tail(@)]
    BY <1>4 DEF Commands!CreateJob
  <2>2. c # Commands!Idle /\ Len(t) > 1 /\ t # <<"work">> /\ Tail(t) # <<"work">> /\ Tail(t)[1] = "run"
    BY <1>1, <2>1, RunnerStages
  <2>3. command'["runner"].kind = c.kind /\ command'["runner"].who = c.who /\ command'["runner"].todo = Tail(t)
    BY <1>1, <1>3, <2>1 DEF CommandRecord
  <2> QED
    BY <1>1, <2>1, <2>2, <2>3, RunnerMoves
<1>5. CASE Commands!MarkRunning("runner")
  <2>1. Commands!At("runner", "run") /\ Commands!Goes("runner")
    BY <1>5 DEF Commands!MarkRunning
  <2>2. c # Commands!Idle /\ Len(t) > 1 /\ t # <<"work">> /\ Tail(t) # <<"work">> /\ Tail(t)[1] = "work"
    BY <1>1, <2>1, RunnerStages
  <2>3. run' = run /\ command' = [command EXCEPT !["runner"].todo = Tail(@)]
    BY <2>1, <2>2 DEF Commands!Goes
  <2>4. command'["runner"].kind = c.kind /\ command'["runner"].who = c.who /\ command'["runner"].todo = Tail(t)
    BY <1>1, <1>3, <2>3 DEF CommandRecord
  <2> QED
    BY <1>1, <2>2, <2>3, <2>4, RunnerMoves
<1>6. CASE Commands!MarkCompleted("runner")
  <2>1. Commands!At("runner", "complete") /\ Commands!Goes("runner") /\ UNCHANGED table
    BY <1>6 DEF Commands!MarkCompleted
  <2>2. c # Commands!Idle /\ t[1] = "complete" /\ Len(t) = 1
    BY <1>1, <2>1, RunnerStages
  <2>3. run' = Commands!NextStep("completed") /\ command'["runner"] = Commands!Idle
    BY <1>1, <1>3, <2>1, <2>2 DEF Commands!Goes
  <2>4. run.status = "running" /\ (run.text => name \in TextSteps) /\ HasTried(name, run)
    BY <1>2, <2>2 DEF Performs, TextSteps
  <2>5. PICK done : done = name
    OBVIOUS
  <2>6. run'.known = run.known /\ run'.onHf = run.onHf /\ run'.named = run.named
    BY <1>3, <2>3 DEF Commands!NextStep, RunRecord
  <2>7. HasTried(done, run)'
    BY <2>1, <2>4, <2>5, <2>6 DEF HasTried, TriedGh, TriedHf
  <2> QED
    BY <1>1, <2>3, <2>4, <2>5, <2>7, RunnerAdvancesPlainly
<1>7. CASE Commands!Work("runner")
  <2>1. Commands!At("runner", "work") /\ Commands!Goes("runner") /\ Commands!Ingest("runner")
    BY <1>7 DEF Commands!Work
  <2>2. /\ c # Commands!Idle /\ (Len(t) = 1 \/ Len(t) > 1) /\ (Len(t) = 1 => t = <<"work">>)
        /\ Len(t) > 1 => t # <<"work">> /\ Tail(t) # <<"work">>
    BY <1>1, <2>1, RunnerStages
  <2>3. CASE Len(t) = 1
    <3>1. run' = Commands!NextStep("completed") /\ command'["runner"] = Commands!Idle
      BY <1>1, <1>3, <2>1, <2>3 DEF Commands!Goes
    <3>2. run.status = "running" /\ (run.text => name \in TextSteps) /\ name \notin {"gh_ingest", "hf_ingest"}
      BY <1>2, <2>2, <2>3 DEF Performs, TextSteps
    <3>3. PICK done : done = name
      OBVIOUS
    <3> QED
      BY <1>1, <3>1, <3>2, <3>3, RunnerAdvancesPlainly
  <2>4. CASE Len(t) > 1
    <3>1. run' = run /\ command' = [command EXCEPT !["runner"].todo = Tail(@)]
      BY <2>1, <2>4 DEF Commands!Goes
    <3>2. command'["runner"].kind = c.kind /\ command'["runner"].who = c.who /\ command'["runner"].todo = Tail(t)
      BY <1>1, <1>3, <3>1 DEF CommandRecord
    <3>3. HasTried(name, run)'
      <4>1. name = "gh_ingest" /\ run.named = {} => \A p \in run.known : TriedGh(p)'
        <5> SUFFICES ASSUME name = "gh_ingest", run.named = {} PROVE \A p \in run.known : TriedGh(p)'
          OBVIOUS
        <5>1. c.kind = "gh_ingest" /\ c.who = run.known
          BY <1>2, <2>2 DEF Performs
        <5>2. table' \in Commands!Ingested("gh", run.known) /\ "gh" \in Commands!Platforms
          BY <2>1, <5>1 DEF Commands!Ingest, Commands!Platforms
        <5> QED
          BY <1>1, <1>3, <5>2, IngestedGrows DEF RunRecord
      <4>2. name = "hf_ingest" => \A p \in run.onHf : TriedHf(p)'
        <5> SUFFICES ASSUME name = "hf_ingest" PROVE \A p \in run.onHf : TriedHf(p)'
          OBVIOUS
        <5>1. c.kind = "hf_ingest" /\ c.who = run.onHf
          BY <1>2, <2>2 DEF Performs
        <5>2. table' \in Commands!Ingested("hf", run.onHf) /\ "hf" \in Commands!Platforms
          BY <2>1, <5>1 DEF Commands!Ingest, Commands!Platforms
        <5> QED
          BY <1>1, <1>3, <5>2, IngestedGrows DEF RunRecord
      <4> QED
        BY <3>1, <4>1, <4>2 DEF HasTried
    <3> QED
      BY <1>1, <2>2, <2>4, <3>1, <3>2, <3>3, RunnerMoves
  <2> QED
    BY <2>2, <2>3, <2>4
<1>8. CASE Commands!Raise("runner")
  <2>1. command'["runner"] = Commands!Idle /\ run' = [run EXCEPT !.status = "failed"]
    BY <1>1, <1>3, <1>8 DEF Commands!Raise
  <2> QED
    BY <1>1, <2>1, RunnerStops
<1>9. CASE Commands!Dies("runner")
  <2>1. command'["runner"] = Commands!Idle /\ run' = [run EXCEPT !.status = "died"]
    BY <1>1, <1>3, <1>9 DEF Commands!Dies
  <2> QED
    BY <1>1, <2>1, RunnerStops
<1>10. ~(Commands!ReadRows("runner") \/ Commands!TurnToHf("runner") \/ Commands!CheckOrg("runner") \/ Commands!IngestPerson("runner")
         \/ Commands!MarkFailed("runner") \/ Commands!HandlerFails("runner"))
  <2>1. \A stage \in {"rows", "turn", "check", "gh", "hf", "ln", "handle", "handle_other"} : ~Commands!At("runner", stage)
    BY <1>1, RunnerStages
  <2> QED
    BY <2>1
       DEF Commands!ReadRows, Commands!TurnToHf, Commands!CheckOrg, Commands!IngestPerson,
           Commands!MarkFailed, Commands!HandlerFails, Commands!Platforms
<1> QED
  BY <1>4, <1>5, <1>6, <1>7, <1>8, <1>9, <1>10 DEF Commands!Stage

LEMMA CallerStageKeeps ==
    ASSUME CommandsCInv, Commands!Stage("caller")
    PROVE  TableTyped' /\ CommandsRunTyped' /\ RunTries' /\ RunnerPerforms'
<1>1. TableGrows /\ command \in [Actors -> CommandRecord] /\ "caller" \in Actors /\ "runner" \in Actors
  BY StagesGrow DEF CommandsCInv, Actors, CommandsFit
<1>2. run' = run
  BY
     DEF Commands!Stage, Commands!CreateJob, Commands!ReadRows, Commands!TurnToHf, Commands!CheckOrg,
         Commands!IngestPerson, Commands!MarkRunning, Commands!Work, Commands!MarkCompleted,
         Commands!Raise, Commands!MarkFailed,
         Commands!HandlerFails, Commands!Dies, Commands!Goes
<1>3. \E c : command' = [command EXCEPT !["caller"] = c]
  BY <1>1
     DEF Commands!Stage, Commands!CreateJob, Commands!ReadRows, Commands!TurnToHf, Commands!CheckOrg,
         Commands!IngestPerson, Commands!MarkRunning, Commands!Work, Commands!MarkCompleted,
         Commands!Raise, Commands!MarkFailed,
         Commands!HandlerFails, Commands!Dies, Commands!Goes
<1>4. command'["runner"] = command["runner"]
  BY <1>1, <1>3
<1> QED
  BY <1>1, <1>2, <1>4, RunStays

-----------------------------------------------------------------------------
(* The requests, the command line and the pipelines.                       *)

CommandsAssumptions == Commands!CommandsAssumption

\* The caller begins a command.
LEMMA CallerBegins ==
    ASSUME CommandsCInv, Commands!Ready("caller"), table' = table, run' = run, job' = job,
           NEW d \in CommandRecord, d.todo \in Beginnings, d.job = 0, d.other = 0,
           command' = [command EXCEPT !["caller"] = d]
    PROVE  CommandsCInv'
<1>1. "caller" \in Actors /\ command["caller"] = Commands!Idle /\ command \in [Actors -> CommandRecord] /\ CommandsFit /\ TableTyped
  BY DEF CommandsCInv, Actors, CommandsFit, Commands!Ready
<1>2. CommandsFit'
  BY <1>1, BeginsKeeps
<1>3. command'["runner"] = command["runner"] /\ TableGrows
  BY <1>1, TableStays DEF Actors
<1> QED
  BY <1>2, <1>3, RunStays DEF CommandsCInv

LEMMA CommandsCallKeeps ==
    ASSUME CommandsCInv, NEW k \in KindNames, NEW people \in SUBSET People, NEW t \in Beginnings, Commands!Call(k, people, t)
    PROVE  CommandsCInv'
<1> DEFINE d == [Commands!Idle EXCEPT !.kind = k, !.who = people, !.todo = t]
<1>1. Commands!Ready("caller") /\ table' = table /\ run' = run /\ job' = job /\ command' = [command EXCEPT !["caller"] = d]
  BY DEF Commands!Call, Commands!Become
<1>2. d \in CommandRecord /\ d.todo = t /\ d.job = 0 /\ d.other = 0
  <2>1. t \in Seq(StageNames)
    BY BeginningsPlan DEF Plan
  <2> QED
    BY <2>1 DEF Commands!Idle, CommandRecord
<1> HIDE DEF d
<1> QED
  BY <1>1, <1>2, CallerBegins

LEMMA TodosBegin ==
    /\ Commands!Tracked \in Beginnings /\ <<"work">> \in Beginnings
    /\ <<"create", "gh", "hf", "ln", "run", "work", "complete">> \in Beginnings
    /\ <<"create", "create", "rows">> \in Beginnings
    /\ <<"create", "check", "run", "work", "complete">> \in Beginnings
  BY DEF Commands!Tracked, Beginnings

LEMMA ApiKeeps == ASSUME CommandsAssumptions, CommandsCInv, Commands!Api PROVE CommandsCInv'
<1>1. CASE Commands!gh_discover
  <2>1. PICK org \in BOOLEAN :
         /\ Commands!Ready("caller")
         /\ command' = [command EXCEPT !["caller"] =
              [Commands!Idle EXCEPT !.kind = "gh_discover", !.org = org,
                                    !.todo = IF org THEN <<"create", "check", "run", "work", "complete">> ELSE Commands!Tracked]]
         /\ UNCHANGED <<table, job, run>>
    BY <1>1 DEF Commands!gh_discover
  <2> DEFINE t == IF org THEN <<"create", "check", "run", "work", "complete">> ELSE Commands!Tracked
             d == [Commands!Idle EXCEPT !.kind = "gh_discover", !.org = org, !.todo = t]
  <2>2. t \in Beginnings /\ "gh_discover" \in KindNames
    BY TodosBegin DEF KindNames
  <2> HIDE DEF t
  <2>3. d \in CommandRecord /\ d.todo = t /\ d.job = 0 /\ d.other = 0
    <3>1. t \in Seq(StageNames)
      BY <2>2, BeginningsPlan DEF Plan
    <3> QED
      BY <2>2, <3>1 DEF Commands!Idle, CommandRecord
  <2>4. command' = [command EXCEPT !["caller"] = d] /\ table' = table /\ run' = run /\ job' = job
    BY <2>1 DEF t
  <2> HIDE DEF d
  <2> QED
    BY <2>1, <2>2, <2>3, <2>4, CallerBegins
<1>2. CASE ~Commands!gh_discover
  <2>1. \E k \in KindNames, people \in SUBSET People, t \in Beginnings : Commands!Call(k, people, t)
    <3>1. CASE Commands!gh_run
      <4>1. PICK people \in Given : Commands!Call("gh_ingest", people, Commands!Tracked)
        BY <3>1 DEF Commands!gh_run
      <4>2. people \in SUBSET People /\ "gh_ingest" \in KindNames
        BY DEF CommandsAssumptions, Commands!CommandsAssumption, KindNames
      <4> QED
        BY <4>1, <4>2, TodosBegin
    <3>2. CASE Commands!hf_run
      <4>1. PICK people \in Given : Commands!Call("hf_ingest", people, Commands!Tracked)
        BY <3>2 DEF Commands!hf_run
      <4>2. people \in SUBSET People /\ "hf_ingest" \in KindNames
        BY DEF CommandsAssumptions, Commands!CommandsAssumption, KindNames
      <4> QED
        BY <4>1, <4>2, TodosBegin
    <3>3. CASE Commands!ingest_profile
      <4>1. PICK p \in People : Commands!Call("elsewhere", {p}, <<"create", "gh", "hf", "ln", "run", "work", "complete">>)
        BY <3>3 DEF Commands!ingest_profile
      <4>2. {p} \in SUBSET People /\ "elsewhere" \in KindNames
        BY DEF KindNames
      <4> QED
        BY <4>1, <4>2, TodosBegin
    <3>4. CASE \E k \in KindNames, t \in Beginnings : Commands!Call(k, {}, t)
      BY <3>4
    <3>5. {"gh_ingest", "elsewhere", "ln_discover", "ln_ingest"} \subseteq KindNames
      BY DEF KindNames
    <3> QED
      BY <1>2, <3>1, <3>2, <3>3, <3>4, <3>5, TodosBegin
         DEF Commands!Api, Commands!hf_discover, Commands!ln_discover, Commands!ln_run, Commands!trigger_sync, Commands!trigger_embed, Commands!identity_resolve_trigger, Commands!retry_failed
  <2> QED
    BY <2>1, CommandsCallKeeps
<1> QED
  BY <1>1, <1>2

LEMMA MainKeeps == ASSUME CommandsAssumptions, CommandsCInv, Commands!main PROVE CommandsCInv'
<1>1. \E k \in KindNames, people \in SUBSET People, t \in Beginnings : Commands!Call(k, people, t)
  <2>1. CASE Commands!_gh_ingest \/ Commands!_hf_ingest
    <3>1. PICK people \in Given : Commands!Call("gh_ingest", people, Commands!Tracked) \/ Commands!Call("hf_ingest", people, Commands!Tracked)
      BY <2>1 DEF Commands!_gh_ingest, Commands!_hf_ingest
    <3>2. people \in SUBSET People /\ {"gh_ingest", "hf_ingest"} \subseteq KindNames
      BY DEF CommandsAssumptions, Commands!CommandsAssumption, KindNames
    <3> QED
      BY <3>1, <3>2, TodosBegin
  <2>2. ASSUME NEW k \in KindNames, NEW pf \in Commands!Platforms, Commands!Retry(k, pf)
        PROVE  \E people \in SUBSET People : Commands!Call(k, people, Commands!Tracked)
    <3>1. PICK status \in {"failed", "pending"} :
            Commands!Call(k, {p \in Commands!Having(pf, status) : table.checkpoint[pf][p].tries < MaxAttempts}, Commands!Tracked)
      BY <2>2 DEF Commands!Retry
    <3>2. {p \in Commands!Having(pf, status) : table.checkpoint[pf][p].tries < MaxAttempts} \in SUBSET People
      BY DEF Commands!Having
    <3> QED
      BY <3>1, <3>2
  <2>3. {"gh_ingest", "hf_ingest", "elsewhere", "ln_discover", "ln_ingest", "ln_given"} \subseteq KindNames
        /\ {"gh", "hf", "ln"} \subseteq Commands!Platforms
    BY DEF KindNames, Commands!Platforms
  <2>4. CASE Commands!_gh_retry \/ Commands!_hf_retry \/ Commands!_ln_retry
    BY <2>2, <2>3, <2>4, TodosBegin DEF Commands!_gh_retry, Commands!_hf_retry, Commands!_ln_retry
  <2>5. CASE \E k \in KindNames, t \in Beginnings : Commands!Call(k, {}, t)
    BY <2>5
  <2> QED
    BY <2>1, <2>3, <2>4, <2>5, TodosBegin
       DEF Commands!main, Commands!_gh_discover, Commands!_hf_discover, Commands!_ln_discover, Commands!_ln_ingest, Commands!_sync, Commands!_embed, Commands!_identity_resolve
<1> QED
  BY <1>1, CommandsCallKeeps

LEMMA CommandsStay == ASSUME CommandsFit, job' = job, command' = command PROVE CommandsFit'
  BY DEF CommandsFit

LEMMA StartKeeps ==
    ASSUME CommandsCInv, NEW type \in {"daily", "weekly", "seed", "gh_only", "hf_only", "ln_only", "dependent"},
           NEW named \in SUBSET People, Commands!Start(type, named)
    PROVE  CommandsCInv'
<1>1. /\ run' = [Commands!NoRun EXCEPT !.steps = Commands!Steps[type], !.status = "running", !.named = named]
      /\ UNCHANGED <<table, job, command>> /\ run.status \notin {"running", "paused"}
  BY DEF Commands!Start
<1>2. CommandsFit' /\ TableTyped'
  BY <1>1, CommandsStay DEF CommandsCInv, TableTyped
<1>3. Ordered(Commands!Steps[type]) /\ Commands!Steps[type] # <<>>
  BY StepsOrdered
<1> DEFINE steps == Commands!Steps[type]
<1> HIDE DEF steps
<1>4. /\ run' \in RunRecord /\ run'.steps = steps /\ run'.at = 1 /\ run'.status = "running" /\ run'.text = FALSE
      /\ run'.named = named /\ run'.known = {} /\ run'.onHf = {}
  BY <1>1, <1>3 DEF Commands!NoRun, RunRecord, Ordered, steps
<1>5. Ordered(steps) /\ 1 \in 1..Len(steps)
  <2>1. Ordered(steps) /\ steps \in Seq(StepNames) /\ steps # <<>>
    BY <1>3 DEF Ordered, steps
  <2> QED
    BY <2>1
<1>6. CommandsRunTyped'
  BY <1>4, <1>5 DEF CommandsRunTyped
<1>7. RunTries'
  BY <1>4 DEF RunTries, HasTried
<1>8. RunnerPerforms'
  BY <1>1 DEF CommandsCInv, RunnerPerforms, Performs
<1> QED
  BY <1>2, <1>6, <1>7, <1>8 DEF CommandsCInv

\* The runner performs a step that is due.
LEMMA PerformKeeps ==
    ASSUME CommandsCInv, NEW name \in {"gh_discover", "gh_ingest", "hf_discover", "hf_ingest", "ln_discover", "ln_ingest",
                                       "identity_resolve", "bridge_sync", "embed"},
           Commands!Due(name), run.text => name = "ln_discover",
           NEW k \in KindNames, NEW people \in SUBSET People, NEW t \in {Commands!Tracked, <<"work">>}, Commands!Perform(k, people, t),
           k = "gh_search" => name = "gh_discover" /\ t = <<"work">>,
           k = "hf_search" => name = "hf_discover" /\ t = <<"work">>,
           name = "gh_ingest" => k = "gh_ingest" /\ t = Commands!Tracked /\ (run.named = {} => people = run.known),
           name = "hf_ingest" => k = "hf_ingest" /\ t = Commands!Tracked /\ people = run.onHf
    PROVE  CommandsCInv'
<1> DEFINE d == [Commands!Idle EXCEPT !.kind = k, !.who = people, !.todo = t]
<1>1. Commands!Ready("runner") /\ table' = table /\ run' = run /\ job' = job /\ command' = [command EXCEPT !["runner"] = d]
      /\ run.status = "running" /\ run.steps[run.at] = name
  BY DEF Commands!Perform, Commands!Become, Commands!Due
<1>2. /\ t \in Beginnings /\ t \in {<<"create", "run", "work", "complete">>, <<"work">>}
      /\ t[1] # "complete" /\ (t = Commands!Tracked => t # <<"work">>)
  BY DEF Commands!Tracked, Beginnings
<1>3. d \in CommandRecord /\ d.todo = t /\ d.job = 0 /\ d.other = 0 /\ d.kind = k /\ d.who = people
  <2>1. t \in Seq(StageNames)
    BY <1>2, BeginningsPlan DEF Plan
  <2> QED
    BY <2>1 DEF Commands!Idle, CommandRecord
<1> HIDE DEF d
<1>4. "runner" \in Actors /\ command["runner"] = Commands!Idle /\ CommandsFit /\ command \in [Actors -> CommandRecord]
  BY <1>1 DEF CommandsCInv, Actors, Commands!Ready, CommandsFit
<1>5. CommandsFit'
  BY <1>1, <1>2, <1>3, <1>4, BeginsKeeps
<1>6. command'["runner"] = d
  BY <1>1, <1>4
<1>7. Performs(d, run)
  BY <1>1, <1>2, <1>3 DEF Performs
<1> QED
  BY <1>1, <1>2, <1>3, <1>5, <1>6, <1>7, RunnerBegins DEF CommandsCInv

LEMMA NothingKeeps ==
    ASSUME CommandsCInv, NEW name, Commands!Due(name), Commands!Nothing,
           name = "gh_ingest" => run.known = {}, name = "hf_ingest" => run.onHf = {},
           ~run.text
    PROVE  CommandsCInv'
<1>1. run.status = "running" /\ command["runner"] = Commands!Idle /\ run.steps[run.at] = name
      /\ run' = Commands!NextStep("completed") /\ table' = table /\ job' = job /\ command' = command
  BY DEF Commands!Due, Commands!Ready, Commands!Nothing
<1>2. run \in RunRecord /\ TableGrows /\ CommandsFit'
  BY <1>1, TableStays, CommandsStay DEF CommandsCInv, CommandsRunTyped
<1>3. run'.known = run.known /\ run'.onHf = run.onHf
  BY <1>1, <1>2 DEF Commands!NextStep, RunRecord
<1>4. HasTried(name, run)'
  BY <1>3 DEF HasTried
<1> QED
  BY <1>1, <1>2, <1>4, RunnerAdvancesPlainly DEF CommandsCInv

LEMMA RememberKeeps == ASSUME CommandsCInv, Commands!Remember PROVE CommandsCInv'
<1> DEFINE c == command["runner"]
<1>1. Commands!At("runner", "work") /\ c.kind \in {"gh_search", "hf_search"} /\ table' = table /\ job' = job
      /\ command' = [command EXCEPT !["runner"] = Commands!Idle]
  BY DEF Commands!Remember
<1>2. CommandsFit /\ command \in [Actors -> CommandRecord] /\ "runner" \in Actors /\ job \in Seq(JobRow)
  BY DEF CommandsCInv, CommandsFit, Actors
<1>3. c # Commands!Idle /\ Performs(c, run) /\ run \in RunRecord
  BY <1>1, <1>2, RunnerStages DEF CommandsCInv, RunnerPerforms, CommandsRunTyped
<1>4. PICK name : name = run.steps[run.at]
  OBVIOUS
<1>5. /\ run.status = "running" /\ (run.text => name \in TextSteps) /\ name \notin {"gh_ingest", "hf_ingest"}
      /\ c.kind = "gh_search" => name = "gh_discover"
      /\ c.kind = "hf_search" => name = "hf_discover"
      /\ c.todo = <<"work">>
  BY <1>1, <1>3, <1>4 DEF Performs, TextSteps
<1>6. CommandsFit'
  <2>1. c.job = 0 /\ c.other = 0
    BY <1>2, <1>5 DEF CommandsFit, Fits, Single
  <2>2. CommandsHeld(c) = {} /\ Len(job') = Len(job) /\ job' \in Seq(JobRow)
    BY <1>1, <1>2, <2>1 DEF CommandsHeld
  <2> HIDE DEF c
  <2> QED
    BY <1>1, <1>2, <2>2, OneLeaves DEF c
<1>7. TableGrows /\ command'["runner"] = Commands!Idle
  BY <1>1, <1>2, TableStays DEF CommandsCInv
<1>8. TableTyped' /\ CommandsRunTyped' /\ RunTries' /\ RunnerPerforms'
  <2> DEFINE on == Commands!NextStep("completed")
  <2>1. on = [on EXCEPT !.known = run.known, !.onHf = run.onHf]
        /\ run.known \in SUBSET People /\ run.onHf \in SUBSET People
    BY <1>3 DEF Commands!NextStep, RunRecord
  <2>2. CASE c.kind = "gh_search"
    <3>1. PICK found \in SUBSET People : run' = [on EXCEPT !.known = found]
      BY <2>2 DEF Commands!Remember
    <3>2. [on EXCEPT !.known = found] = [on EXCEPT !.known = found, !.onHf = run.onHf]
      BY <1>3 DEF Commands!NextStep, RunRecord
    <3> QED
      BY <1>4, <1>5, <1>7, <2>1, <2>2, <3>1, <3>2, RunnerAdvances
  <2>3. CASE c.kind = "hf_search"
    <3>1. PICK found \in SUBSET People : run' = [on EXCEPT !.onHf = found]
      BY <2>3 DEF Commands!Remember
    <3>2. [on EXCEPT !.onHf = found] = [on EXCEPT !.known = run.known, !.onHf = found]
      BY <1>3 DEF Commands!NextStep, RunRecord
    <3> QED
      BY <1>4, <1>5, <1>7, <2>1, <2>3, <3>1, <3>2, RunnerAdvances
  <2> QED
    BY <1>1, <2>2, <2>3
<1> QED
  BY <1>6, <1>8 DEF CommandsCInv

LEMMA CrossrefKeeps == ASSUME CommandsCInv, Commands!_step_hf_crossref \/ Commands!_step_ln_crossref PROVE CommandsCInv'
<1>1. run \in RunRecord /\ CommandsFit /\ TableTyped
  BY DEF CommandsCInv, CommandsRunTyped
<1>2. PICK name : name = run.steps[run.at]
  OBVIOUS
<1>3. run.status = "running" /\ command["runner"] = Commands!Idle /\ name \in {"hf_crossref", "ln_crossref"}
      /\ job' = job /\ command' = command
  BY <1>2 DEF Commands!_step_hf_crossref, Commands!_step_ln_crossref, Commands!Due, Commands!Ready
<1>4. CommandsFit'
  BY <1>1, <1>3, CommandsStay
<1>5. CASE Commands!_step_ln_crossref
  <2>1. table' = Commands!Mark("ln", (run.known \cap Listed \cap Commands!Having("gh", "ingested")) \cap Commands!Having("ln", "absent"), "pending")
    BY <1>5 DEF Commands!_step_ln_crossref, Commands!UpsertPendingUrls
  <2>2. TableGrows
    BY <1>1, <2>1, MarkGrows
  <2>3. run' = Commands!NextStep("completed")
    BY <1>5 DEF Commands!_step_ln_crossref
  <2> QED
    BY <1>2, <1>3, <1>4, <2>2, <2>3, RunnerAdvancesPlainly DEF TextSteps, CommandsCInv
<1>6. CASE Commands!_step_hf_crossref
  <2>1. TableGrows
    BY <1>1, <1>6, TableStays DEF Commands!_step_hf_crossref
  <2> DEFINE on == Commands!NextStep("completed")
             there == run.known \cap Linked \cap Commands!Having("hf", "ingested")
  <2>2. CASE run.known = {}
    <3>1. run' = on
      BY <1>6, <2>2 DEF Commands!_step_hf_crossref
    <3> QED
      BY <1>2, <1>3, <1>4, <2>1, <3>1, RunnerAdvancesPlainly DEF TextSteps, CommandsCInv
  <2>3. CASE run.known # {}
    <3>1. run' = [on EXCEPT !.onHf = there]
      BY <1>6, <2>3 DEF Commands!_step_hf_crossref
    <3>2. there \in SUBSET People /\ run.known \in SUBSET People
      BY <1>1 DEF Commands!Having, RunRecord
    <3> HIDE DEF there
    <3>3. [on EXCEPT !.onHf = there] = [on EXCEPT !.known = run.known, !.onHf = there]
      BY <1>1 DEF Commands!NextStep, RunRecord
    <3>4. name = "hf_crossref"
      BY <1>2, <1>6 DEF Commands!_step_hf_crossref, Commands!Due
    <3> QED
      BY <1>2, <1>3, <1>4, <2>1, <3>1, <3>2, <3>3, <3>4, RunnerAdvances DEF TextSteps, CommandsCInv
  <2> QED
    BY <2>2, <2>3
<1> QED
  BY <1>5, <1>6

LEMMA PauseKeeps == ASSUME CommandsCInv, Commands!Pause \/ Commands!Resume PROVE CommandsCInv'
<1>1. /\ UNCHANGED <<table, job, command>> /\ command["runner"] = Commands!Idle
      /\ run.status \in {"running", "paused"}
  BY DEF Commands!Pause, Commands!Resume, Commands!Ready, CommandsCInv, RunnerPerforms, Performs
<1>2. run \in RunRecord /\ Ordered(run.steps) /\ run.at \in 1..Len(run.steps)
  BY <1>1 DEF CommandsCInv, CommandsRunTyped
<1>3. CommandsFit' /\ TableTyped' /\ RunnerPerforms'
  BY <1>1, CommandsStay DEF CommandsCInv, TableTyped, RunnerPerforms
<1>4. CASE Commands!Pause
  <2>1. run' = [run EXCEPT !.status = "paused", !.known = {}, !.onHf = {}]
    BY <1>4 DEF Commands!Pause
  <2>2. run' \in RunRecord /\ run'.steps = run.steps /\ run'.at = run.at /\ run'.status = "paused"
        /\ run'.known = {} /\ run'.onHf = {}
    BY <1>2, <2>1 DEF RunRecord
  <2> QED
    BY <1>2, <1>3, <2>2 DEF CommandsCInv, CommandsRunTyped, RunTries, HasTried
<1>5. CASE Commands!Resume
  <2>1. run' = [run EXCEPT !.status = "running", !.text = TRUE]
    BY <1>5 DEF Commands!Resume
  <2>2. run' \in RunRecord /\ run'.steps = run.steps /\ run'.at = run.at /\ run'.status = "running"
        /\ run'.known = run.known /\ run'.onHf = run.onHf /\ run'.named = run.named
    BY <1>2, <2>1 DEF RunRecord
  <2>3. RunTries'
    BY <1>1, <2>2 DEF CommandsCInv, RunTries, HasTried, TriedGh, TriedHf
  <2> QED
    BY <1>2, <1>3, <2>2, <2>3 DEF CommandsCInv, CommandsRunTyped
<1> QED
  BY <1>4, <1>5

LEMMA TextFailsKeeps == ASSUME CommandsCInv, Commands!TextFails PROVE CommandsCInv'
<1>1. /\ UNCHANGED <<table, job, command>> /\ command["runner"] = Commands!Idle /\ run' = [run EXCEPT !.status = "failed"]
  BY DEF Commands!TextFails, Commands!Due, Commands!Ready
<1>2. CommandsFit' /\ TableGrows
  BY <1>1, CommandsStay, TableStays DEF CommandsCInv
<1> QED
  BY <1>1, <1>2, RunnerStops DEF CommandsCInv

LEMMA StepsKeep ==
    ASSUME CommandsCInv, Commands!_step_gh_discover \/ Commands!_step_gh_ingest \/ Commands!_step_hf_discover \/ Commands!_step_hf_ingest \/ Commands!_step_ln_discover
                         \/ Commands!_step_ln_ingest \/ Commands!_step_identity_resolve \/ Commands!_step_bridge_sync \/ Commands!_step_embed
    PROVE  CommandsCInv'
<1>1. run \in RunRecord /\ {} \in SUBSET People
      /\ {"gh_search", "hf_search", "gh_ingest", "hf_ingest", "ln_discover", "ln_ingest", "elsewhere"} \subseteq KindNames
  BY DEF CommandsCInv, CommandsRunTyped, KindNames
<1>2. CASE Commands!_step_gh_discover
  BY <1>1, <1>2, PerformKeeps DEF Commands!_step_gh_discover
<1>3. CASE Commands!_step_hf_discover
  BY <1>1, <1>3, PerformKeeps DEF Commands!_step_hf_discover
<1>4. CASE Commands!_step_ln_discover
  BY <1>1, <1>4, PerformKeeps DEF Commands!_step_ln_discover
<1>5. CASE Commands!_step_ln_ingest
  BY <1>1, <1>5, PerformKeeps DEF Commands!_step_ln_ingest
<1>6. CASE Commands!_step_identity_resolve \/ Commands!_step_bridge_sync \/ Commands!_step_embed
  BY <1>1, <1>6, PerformKeeps
     DEF Commands!_step_identity_resolve, Commands!_step_bridge_sync, Commands!_step_embed
<1>7. CASE Commands!_step_gh_ingest
  <2> DEFINE people == IF run.named # {} THEN run.named ELSE run.known
  <2>1. Commands!Due("gh_ingest") /\ ~run.text /\ (IF people = {} THEN Commands!Nothing ELSE Commands!Perform("gh_ingest", people, Commands!Tracked))
    BY <1>7 DEF Commands!_step_gh_ingest
  <2>2. people \in SUBSET People /\ (run.named = {} => people = run.known) /\ (people = {} => run.known = {})
    BY <1>1 DEF RunRecord
  <2> HIDE DEF people
  <2>3. CASE people = {}
    BY <2>1, <2>2, <2>3, NothingKeeps
  <2>4. CASE people # {}
    BY <1>1, <2>1, <2>2, <2>4, PerformKeeps
  <2> QED
    BY <2>3, <2>4
<1>8. CASE Commands!_step_hf_ingest
  <2>1. Commands!Due("hf_ingest") /\ ~run.text /\ (IF run.onHf = {} THEN Commands!Nothing ELSE Commands!Perform("hf_ingest", run.onHf, Commands!Tracked))
    BY <1>8 DEF Commands!_step_hf_ingest
  <2>2. run.onHf \in SUBSET People
    BY <1>1 DEF RunRecord
  <2>3. CASE run.onHf = {}
    BY <2>1, <2>3, NothingKeeps
  <2>4. CASE run.onHf # {}
    BY <1>1, <2>1, <2>2, <2>4, PerformKeeps
  <2> QED
    BY <2>3, <2>4
<1> QED
  BY <1>2, <1>3, <1>4, <1>5, <1>6, <1>7, <1>8

LEMMA PipelineKeeps == ASSUME CommandsAssumptions, CommandsCInv, Commands!RunPipeline PROVE CommandsCInv'
<1>1. \A named \in Given \cup {{}} : named \in SUBSET People
  BY DEF CommandsAssumptions, Commands!CommandsAssumption
<1>2. CASE Commands!_pipeline_daily \/ Commands!_pipeline_weekly \/ Commands!_pipeline_seed \/ Commands!_pipeline_gh \/ Commands!_pipeline_hf
           \/ Commands!_pipeline_ln \/ Commands!_pipeline_dependent
  BY <1>1, <1>2, StartKeeps
     DEF Commands!_pipeline_daily, Commands!_pipeline_weekly, Commands!_pipeline_seed, Commands!_pipeline_gh, Commands!_pipeline_hf, Commands!_pipeline_ln, Commands!_pipeline_dependent
<1>3. CASE ~(Commands!_pipeline_daily \/ Commands!_pipeline_weekly \/ Commands!_pipeline_seed \/ Commands!_pipeline_gh \/ Commands!_pipeline_hf
             \/ Commands!_pipeline_ln \/ Commands!_pipeline_dependent)
  BY <1>3, PauseKeeps, TextFailsKeeps, RememberKeeps, StepsKeep, CrossrefKeeps DEF Commands!RunPipeline
<1> QED
  BY <1>2, <1>3

LEMMA CommandsStart == ASSUME Commands!Init PROVE CommandsCInv
<1>1. CommandsFit
  <2>1. Commands!Idle \in CommandRecord /\ Fits(Commands!Idle, <<>>) /\ CommandsHeld(Commands!Idle) = {} /\ Single(Commands!Idle)
    <3>1. Len(<<>>) \in Nat
      OBVIOUS
    <3> QED
      BY <3>1, IdleFits
  <2>2. job = <<>> /\ command = [a \in Actors |-> Commands!Idle]
    BY DEF Commands!Init, Actors
  <2> QED
    BY <2>1, <2>2 DEF CommandsFit, Actors
<1>2. TableTyped
  BY DEF Commands!Init, TableTyped, Checkpoint
<1>3. CommandsRunTyped /\ RunTries
  <2>1. Ordered(<<>>) /\ <<>> \in Seq(StepNames)
    BY DEF Ordered
  <2> QED
    BY <2>1 DEF Commands!Init, Commands!NoRun, CommandsRunTyped, RunRecord, RunTries
<1>4. RunnerPerforms
  BY DEF Commands!Init, RunnerPerforms
<1> QED
  BY <1>1, <1>2, <1>3, <1>4 DEF CommandsCInv

LEMMA CommandsStep == ASSUME CommandsAssumptions, CommandsCInv, [Commands!Next]_Commands!commandVars PROVE CommandsCInv'
<1>1. CASE Commands!Api \/ Commands!main \/ Commands!RunPipeline
  BY <1>1, ApiKeeps, MainKeeps, PipelineKeeps
<1>2. CASE Commands!Stage("caller") \/ Commands!Stage("runner")
  <2>1. CommandsFit'
    BY <1>2, StagesKeepCommands DEF CommandsCInv, Actors
  <2> QED
    BY <1>2, <2>1, CallerStageKeeps, RunnerStageKeeps DEF CommandsCInv
<1>3. CASE UNCHANGED Commands!commandVars
  <2>1. UNCHANGED <<table, job, command, run>>
    BY <1>3 DEF Commands!commandVars
  <2>2. TableGrows /\ CommandsFit'
    BY <2>1, CommandsStay, TableStays DEF CommandsCInv
  <2> QED
    BY <2>1, <2>2, RunStays DEF CommandsCInv
<1> QED
  BY <1>1, <1>2, <1>3 DEF Commands!Next

LEMMA CommandsHold == ASSUME CommandsCInv PROVE Commands!TypeOK /\ Commands!JobsAccountedFor /\ Commands!CompletedMeansTried
<1>1. Commands!JobsAccountedFor
  BY Accounted DEF CommandsCInv
<1>2. run \in RunRecord /\ RunTries /\ (run.status = "completed" => ~run.text)
  BY DEF CommandsCInv, CommandsRunTyped
<1>3. Commands!CompletedMeansTried
  <2>1. ASSUME NEW i \in DOMAIN run.steps, NEW p \in run.known \cup run.onHf, run.at > i, run.named = {}
        PROVE  /\ run.steps[i] = "gh_ingest" /\ p \in run.known => p \in Commands!Having("gh", "ingested") \cup Commands!Having("gh", "failed")
               /\ run.steps[i] = "hf_ingest" /\ p \in run.onHf =>
                    p \in UNION {Commands!Having("hf", s) : s \in {"ingested", "failed", "pending"}}
    <3>1. i \in 1..Len(run.steps) /\ i < run.at /\ p \in People
      BY <1>2, <2>1 DEF RunRecord
    <3>2. HasTried(run.steps[i], run)
      BY <1>2, <3>1 DEF RunTries
    <3>3. run.steps[i] = "gh_ingest" /\ p \in run.known => TriedGh(p)
      BY <2>1, <3>2 DEF HasTried
    <3>4. run.steps[i] = "hf_ingest" /\ p \in run.onHf => TriedHf(p)
      BY <2>1, <3>2 DEF HasTried
    <3> QED
      BY <3>1, <3>3, <3>4 DEF TriedGh, TriedHf, Commands!Having
  <2> QED
    BY <1>2, <2>1 DEF Commands!CompletedMeansTried
<1>4. Commands!TypeOK
  <2>1. \A a \in Actors : Commands!Jobs(a) \subseteq DOMAIN job
    <3>1. \A a \in Actors : Commands!Jobs(a) = CommandsHeld(command[a])
      BY DEF Commands!Jobs, CommandsHeld
    <3> QED
      BY <3>1, HeldThere DEF CommandsCInv, CommandsFit
  <2>2. \A j \in DOMAIN job : job[j] \in JobRow
    BY DEF CommandsCInv, CommandsFit
  <2>3. \A pf \in Commands!Platforms, p \in People : table.checkpoint[pf][p] \in Checkpoint
    BY DEF CommandsCInv, TableTyped
  <2> QED
    BY <1>2, <2>1, <2>2, <2>3 DEF Commands!TypeOK, Actors, JobRow, Checkpoint, RunRecord
<1> QED
  BY <1>1, <1>3, <1>4

\* Tables, jobs, commands and pipelines have their types; a job row that is open is
\* in the hands of a process, or was lost in one of the known ways; and a pipeline
\* that completed has tried everybody it discovered, for any people and any
\* pipelines (ingest_source_api.py, cli.py, runner.py, steps.py).
THEOREM CommandsSafe ==
    CommandsAssumptions =>
      (Commands!Spec => [](Commands!TypeOK /\ Commands!JobsAccountedFor
                             /\ Commands!CompletedMeansTried))
<1> SUFFICES ASSUME CommandsAssumptions
             PROVE  Commands!Spec => [](Commands!TypeOK /\ Commands!JobsAccountedFor
                                          /\ Commands!CompletedMeansTried)
  OBVIOUS
<1>1. Commands!Init => CommandsCInv
  BY CommandsStart
<1>2. CommandsCInv /\ [Commands!Next]_Commands!commandVars => CommandsCInv'
  BY CommandsStep
<1>3. CommandsCInv => Commands!TypeOK /\ Commands!JobsAccountedFor /\ Commands!CompletedMeansTried
  BY CommandsHold
<1> QED
  BY <1>1, <1>2, <1>3, PTL DEF Commands!Spec

-----------------------------------------------------------------------------
(* The part in the system.                                                  *)

\* A behaviour of the system is this part's, or leaves it alone.
LEMMA CommandsAlone ==
    /\ Init /\ part = "commands" => Commands!Init
    /\ [Next]_vars /\ part = "commands" => (part = "commands")' /\ [Commands!Next]_(Commands!commandVars)
    /\ [Next]_vars /\ ~(part = "commands") => (~(part = "commands"))'
<1> USE DEF ClientsNext, LinkedInNext, IndexNext, ScheduleNext, BillingNext, SearchNext, CommandsNext
<1>1. Init /\ part = "commands" => Commands!Init
  BY DEF Init
<1>2. Next => part' = part
  BY DEF Next
<1>3. Next /\ part = "commands" => Commands!Next
  BY DEF Next
<1>4. UNCHANGED vars => part' = part /\ UNCHANGED Commands!commandVars
  BY DEF vars, commandVars, Commands!commandVars
<1> QED
  BY <1>1, <1>2, <1>3, <1>4

WholeCommands ==
    Commands!TypeOK /\ Commands!JobsAccountedFor /\ Commands!CompletedMeansTried

LEMMA CommandsAlwaysHold == CommandsAssumptions => (Spec => [](part = "commands" => WholeCommands))
<1> SUFFICES ASSUME CommandsAssumptions PROVE Spec => [](part = "commands" => WholeCommands)
  OBVIOUS
<1>1. Commands!Spec => []WholeCommands
  BY CommandsSafe DEF WholeCommands
<1>2. Init /\ part = "commands" => Commands!Init
  BY CommandsAlone
<1>3. [Next]_vars /\ part = "commands" => (part = "commands")' /\ [Commands!Next]_(Commands!commandVars)
  BY CommandsAlone
<1>4. [Next]_vars /\ ~(part = "commands") => (~(part = "commands"))'
  BY CommandsAlone
<1> HIDE DEF WholeCommands, Init, Next, Commands!Init, Commands!Next
<1> QED
  BY <1>1, <1>2, <1>3, <1>4, PTL DEF Spec, Commands!Spec

\* A job row that is open is in a process's hands or was lost in a known way, for any
\* people and commands (ingest_source_api.py, cli.py, runner.py).
THEOREM JobsAreAccountedFor == CommandsAssumptions => (Spec => []JobsAccountedFor)
<1>1. (part = "commands" => WholeCommands) => JobsAccountedFor
  BY DEF WholeCommands, JobsAccountedFor
<1> HIDE DEF WholeCommands, JobsAccountedFor
<1> QED
  BY <1>1, CommandsAlwaysHold, PTL

\* A pipeline that completes has tried everybody it discovered, for any people
\* (runner.py, steps.py).
THEOREM CompletedHasTried == CommandsAssumptions => (Spec => []CompletedMeansTried)
<1>1. (part = "commands" => WholeCommands) => CompletedMeansTried
  BY DEF WholeCommands, CompletedMeansTried
<1> HIDE DEF WholeCommands, CompletedMeansTried
<1> QED
  BY <1>1, CommandsAlwaysHold, PTL

===============================================================================
