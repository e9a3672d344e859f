---------------------------- MODULE DomainProofs ----------------------------
(***************************************************************************)
(* For any cases and any number of attempts: the branches of a sequence    *)
(* that Validate accepts, what becomes of a row after an answer, the first *)
(* working hour, the delays of retries, what conditionals make of a        *)
(* template, the caps of limits.go and their ramps, and the calls of the   *)
(* models.                                                                 *)
(***************************************************************************)
EXTENDS DomainProps, SequenceTheorems, FiniteSetTheorems, WellFoundedInduction, TLAPS

-----------------------------------------------------------------------------
(* Loops                                                                    *)

\* A set of numbers that is not empty has a least one.
LEMMA LeastNumber ==
  ASSUME NEW S \in SUBSET Nat, S # {}
  PROVE  \E n \in S : \A m \in S : n <= m
<1> DEFINE R == OpToRel(<, Nat)
<1>1. IsWellFoundedOn(R, Nat)
  BY NatLessThanWellFounded
<1>2. \A x, y \in Nat : x < y => <<x, y>> \in R
  BY DEF OpToRel
<1> HIDE DEF R
<1>3. PICK x \in S : \A y \in S : ~ (<<y, x>> \in R)
  BY <1>1, WFMin
<1>4. \A y \in S : ~ (y < x)
  BY <1>2, <1>3
<1>5. QED
  BY <1>4

\* Induction, over the set of the numbers for which something holds.
LEMMA Induction ==
  ASSUME NEW S, 0 \in S, \A n \in Nat : n \in S => n + 1 \in S
  PROVE  Nat \subseteq S
<1>1. SUFFICES ASSUME Nat \ S # {} PROVE FALSE
  OBVIOUS
<1>2. PICK n \in Nat \ S : \A m \in Nat \ S : n <= m
  BY <1>1, LeastNumber
<1>3. n # 0 /\ n - 1 \in Nat /\ n - 1 \in S
  BY <1>2
<1>4. QED
  BY <1>2, <1>3

\* The first n rounds of a loop.
IsRun(g, n, step, t) == g[0] = t /\ \A k \in 1 .. n : g[k] = step[g[k - 1]]

\* A loop has as many rounds as one likes.
LEMMA RunsExist ==
  ASSUME NEW T, NEW step \in [T -> T], NEW t \in T, NEW n \in Nat
  PROVE  \E g \in [0 .. n -> T] : IsRun(g, n, step, t)
<1> DEFINE S == {m \in Nat : \E g \in [0 .. m -> T] : IsRun(g, m, step, t)}
<1>1. 0 \in S
  <2>1. [k \in 0 .. 0 |-> t] \in [0 .. 0 -> T] /\ IsRun([k \in 0 .. 0 |-> t], 0, step, t)
    BY DEF IsRun
  <2>2. QED
    BY <2>1
<1>2. ASSUME NEW m \in Nat, m \in S PROVE m + 1 \in S
  <2>1. PICK g \in [0 .. m -> T] : IsRun(g, m, step, t)
    BY <1>2
  <2> DEFINE h == [k \in 0 .. m + 1 |-> IF k = m + 1 THEN step[g[m]] ELSE g[k]]
  <2>2. h \in [0 .. m + 1 -> T]
    <3>1. g[m] \in T
      OBVIOUS
    <3>2. step[g[m]] \in T
      BY <3>1
    <3>3. \A k \in 0 .. m + 1 : k # m + 1 => k \in 0 .. m
      OBVIOUS
    <3>4. QED
      BY <3>2, <3>3
  <2>3. IsRun(h, m + 1, step, t)
    <3>1. h[0] = t
      BY <2>1 DEF IsRun
    <3>2. ASSUME NEW k \in 1 .. m + 1 PROVE h[k] = step[h[k - 1]]
      <4>1. h[k - 1] = g[k - 1]
        OBVIOUS
      <4>2. k # m + 1 => g[k] = step[g[k - 1]]
        BY <2>1 DEF IsRun
      <4>3. QED
        BY <4>1, <4>2
    <3>3. QED
      BY <3>1, <3>2 DEF IsRun
  <2>4. QED
    BY <2>2, <2>3
<1>3. Nat \subseteq S
  <2> HIDE DEF S
  <2>1. QED
    BY <1>1, <1>2, Induction
<1>4. QED
  BY <1>3

\* Two runs of a loop are the same as far as both go.
LEMMA RunsAgree ==
  ASSUME NEW step, NEW t, NEW m \in Nat, NEW n \in Nat, NEW g, NEW h,
         IsRun(g, m, step, t), IsRun(h, n, step, t)
  PROVE  \A k \in Nat : k <= m /\ k <= n => g[k] = h[k]
<1> DEFINE S == {k \in Nat : k <= m /\ k <= n => g[k] = h[k]}
<1>1. 0 \in S
  BY DEF IsRun
<1>2. ASSUME NEW k \in Nat, k \in S PROVE k + 1 \in S
  <2>1. CASE k + 1 <= m /\ k + 1 <= n
    <3>1. g[k] = h[k] /\ k + 1 \in 1 .. m /\ k + 1 \in 1 .. n /\ (k + 1) - 1 = k
      BY <1>2, <2>1
    <3>2. g[k + 1] = step[g[k]] /\ h[k + 1] = step[h[k]]
      BY <3>1 DEF IsRun
    <3>3. QED
      BY <3>1, <3>2
  <2>2. QED
    BY <2>1
<1>3. Nat \subseteq S
  <2> HIDE DEF S
  <2>1. QED
    BY <1>1, <1>2, Induction
<1>4. QED
  BY <1>3

\* All rounds of it.
EachRound(r, step, t) == r[0] = t /\ \A n \in Nat : r[n + 1] = step[r[n]]

\* After is the loop it describes: t before the first round, and in each one more step.
LEMMA AfterEachRound ==
  ASSUME NEW T, NEW step \in [T -> T], NEW t \in T
  PROVE  After(step, t) \in [Nat -> T] /\ EachRound(After(step, t), step, t)
<1> DEFINE run(n) == CHOOSE g \in [0 .. n -> T] : IsRun(g, n, step, t)
           f == [n \in Nat |-> run(n)[n]]
           next(h) == [n \in Nat |-> IF n = 0 THEN t ELSE step[h[n - 1]]]
<1>1. \A n \in Nat : run(n) \in [0 .. n -> T] /\ IsRun(run(n), n, step, t)
  BY RunsExist
<1> HIDE DEF run
<1>2. f[0] = t
  BY <1>1 DEF IsRun
<1>3. ASSUME NEW n \in Nat, n # 0 PROVE f[n] = step[f[n - 1]]
  <2>1. n - 1 \in Nat /\ n \in 1 .. n
    BY <1>3
  <2>2. run(n)[n] = step[run(n)[n - 1]]
    BY <1>1, <2>1 DEF IsRun
  <2>3. run(n)[n - 1] = run(n - 1)[n - 1]
    <3>1. IsRun(run(n), n, step, t) /\ IsRun(run(n - 1), n - 1, step, t)
      BY <1>1, <2>1
    <3>2. QED
      BY <2>1, <3>1, RunsAgree
  <2>4. QED
    BY <2>1, <2>2, <2>3
<1>4. f = next(f)
  <2> DEFINE e(n) == IF n = 0 THEN t ELSE step[f[n - 1]]
  <2>1. \A n \in Nat : f[n] = e(n)
    BY <1>2, <1>3
  <2>2. f = [n \in Nat |-> f[n]]
    OBVIOUS
  <2> HIDE DEF f
  <2>3. [n \in Nat |-> f[n]] = [n \in Nat |-> e(n)]
    BY <2>1
  <2>4. QED
    BY <2>2, <2>3
<1>5. After(step, t) = CHOOSE h : h = next(h)
  BY DEF After
<1> HIDE DEF f, next
<1>6. After(step, t) = next(After(step, t))
  BY <1>4, <1>5
<1> DEFINE r == After(step, t)
<1>7. r = [n \in Nat |-> IF n = 0 THEN t ELSE step[r[n - 1]]]
  BY <1>6 DEF next
<1> HIDE DEF r
<1>8. r[0] = t /\ \A n \in Nat : r[n + 1] = step[r[n]]
  <2>1. \A n \in Nat : r[n] = IF n = 0 THEN t ELSE step[r[n - 1]]
    BY <1>7
  <2>2. \A n \in Nat : n + 1 \in Nat /\ n + 1 # 0 /\ (n + 1) - 1 = n
    OBVIOUS
  <2>3. QED
    BY <2>1, <2>2
<1> DEFINE S == {n \in Nat : r[n] \in T}
<1>9. Nat \subseteq S
  <2>1. 0 \in S /\ \A n \in Nat : n \in S => n + 1 \in S
    BY <1>8
  <2> HIDE DEF S
  <2>2. QED
    BY <2>1, Induction
<1>10. r \in [Nat -> T]
  BY <1>7, <1>9
<1>11. QED
  BY <1>8, <1>10 DEF r, EachRound

-----------------------------------------------------------------------------
(* A case stays what it is                                                 *)

\* A case of a kind is one of that kind's cases.
LEMMA CaseOfKind ==
  ASSUME case \in Evaluated
  PROVE  /\ case.kind = "sequence" => case.of \in SequenceCases
         /\ case.kind = "answer" => case.of \in AnswerCases
         /\ case.kind = "ramp" => case.of \in RampCases
         /\ case.kind = "delay" => case.of \in DelayCases
         /\ case.kind = "backoff" => case.of \in BackoffCases
         /\ case # Calls
<1>1. PICK kind \in {"sequence", "delay", "ramp", "backoff", "answer", "render"} : case \in Case(kind)
  BY DEF Evaluated
<1>2. case.kind = kind
  BY <1>1 DEF Case
<1>3. kind = "sequence" => case.of \in SequenceCases
  BY <1>1 DEF Case
<1>4. kind = "answer" => case.of \in AnswerCases
  BY <1>1 DEF Case
<1>5. kind = "ramp" => case.of \in RampCases
  BY <1>1 DEF Case
<1>6. kind = "delay" => case.of \in DelayCases
  BY <1>1 DEF Case
<1>7. kind = "backoff" => case.of \in BackoffCases
  BY <1>1 DEF Case
<1>8. case # Calls
  BY <1>2 DEF Calls
<1>9. QED
  BY <1>2, <1>3, <1>4, <1>5, <1>6, <1>7, <1>8

\* Nothing but the calls makes a step.
Cases == case \in Evaluated \/ case = Calls

LEMMA CasesInvariant == CasesSpec => []Cases
<1>1. CasesInit => Cases
  BY DEF CasesInit, OneCase, Cases
<1>2. Cases /\ [CasesNext]_<<case, vars>> => Cases'
  BY DEF Cases, CasesNext, Evaluated, Calls
<1>3. QED
  BY <1>1, <1>2, PTL DEF CasesSpec

-----------------------------------------------------------------------------
(* Sequences                                                               *)

\* From a step of an accepted sequence everything that follows comes later.
LEMMA SuccessorsAreLater ==
  ASSUME NEW steps, Valid(steps), NEW i \in Indices(steps)
  PROVE  \A k \in Successors(steps, i) : k \in Indices(steps) /\ k > i
<1>1. StepFits(steps, i)
  BY DEF Valid
<1>2. At(steps, i).step_type = "condition" => \A target \in Targets(At(steps, i)) : target \in Indices(steps) /\ target > i
  BY <1>1 DEF StepFits, ConditionFits, BranchFits
<1>3. \A k \in {i + 1} \cap Indices(steps) : k > i
  BY DEF Indices
<1>4. QED
  BY <1>2, <1>3 DEF Successors

\* BranchesEnd: in a sequence that Validate accepts no chain of branches leads back to a
\* step nor out of the sequence (sequence.go).
THEOREM BranchesAlwaysEnd == CasesSpec => []BranchesEnd
<1>1. BranchesEnd
  <2>1. SUFFICES ASSUME Valid(case.of), NEW i \in Indices(case.of)
                 PROVE  i \notin Reached(case.of, i) /\ Reached(case.of, i) \subseteq Indices(case.of)
    BY DEF BranchesEnd
  <2> DEFINE everywhere == UNION {Successors(case.of, j) : j \in Indices(case.of)}
             later == {k \in everywhere : k \in Indices(case.of) /\ k > i}
  <2>2. ASSUME NEW j \in {i} \cup (later \cap Indices(case.of)) PROVE Successors(case.of, j) \subseteq later
    <3>1. j \in Indices(case.of) /\ j >= i
      BY <2>1 DEF Indices
    <3>2. \A k \in Successors(case.of, j) : k \in Indices(case.of) /\ k > j
      BY <2>1, <3>1, SuccessorsAreLater
    <3>3. \A k \in Successors(case.of, j) : k > i
      BY <3>1, <3>2 DEF Indices
    <3>4. QED
      BY <3>1, <3>2, <3>3
  <2>3. Closed(case.of, i, later) /\ later \in SUBSET everywhere
    BY <2>2 DEF Closed
  <2>4. Reached(case.of, i) \subseteq later
    BY <2>3 DEF Reached
  <2>5. i \notin later
    BY DEF Indices
  <2>6. QED
    BY <2>4, <2>5
<1>2. QED
  BY <1>1, PTL

-----------------------------------------------------------------------------
(* Answers                                                                 *)

\* RetriedExactlyOnLoad: a row is armed again after no answer that could be read or one about
\* load that names nothing lasting, as far as the wording is heard, and after no other; every
\* other error fails it (errors.go, handleUnipileError).
THEOREM RetriesExactlyOnLoad == CasesSpec => []RetriedExactlyOnLoad
<1>1. Cases => RetriedExactlyOnLoad
  <2> SUFFICES ASSUME Cases, case.kind = "answer" PROVE RetriedExactlyOnLoad
    BY DEF RetriedExactlyOnLoad
  <2> DEFINE back == case.of
             named == {"premium_required", "inmail_credit_exhausted", "account_disconnected", "invalid_provider_id"}
             load == back.status \in {422, 429} \cup 500 .. 599 \/ back.words \cap {"limit", "resend"} # {}
             heard == IF back.type = "" THEN back.words ELSE back.words \ {"premium", "credit", "reauth", "provider_id"}
             lasting == \/ back.status \in {403, 404, 451}
                        \/ back.type \in named
                        \/ heard \ {"limit"} # {}
  <2>1. back \in [status : Nat, type : STRING, words : SUBSET Wordings, decodes : BOOLEAN]
    <3>1. case \in Evaluated
      BY DEF Cases, Calls
    <3>2. QED
      BY <3>1, CaseOfKind, CasesAssumption
  <2>2. {Inferred[w] : w \in DOMAIN Inferred} = named
    <3>1. DOMAIN Inferred = {"premium", "credit", "reauth", "provider_id"}
      BY DEF Inferred
    <3>2. /\ Inferred["premium"] = "premium_required" /\ Inferred["credit"] = "inmail_credit_exhausted"
          /\ Inferred["reauth"] = "account_disconnected" /\ Inferred["provider_id"] = "invalid_provider_id"
      BY DEF Inferred
    <3>3. QED
      BY <3>1, <3>2
  <2>3. ErrorType(back) \in named <=>
          back.type \in named \/ (back.type = "" /\ back.words \cap {"premium", "credit", "reauth", "provider_id"} # {})
    BY DEF ErrorType, Inferred
  <2>4. heard \ {"limit"} # {} <=>
          \/ back.words \cap {"refused", "weekly", "resend"} # {}
          \/ back.type = "" /\ back.words \cap {"premium", "credit", "reauth", "provider_id"} # {}
    BY <2>1 DEF Wordings
  <2>5. lasting <=> IsPermanent(back) \/ IsWeeklyCap(back)
    <3> HIDE DEF heard, named
    <3>1. lasting <=> \/ back.status \in {403, 404, 451}
                      \/ back.words \cap {"refused", "weekly", "resend"} # {}
                      \/ back.type \in named
                      \/ back.type = "" /\ back.words \cap {"premium", "credit", "reauth", "provider_id"} # {}
      BY <2>4
    <3>2. back.words \cap {"refused", "weekly", "resend"} # {} <=>
            "refused" \in back.words \/ back.words \cap {"weekly", "resend"} # {}
      OBVIOUS
    <3>3. IsPermanent(back) <=> \/ back.status \in {403, 404, 451}
                                \/ ErrorType(back) \in named
                                \/ "refused" \in back.words
      BY <2>2 DEF IsPermanent
    <3>4. QED
      BY <2>3, <3>1, <3>2, <3>3 DEF IsWeeklyCap
  <2>6. load <=> Retried(back)
    BY DEF Retried, IsThrottled, IsLinkedInRateLimit, IsTransient
  <2>7. IsAPIError(back) <=> back.status >= 400
    BY DEF IsAPIError
  <2>8. IsOtherError(back) => ~(back.status >= 400)
    BY <2>1 DEF IsOtherError
  <2> HIDE DEF lasting, load
  <2>9. Fate(back) = "released" <=> IsOtherError(back) \/ (back.status >= 400 /\ load /\ ~lasting)
    BY <2>5, <2>6, <2>7, <2>8 DEF Fate
  <2>10. Fate(back) = "failed" <=> back.status >= 400 /\ (lasting \/ ~load)
    BY <2>5, <2>6, <2>7, <2>8 DEF Fate
  <2>11. QED
    BY <2>9, <2>10 DEF RetriedExactlyOnLoad, lasting, load
<1>2. QED
  BY <1>1, CasesInvariant, PTL

-----------------------------------------------------------------------------
(* Working hours                                                           *)

\* A time is its day and the hour of it, and earlier days come earlier.
LEMMA DayAndHour ==
  ASSUME NEW t \in Int
  PROVE  DayOf(t) \in Int /\ HourOf(t) \in 0 .. 23 /\ t = OnDay(DayOf(t), HourOf(t))
BY DEF DayOf, HourOf, OnDay

\* No round of moveToNextWorkingSlot passes over a working hour, and each gets ahead: for a
\* day that begins and a break that ends within the day, whatever the other hours
\* are (delay.go). How the rounds add up to the first working hour is SlotIsFirst.
THEOREM NoSlotSkipped ==
  ASSUME NEW cfg, Opens(cfg) \in 0 .. 24, Closes(cfg) \in Int, Opens(cfg) < Closes(cfg),
         cfg.lunchStart \in Int, cfg.lunchEnd \in 0 .. 24,
         NEW t \in Int, ~Working(cfg, t)
  PROVE  /\ Moved(cfg, t) \in Int /\ Moved(cfg, t) > t
         /\ \A u \in t .. Moved(cfg, t) - 1 : ~Working(cfg, u)
<1> DEFINE day == DayOf(t)
           hour == HourOf(t)
<1>1. day \in Int /\ hour \in 0 .. 23 /\ t = 24 * day + hour
  BY DayAndHour DEF OnDay
<1>2. \A u \in Int : DayOf(u) \in Int /\ HourOf(u) \in 0 .. 23 /\ u = 24 * DayOf(u) + HourOf(u)
  BY DayAndHour DEF OnDay
<1>0. \A d \in Int, n \in Int : OnDay(d, n) = 24 * d + n /\ OnDay(d, n) \in Int
  BY DEF OnDay
<1> HIDE DEF day, hour
<1>3. CASE OffDay(cfg, t) \/ hour >= Closes(cfg)
  <2>1. Moved(cfg, t) = 24 * (day + 1) + Opens(cfg) /\ Moved(cfg, t) \in Int
    <3>1. Moved(cfg, t) = OnDay(day + 1, Opens(cfg))
      BY <1>1, <1>3 DEF Moved, day, hour
    <3>2. QED
      BY <1>1, <3>1 DEF OnDay
  <2>2. ASSUME NEW u \in t .. Moved(cfg, t) - 1 PROVE ~Working(cfg, u)
    <3>0. u \in Int /\ DayOf(u) \in Int /\ HourOf(u) \in 0 .. 23 /\ u = 24 * DayOf(u) + HourOf(u)
      BY <1>1, <1>2, <2>1
    <3>1. CASE DayOf(u) = day
      <4>1. HourOf(u) >= hour
        BY <1>1, <3>0, <3>1
      <4>2. OffDay(cfg, t) => OffDay(cfg, u)
        BY <3>1 DEF OffDay, IsWeekend, IsHoliday, day
      <4>3. hour >= Closes(cfg) => HourOf(u) >= Closes(cfg)
        BY <1>1, <3>0, <4>1
      <4>4. QED
        BY <3>0, <1>3, <4>2, <4>3 DEF Working
    <3>2. CASE DayOf(u) # day
      <4>1. DayOf(u) = day + 1
        <5>1. u >= t /\ u < 24 * (day + 1) + Opens(cfg)
          BY <2>1, <3>0
        <5>2. DayOf(u) >= day /\ DayOf(u) < day + 2
          BY <1>1, <3>0, <5>1
        <5>3. QED
          BY <1>1, <3>0, <3>2, <5>2
      <4>2. HourOf(u) < Opens(cfg)
        BY <1>1, <2>1, <3>0, <4>1
      <4>3. QED
        BY <3>0, <4>2 DEF Working
    <3>3. QED
      BY <3>1, <3>2
  <2>3. QED
    BY <1>1, <2>1, <2>2
<1>4. CASE ~OffDay(cfg, t) /\ ~(hour >= Closes(cfg)) /\ hour < Opens(cfg)
  <2>1. Moved(cfg, t) = 24 * day + Opens(cfg) /\ Moved(cfg, t) \in Int
    BY <1>0, <1>1, <1>4 DEF Moved, day, hour
  <2>2. ASSUME NEW u \in t .. Moved(cfg, t) - 1 PROVE ~Working(cfg, u)
    <3>0. u \in Int /\ DayOf(u) \in Int /\ HourOf(u) \in 0 .. 23 /\ u = 24 * DayOf(u) + HourOf(u)
      BY <1>1, <1>2, <2>1
    <3>1. HourOf(u) < Opens(cfg)
      BY <1>1, <2>1, <3>0
    <3>2. QED
      BY <3>0, <3>1 DEF Working
  <2>3. QED
    BY <1>1, <1>4, <2>1, <2>2
<1>5. CASE ~OffDay(cfg, t) /\ ~(hour >= Closes(cfg)) /\ ~(hour < Opens(cfg))
  <2>1. Moved(cfg, t) = 24 * day + cfg.lunchEnd /\ Moved(cfg, t) \in Int
    BY <1>0, <1>1, <1>5 DEF Moved, day, hour
  <2>2. hour >= cfg.lunchStart /\ hour < cfg.lunchEnd
    BY <1>1, <1>5 DEF Working, AtLunch, hour
  <2>3. ASSUME NEW u \in t .. Moved(cfg, t) - 1 PROVE ~Working(cfg, u)
    <3>0. u \in Int /\ DayOf(u) \in Int /\ HourOf(u) \in 0 .. 23 /\ u = 24 * DayOf(u) + HourOf(u)
      BY <1>1, <1>2, <2>1
    <3>1. HourOf(u) >= hour /\ HourOf(u) < cfg.lunchEnd
      BY <1>1, <2>1, <3>0
    <3>2. AtLunch(cfg, u)
      BY <1>1, <2>2, <3>0, <3>1 DEF AtLunch
    <3>3. QED
      BY <3>2 DEF Working
  <2>4. QED
    BY <1>1, <2>1, <2>2, <2>3
<1>6. QED
  BY <1>3, <1>4, <1>5

\* How far a time has come: its day, and what of it the search has behind it - the hours before
\* the day begins, and those before the break ends.
Phase(cfg, t) == IF HourOf(t) < Opens(cfg) THEN 0 ELSE IF HourOf(t) < cfg.lunchEnd THEN 1 ELSE 2
Progress(cfg, t) == 3 * DayOf(t) + Phase(cfg, t)

\* Where a round moves a time, by day and hour.
LEMMA HourOnDay ==
  ASSUME NEW day \in Int, NEW hour \in 0 .. 24
  PROVE  /\ OnDay(day, hour) \in Int
         /\ hour < 24 => DayOf(OnDay(day, hour)) = day /\ HourOf(OnDay(day, hour)) = hour
         /\ hour = 24 => DayOf(OnDay(day, hour)) = day + 1 /\ HourOf(OnDay(day, hour)) = 0
<1> DEFINE t == OnDay(day, hour)
<1>1. t \in Int /\ t = 24 * day + hour
  BY DEF OnDay
<1>2. DayOf(t) \in Int /\ HourOf(t) \in 0 .. 23 /\ t = 24 * DayOf(t) + HourOf(t)
  BY <1>1, DayAndHour DEF OnDay
<1> HIDE DEF t
<1>3. QED
  BY <1>1, <1>2 DEF t

\* Each round gets on by one at least, so that three of them reach another day.
LEMMA RoundsProgress ==
  ASSUME NEW cfg, Opens(cfg) \in 0 .. 24, Closes(cfg) \in Int, Opens(cfg) < Closes(cfg),
         cfg.lunchStart \in Int, cfg.lunchEnd \in 0 .. 24,
         NEW t \in Int, ~Working(cfg, t)
  PROVE  Progress(cfg, Moved(cfg, t)) >= Progress(cfg, t) + 1
<1> DEFINE day == DayOf(t)
           hour == HourOf(t)
           moved == Moved(cfg, t)
<1>1. day \in Int /\ hour \in 0 .. 23
  BY DayAndHour
<1>2. \A u : Phase(cfg, u) \in 0 .. 2
  BY DEF Phase
<1>3. CASE OffDay(cfg, t) \/ hour >= Closes(cfg)
  <2> HIDE DEF day, hour
  <2>1. moved = OnDay(day + 1, Opens(cfg))
    BY <1>1, <1>3 DEF Moved, day, hour
  <2> HIDE DEF moved
  <2>2. Opens(cfg) < 24 => DayOf(moved) = day + 1 /\ HourOf(moved) = Opens(cfg)
    BY <1>1, <2>1, day + 1 \in Int, HourOnDay
  <2>3. Opens(cfg) = 24 => DayOf(moved) = day + 2
    BY <1>1, <2>1, day + 1 \in Int, HourOnDay
  <2>4. Opens(cfg) < 24 => Phase(cfg, moved) >= 1
    BY <2>2 DEF Phase
  <2>5. DayOf(moved) \in Int /\ 3 * DayOf(moved) + Phase(cfg, moved) >= 3 * day + 2 + 1
    BY <1>1, <1>2, <2>2, <2>3, <2>4
  <2>6. QED
    BY <1>1, <1>2, <2>5 DEF Progress, day, moved
<1>4. CASE ~OffDay(cfg, t) /\ ~(hour >= Closes(cfg)) /\ hour < Opens(cfg)
  <2>1. moved = OnDay(day, Opens(cfg))
    BY <1>4 DEF Moved
  <2>2. Opens(cfg) < 24 => DayOf(moved) = day /\ HourOf(moved) = Opens(cfg)
    BY <1>1, <2>1, HourOnDay
  <2>3. Opens(cfg) = 24 => DayOf(moved) = day + 1
    BY <1>1, <2>1, HourOnDay
  <2>4. Phase(cfg, t) = 0
    BY <1>4 DEF Phase
  <2> HIDE DEF day, moved
  <2>5. Opens(cfg) < 24 => Phase(cfg, moved) >= 1
    BY <2>2 DEF Phase
  <2>6. DayOf(moved) \in Int /\ 3 * DayOf(moved) + Phase(cfg, moved) >= 3 * day + 1
    BY <1>1, <1>2, <2>2, <2>3, <2>5
  <2>7. QED
    BY <1>1, <2>4, <2>6 DEF Progress, day, moved
<1>5. CASE ~OffDay(cfg, t) /\ ~(hour >= Closes(cfg)) /\ ~(hour < Opens(cfg))
  <2>1. moved = OnDay(day, cfg.lunchEnd)
    BY <1>5 DEF Moved
  <2>2. hour < cfg.lunchEnd /\ hour >= Opens(cfg)
    BY <1>1, <1>5 DEF Working, AtLunch
  <2>3. cfg.lunchEnd < 24 => DayOf(moved) = day /\ HourOf(moved) = cfg.lunchEnd
    BY <1>1, <2>1, HourOnDay
  <2>4. cfg.lunchEnd = 24 => DayOf(moved) = day + 1
    BY <1>1, <2>1, HourOnDay
  <2>5. Phase(cfg, t) = 1
    BY <1>1, <2>2 DEF Phase
  <2> HIDE DEF day, hour, moved
  <2>6. cfg.lunchEnd < 24 => Phase(cfg, moved) = 2
    BY <1>1, <2>2, <2>3 DEF Phase
  <2>7. DayOf(moved) \in Int /\ 3 * DayOf(moved) + Phase(cfg, moved) >= 3 * day + 1 + 1
    BY <1>1, <1>2, <2>3, <2>4, <2>6
  <2>8. QED
    BY <1>1, <2>5, <2>7 DEF Progress, day, moved
<1>6. QED
  BY <1>3, <1>4, <1>5

\* After n rounds the search has passed over no working hour, and has found one or come on by n.
LEMMA SearchSoFar ==
  ASSUME NEW cfg, Opens(cfg) \in 0 .. 24, Closes(cfg) \in Int, Opens(cfg) < Closes(cfg),
         cfg.lunchStart \in Int, cfg.lunchEnd \in 0 .. 24, NEW t \in Int, NEW n \in Nat
  PROVE  LET slot == After([cur \in Int |-> IF Working(cfg, cur) THEN cur ELSE Moved(cfg, cur)], t)
         IN /\ slot[n] \in Int /\ slot[n] >= t
            /\ \A u \in t .. slot[n] - 1 : ~Working(cfg, u)
            /\ Working(cfg, slot[n]) \/ Progress(cfg, slot[n]) >= Progress(cfg, t) + n
<1> DEFINE step == [cur \in Int |-> IF Working(cfg, cur) THEN cur ELSE Moved(cfg, cur)]
           slot == After(step, t)
           Fine(m) == /\ slot[m] \in Int /\ slot[m] >= t
                      /\ \A u \in t .. slot[m] - 1 : ~Working(cfg, u)
                      /\ Working(cfg, slot[m]) \/ Progress(cfg, slot[m]) >= Progress(cfg, t) + m
           S == {m \in Nat : Fine(m)}
<1>1. step \in [Int -> Int]
  BY NoSlotSkipped
<1>2. slot \in [Nat -> Int] /\ slot[0] = t /\ \A m \in Nat : slot[m + 1] = step[slot[m]]
  <2>1. slot \in [Nat -> Int] /\ EachRound(slot, step, t)
    <3> HIDE DEF step
    <3>1. QED
      BY <1>1, AfterEachRound
  <2>2. QED
    BY <2>1 DEF EachRound
<1>3. \A u \in Int : Progress(cfg, u) \in Int
  <2>1. \A u \in Int : DayOf(u) \in Int /\ Phase(cfg, u) \in Int
    BY DayAndHour DEF Phase
  <2>2. QED
    BY <2>1 DEF Progress
<1> HIDE DEF slot
<1>4. Fine(0)
  BY <1>2, <1>3
<1>5. ASSUME NEW m \in Nat, Fine(m) PROVE Fine(m + 1)
  <2>1. CASE Working(cfg, slot[m])
    <3>1. slot[m + 1] = slot[m]
      BY <1>2, <2>1
    <3>2. QED
      BY <1>5, <2>1, <3>1
  <2>2. CASE ~Working(cfg, slot[m])
    <3> DEFINE cur == slot[m]
               after == slot[m + 1]
    <3>1. cur \in Int /\ after = Moved(cfg, cur)
      BY <1>2, <2>2
    <3>2. /\ after \in Int /\ after > cur
          /\ \A u \in cur .. after - 1 : ~Working(cfg, u)
      BY <2>2, <3>1, NoSlotSkipped
    <3>3. Progress(cfg, after) >= Progress(cfg, cur) + 1
      BY <2>2, <3>1, RoundsProgress
    <3>4. Progress(cfg, cur) >= Progress(cfg, t) + m
      BY <1>5, <2>2
    <3>5. Progress(cfg, after) \in Int /\ Progress(cfg, cur) \in Int /\ Progress(cfg, t) \in Int
      BY <1>3, <3>1, <3>2
    <3>6. cur >= t /\ \A u \in t .. cur - 1 : ~Working(cfg, u)
      BY <1>5
    <3> HIDE DEF cur, after
    <3>7. Progress(cfg, after) >= Progress(cfg, t) + (m + 1)
      BY <3>3, <3>4, <3>5
    <3>8. after >= t
      BY <3>1, <3>2, <3>6
    <3>9. ASSUME NEW u \in t .. after - 1 PROVE ~Working(cfg, u)
      <4>1. u \in t .. cur - 1 \/ u \in cur .. after - 1
        BY <3>1, <3>2, <3>6
      <4>2. QED
        BY <3>2, <3>6, <4>1
    <3>10. QED
      BY <3>2, <3>7, <3>8, <3>9 DEF after
  <2>3. QED
    BY <2>1, <2>2
<1>6. n \in S
  <2>1. 0 \in S /\ \A m \in Nat : m \in S => m + 1 \in S
    BY <1>4, <1>5
  <2> HIDE DEF S
  <2>2. QED
    BY <2>1, Induction
<1>7. QED
  BY <1>6 DEF slot

\* The two hundred rounds are enough: whatever the calendar, the search passes over no working
\* hour, and finds one if there is one within three weeks.
LEMMA SlotFound ==
  ASSUME NEW cfg, Opens(cfg) \in 0 .. 24, Closes(cfg) \in Int,
         cfg.lunchStart \in Int, cfg.lunchEnd \in 0 .. 24, NEW t \in Int
  PROVE  LET answer == MoveToNextWorkingSlot(cfg, t)
         IN /\ answer \in Int /\ answer >= t /\ \A u \in t .. answer - 1 : ~Working(cfg, u)
            /\ (\E u \in t .. t + ThreeWeeks : Working(cfg, u)) => Working(cfg, answer)
<1>1. CASE Opens(cfg) >= Closes(cfg)
  <2>1. MoveToNextWorkingSlot(cfg, t) = t
    BY <1>1 DEF MoveToNextWorkingSlot
  <2>2. ASSUME NEW u \in Int PROVE ~Working(cfg, u)
    <3>1. HourOf(u) \in Int
      BY DayAndHour
    <3>2. QED
      BY <1>1, <3>1 DEF Working
  <2>3. QED
    BY <2>1, <2>2 DEF ThreeWeeks
<1>2. CASE Opens(cfg) < Closes(cfg)
  <2> DEFINE answer == MoveToNextWorkingSlot(cfg, t)
  <2>1. /\ answer \in Int /\ answer >= t
        /\ \A u \in t .. answer - 1 : ~Working(cfg, u)
        /\ Working(cfg, answer) \/ Progress(cfg, answer) >= Progress(cfg, t) + 200
    <3>1. MaxMoves \in Nat /\ MaxMoves = 200
      BY DEF MaxMoves
    <3> DEFINE slot == After([cur \in Int |-> IF Working(cfg, cur) THEN cur ELSE Moved(cfg, cur)], t)
    <3>2. answer = slot[MaxMoves]
      BY <1>2 DEF MoveToNextWorkingSlot
    <3>3. /\ slot[MaxMoves] \in Int /\ slot[MaxMoves] >= t
          /\ \A u \in t .. slot[MaxMoves] - 1 : ~Working(cfg, u)
          /\ Working(cfg, slot[MaxMoves]) \/ Progress(cfg, slot[MaxMoves]) >= Progress(cfg, t) + MaxMoves
      BY <1>2, <3>1, SearchSoFar
    <3> HIDE DEF slot
    <3>4. QED
      BY <3>1, <3>2, <3>3
  <2> HIDE DEF answer
  <2>2. ASSUME NEW u \in t .. t + ThreeWeeks, Working(cfg, u), ~Working(cfg, answer) PROVE FALSE
    <3>1. answer <= u /\ u \in Int
      BY <2>1, <2>2
    <3>2. u <= t + 504
      BY <2>2 DEF ThreeWeeks
    <3>3. DayOf(answer) <= DayOf(t) + 22
      <4>1. DayOf(answer) \in Int /\ HourOf(answer) \in 0 .. 23 /\ answer = 24 * DayOf(answer) + HourOf(answer)
        BY <2>1, DayAndHour DEF OnDay
      <4>2. DayOf(t) \in Int /\ HourOf(t) \in 0 .. 23 /\ t = 24 * DayOf(t) + HourOf(t)
        BY DayAndHour DEF OnDay
      <4>3. QED
        BY <2>1, <3>1, <3>2, <4>1, <4>2
    <3>4. /\ Progress(cfg, answer) <= 3 * DayOf(answer) + 2 /\ Progress(cfg, t) >= 3 * DayOf(t)
          /\ Progress(cfg, answer) \in Int /\ Progress(cfg, t) \in Int /\ DayOf(answer) \in Int /\ DayOf(t) \in Int
      <4>1. DayOf(answer) \in Int /\ DayOf(t) \in Int
        BY <2>1, DayAndHour
      <4>2. Phase(cfg, answer) \in 0 .. 2 /\ Phase(cfg, t) \in 0 .. 2
        BY DEF Phase
      <4>3. QED
        BY <4>1, <4>2 DEF Progress
    <3>5. QED
      BY <2>1, <2>2, <3>3, <3>4
  <2>3. QED
    BY <2>1, <2>2 DEF answer
<1>3. QED
  BY <1>1, <1>2

\* The days of skipNonWorkingDays: after n rounds it is at a day that is not off, or n days on.
LEMMA DaysSoFar ==
  ASSUME NEW cfg, NEW t \in Int, NEW n \in Nat
  PROVE  LET day == After([cur \in Int |-> IF OffDay(cfg, cur) THEN cur + 24 ELSE cur], t)
         IN \E k \in 0 .. n : /\ day[n] = t + 24 * k /\ \A j \in 0 .. k - 1 : OffDay(cfg, t + 24 * j)
                              /\ ~OffDay(cfg, t + 24 * k) \/ k = n
<1> DEFINE step == [cur \in Int |-> IF OffDay(cfg, cur) THEN cur + 24 ELSE cur]
           day == After(step, t)
           Fine(m, k) == /\ day[m] = t + 24 * k /\ \A j \in 0 .. k - 1 : OffDay(cfg, t + 24 * j)
                         /\ ~OffDay(cfg, t + 24 * k) \/ k = m
           S == {m \in Nat : \E k \in 0 .. m : Fine(m, k)}
<1>1. step \in [Int -> Int]
  OBVIOUS
<1>2. day \in [Nat -> Int] /\ day[0] = t /\ \A m \in Nat : day[m + 1] = step[day[m]]
  <2>1. day \in [Nat -> Int] /\ EachRound(day, step, t)
    <3> HIDE DEF step
    <3>1. QED
      BY <1>1, AfterEachRound
  <2>2. QED
    BY <2>1 DEF EachRound
<1> HIDE DEF day
<1>3. 0 \in S
  <2>1. Fine(0, 0)
    BY <1>2
  <2>2. QED
    BY <2>1
<1>4. ASSUME NEW m \in Nat, NEW k \in 0 .. m, Fine(m, k) PROVE m + 1 \in S
  <2>1. CASE ~OffDay(cfg, t + 24 * k)
    <3>1. day[m + 1] = t + 24 * k
      BY <1>2, <1>4, <2>1
    <3>2. Fine(m + 1, k)
      BY <1>4, <2>1, <3>1
    <3>3. QED
      BY <3>2
  <2>2. CASE OffDay(cfg, t + 24 * k)
    <3>1. k = m
      BY <1>4, <2>2
    <3>2. day[m + 1] = t + 24 * (m + 1)
      <4>1. day[m] = t + 24 * m /\ t + 24 * m \in Int /\ OffDay(cfg, day[m])
        BY <1>4, <2>2, <3>1
      <4>2. step[day[m]] = day[m] + 24
        BY <4>1
      <4>3. day[m + 1] = (t + 24 * m) + 24
        BY <1>2, <4>1, <4>2
      <4>4. QED
        BY <4>3
    <3>3. \A j \in 0 .. (m + 1) - 1 : OffDay(cfg, t + 24 * j)
      <4>1. \A j \in 0 .. (m + 1) - 1 : j \in 0 .. k - 1 \/ j = k
        BY <3>1
      <4>2. QED
        BY <1>4, <2>2, <4>1
    <3>4. Fine(m + 1, m + 1)
      BY <3>2, <3>3
    <3>5. QED
      BY <3>4
  <2>3. QED
    BY <2>1, <2>2
<1>5. n \in S
  <2>1. \A m \in Nat : m \in S => m + 1 \in S
    BY <1>4
  <2> HIDE DEF S
  <2>2. QED
    BY <1>3, <2>1, Induction
<1>6. QED
  BY <1>5 DEF day

\* skipNonWorkingDays keeps the hour and passes over no day that is not off.
LEMMA DayFound ==
  ASSUME NEW cfg, NEW t \in Int
  PROVE  LET answer == SkipNonWorkingDays(cfg, t)
             Opened(u) == HourOf(u) = HourOf(t) /\ ~OffDay(cfg, u)
         IN /\ answer \in Int /\ answer >= t /\ \A u \in t .. answer - 1 : ~Opened(u)
            /\ (\E u \in t .. t + ThreeWeeks : Opened(u)) => Opened(answer)
<1> DEFINE answer == SkipNonWorkingDays(cfg, t)
           Opened(u) == HourOf(u) = HourOf(t) /\ ~OffDay(cfg, u)
<1>1. PICK k \in 0 .. 30 : /\ answer = t + 24 * k /\ \A j \in 0 .. k - 1 : OffDay(cfg, t + 24 * j)
                           /\ ~OffDay(cfg, t + 24 * k) \/ k = 30
  <2>1. MaxDays \in Nat /\ MaxDays = 30
    BY DEF MaxDays
  <2>2. QED
    BY <2>1, DaysSoFar DEF SkipNonWorkingDays
<1>2. ASSUME NEW u \in Int, u >= t, HourOf(u) = HourOf(t) PROVE \E j \in Nat : u = t + 24 * j
  <2>1. DayOf(u) \in Int /\ HourOf(u) \in 0 .. 23 /\ u = 24 * DayOf(u) + HourOf(u)
    BY DayAndHour DEF OnDay
  <2>2. DayOf(t) \in Int /\ HourOf(t) \in 0 .. 23 /\ t = 24 * DayOf(t) + HourOf(t)
    BY DayAndHour DEF OnDay
  <2>3. DayOf(u) - DayOf(t) \in Nat /\ u = t + 24 * (DayOf(u) - DayOf(t))
    BY <1>2, <2>1, <2>2
  <2>4. QED
    BY <2>3
<1> HIDE DEF answer
<1>3. ASSUME NEW u \in t .. answer - 1, Opened(u) PROVE FALSE
  <2>1. PICK j \in Nat : u = t + 24 * j
    BY <1>2, <1>3, <1>1
  <2>2. j \in 0 .. k - 1
    BY <1>1, <2>1
  <2>3. QED
    BY <1>1, <1>3, <2>1, <2>2
<1>4. ASSUME NEW u \in t .. t + ThreeWeeks, Opened(u) PROVE Opened(answer)
  <2>1. PICK j \in Nat : u = t + 24 * j
    BY <1>2, <1>4 DEF ThreeWeeks
  <2>2. j <= 21
    BY <2>1 DEF ThreeWeeks
  <2>3. j \notin 0 .. k - 1
    BY <1>1, <1>4, <2>1
  <2>4. ~OffDay(cfg, answer)
    BY <1>1, <2>2, <2>3
  <2>5. HourOf(answer) = HourOf(t)
    BY <1>1 DEF HourOf
  <2>6. QED
    BY <2>4, <2>5
<1>5. QED
  BY <1>1, <1>3, <1>4 DEF answer

\* SlotIsFirst: a delayed step runs at the first time there is for it, for every calendar,
\* delay and base (delay.go).
THEOREM SlotsAreFirst == CasesSpec => []SlotIsFirst
<1>1. Cases => SlotIsFirst
  <2> SUFFICES ASSUME Cases, case.kind = "delay" PROVE SlotIsFirst
    BY DEF SlotIsFirst
  <2> DEFINE cfg == case.of.cfg
             next == Delayed(cfg, case.of.base)
             answer == ComputeNextRunTime(cfg, case.of.base)
             Opened(u) == IF cfg.respect THEN Working(cfg, u) ELSE HourOf(u) = HourOf(next) /\ ~OffDay(cfg, u)
  <2>1. /\ case.of.base \in Int /\ cfg.value \in Int /\ cfg.minPct \in Int /\ cfg.maxPct \in Int /\ cfg.draw \in Int
        /\ cfg.start \in 0 .. 24 /\ cfg.end \in 0 .. 24 /\ cfg.lunchStart \in 0 .. 24 /\ cfg.lunchEnd \in 0 .. 24
        /\ cfg.weekends \in BOOLEAN /\ cfg.respect \in BOOLEAN
    <3>1. case \in Evaluated
      BY DEF Cases, Calls
    <3>2. QED
      BY <3>1, CaseOfKind, CasesAssumption
  <2>2. next \in Int
    <3>1. MinutesIn(cfg.unit) \in Int
      BY DEF MinutesIn
    <3>2. cfg.value * MinutesIn(cfg.unit) \in Int
      BY <2>1, <3>1
    <3>3. \A minutes \in Int : Randomized(minutes, cfg) \in Int
      BY <2>1 DEF Randomized, Parts
    <3>4. Randomized(cfg.value * MinutesIn(cfg.unit), cfg) \in Int
      BY <3>2, <3>3
    <3>5. QED
      BY <2>1, <3>4 DEF Delayed
  <2>3. Opens(cfg) \in 0 .. 24 /\ Closes(cfg) \in Int
    BY <2>1 DEF Opens, Closes
  <2> HIDE DEF cfg, next
  <2>4. /\ answer >= next /\ \A u \in next .. answer - 1 : ~Opened(u)
        /\ (\E u \in next .. next + ThreeWeeks : Opened(u)) => Opened(answer)
    <3>1. CASE cfg.respect
      <4>1. answer = MoveToNextWorkingSlot(cfg, next)
        BY <3>1 DEF ComputeNextRunTime, next, cfg
      <4>2. QED
        BY <2>1, <2>2, <2>3, <3>1, <4>1, SlotFound
    <3>2. CASE ~cfg.respect /\ (cfg.weekends \/ cfg.holidays # {})
      <4>1. answer = SkipNonWorkingDays(cfg, next)
        BY <3>2 DEF ComputeNextRunTime, next, cfg
      <4>2. QED
        BY <2>2, <3>2, <4>1, DayFound
    <3>3. CASE ~cfg.respect /\ ~(cfg.weekends \/ cfg.holidays # {})
      <4>1. answer = next
        BY <3>3 DEF ComputeNextRunTime, next, cfg
      <4>2. ~OffDay(cfg, next)
        BY <3>3 DEF OffDay, IsHoliday
      <4>3. QED
        BY <2>2, <3>3, <4>1, <4>2
    <3>4. QED
      BY <2>1, <3>1, <3>2, <3>3
  <2> HIDE DEF answer
  <2>5. QED
    BY <2>4 DEF SlotIsFirst, cfg, next, answer
<1>2. QED
  BY <1>1, CasesInvariant, PTL

-----------------------------------------------------------------------------
(* Retries                                                                 *)

\* What stands for zero: every retry has a first delay, a longest one and a jitter.
LEMMA BackoffOptions ==
  ASSUME NEW opts \in BackoffCases
  PROVE  /\ BaseMinutes(opts) \in Nat \ {0} /\ MaxMinutes(opts) \in Nat \ {0}
         /\ JitterPct(opts) \in Nat \ {0} /\ opts.attempt \in Int
<1>1. opts \in [kind : STRING, base : Int, max : Int, jitter : Nat, attempt : Int]
  BY CasesAssumption
<1>2. Preset(opts).base \in Nat \ {0} /\ Preset(opts).max \in Nat \ {0}
  <2>1. DOMAIN BackoffDefaults = {"throttle", "transient", "rate_limit"}
    BY DEF BackoffDefaults
  <2>2. \A kind \in DOMAIN BackoffDefaults :
           BackoffDefaults[kind].base \in Nat \ {0} /\ BackoffDefaults[kind].max \in Nat \ {0}
    BY DEF BackoffDefaults
  <2>3. QED
    BY <2>1, <2>2 DEF Preset
<1>3. QED
  BY <1>1, <1>2 DEF BaseMinutes, MaxMinutes, JitterPct

\* Without the cap each delay is twice the one before, from the first one on.
LEMMA Doubling ==
  ASSUME NEW opts, BaseMinutes(opts) \in Nat \ {0}, NEW n \in Int
  PROVE  /\ Doubled(n, opts) \in Nat /\ Doubled(n, opts) >= BaseMinutes(opts)
         /\ n >= 0 => Doubled(n + 1, opts) = 2 * Doubled(n, opts)
<1> DEFINE twice == [minutes \in Nat |-> 2 * minutes]
           base == BaseMinutes(opts)
           delay == After(twice, base)
           S == {m \in Nat : delay[m] >= base}
<1>1. delay \in [Nat -> Nat] /\ EachRound(delay, twice, base)
  <2>1. twice \in [Nat -> Nat] /\ base \in Nat
    OBVIOUS
  <2> HIDE DEF twice, base
  <2>2. QED
    BY <2>1, AfterEachRound
<1>2. delay[0] = base /\ \A m \in Nat : delay[m + 1] = twice[delay[m]]
  BY <1>1 DEF EachRound
<1>3. \A m \in Int : Doubled(m, opts) = delay[IF m < 0 THEN 0 ELSE m]
  BY DEF Doubled
<1> HIDE DEF delay
<1>4. \A m \in Nat : delay[m] \in Nat /\ delay[m + 1] = 2 * delay[m]
  BY <1>1, <1>2
<1>5. Nat \subseteq S
  <2>1. 0 \in S /\ \A m \in Nat : m \in S => m + 1 \in S
    BY <1>2, <1>4
  <2> HIDE DEF S
  <2>2. QED
    BY <2>1, Induction
<1>6. n >= 0 => n \in Nat /\ n + 1 \in Nat /\ Doubled(n, opts) = delay[n] /\ Doubled(n + 1, opts) = delay[n + 1]
  BY <1>3
<1>7. n < 0 => Doubled(n, opts) = delay[0]
  BY <1>3
<1>8. QED
  BY <1>4, <1>5, <1>6, <1>7

\* A larger factor makes a larger product.
LEMMA Products ==
  ASSUME NEW a \in Int, NEW b \in Int, NEW c \in Nat, a <= b
  PROVE  c * a \in Int /\ c * b \in Int /\ c * a <= c * b
OBVIOUS

\* What is drawn takes no more from a delay, and adds no more to it, than the jitter.
LEMMA Jittered ==
  ASSUME NEW opts, NEW n, NEW draw \in 0 .. Spread,
         ExpMinutes(n, opts) \in Nat \ {0}, JitterPct(opts) \in Nat \ {0}
  PROVE  LET minutes == BackoffMinutes(n, opts, draw)
             middle == ExpMinutes(n, opts)
         IN /\ minutes \in Nat \ {0}
            /\ minutes > 1 => 100 * minutes <= middle * (100 + JitterPct(opts))
            /\ 100 * (minutes + 1) > middle * (100 - JitterPct(opts))
<1> DEFINE middle == ExpMinutes(n, opts)
           jitter == JitterPct(opts)
           factor == 400 + (2 * draw - 4) * jitter
           product == middle * factor
           drawn == product \div 400
<1>1. middle \in Nat /\ jitter \in Nat /\ Spread = 4 /\ draw \in 0 .. 4
  BY DEF Spread
<1>2. BackoffMinutes(n, opts, draw) = IF drawn < 1 THEN 1 ELSE drawn
  BY <1>1 DEF BackoffMinutes
<1> HIDE DEF middle, jitter
<1>3. factor \in Int /\ factor <= 400 + 4 * jitter /\ factor >= 400 - 4 * jitter
  <2>1. draw = 0 \/ draw = 1 \/ draw = 2 \/ draw = 3 \/ draw = 4
    BY <1>1
  <2>2. QED
    BY <1>1, <2>1
<1> HIDE DEF factor
<1>4. /\ product \in Int /\ product <= middle * (400 + 4 * jitter)
      /\ product >= middle * (400 - 4 * jitter)
  <2>1. 400 + 4 * jitter \in Int /\ 400 - 4 * jitter \in Int
    BY <1>1
  <2>2. QED
    BY <1>1, <1>3, <2>1, Products
<1>5. /\ middle * (400 + 4 * jitter) = 4 * (middle * (100 + jitter))
      /\ middle * (400 - 4 * jitter) = 4 * (middle * (100 - jitter))
      /\ middle * (100 + jitter) \in Int /\ middle * (100 - jitter) \in Int
  BY <1>1
<1> HIDE DEF product
<1>6. drawn \in Int /\ 400 * drawn <= product /\ product < 400 * (drawn + 1)
  BY <1>4
<1> HIDE DEF drawn
<1>7. 100 * drawn <= middle * (100 + jitter) /\ 100 * (drawn + 1) > middle * (100 - jitter)
  BY <1>4, <1>5, <1>6
<1>8. QED
  BY <1>2, <1>5, <1>6, <1>7 DEF middle, jitter

\* BackoffSpreads: whatever the options, a retry comes neither at once nor later than the
\* longest delay and its jitter, and, with the usual jitter and below the longest delay,
\* after every delay the attempt before it may have had (delay.go).
THEOREM RetriesSpread == CasesSpec => []BackoffSpreads
<1>1. Cases => BackoffSpreads
  <2> SUFFICES ASSUME Cases, case.kind = "backoff" PROVE BackoffSpreads
    BY DEF BackoffSpreads
  <2> DEFINE opts == case.of
             n == case.of.attempt
             longest == MaxMinutes(opts)
             jitter == JitterPct(opts)
  <2>1. opts \in BackoffCases
    <3>1. case \in Evaluated
      BY DEF Cases, Calls
    <3>2. QED
      BY <3>1, CaseOfKind
  <2>2. BaseMinutes(opts) \in Nat \ {0} /\ longest \in Nat \ {0} /\ jitter \in Nat \ {0} /\ n \in Int
    BY <2>1, BackoffOptions
  <2>3. ASSUME NEW m \in Int
        PROVE  /\ ExpMinutes(m, opts) \in Nat \ {0} /\ ExpMinutes(m, opts) <= longest
               /\ ExpMinutes(m, opts) < longest => ExpMinutes(m, opts) = Doubled(m, opts)
    <3>1. Doubled(m, opts) \in Nat /\ Doubled(m, opts) >= BaseMinutes(opts)
      BY <2>2, Doubling
    <3>2. QED
      BY <2>2, <3>1 DEF ExpMinutes
  <2> HIDE DEF opts, n, longest, jitter
  <2>4. ASSUME NEW draw \in 0 .. Spread
        PROVE  BackoffMinutes(n, opts, draw) >= 1 /\ 100 * BackoffMinutes(n, opts, draw) <= (100 + jitter) * longest
    <3> DEFINE d == BackoffMinutes(n, opts, draw)
               middle == ExpMinutes(n, opts)
    <3>1. middle \in Nat \ {0} /\ middle <= longest
      BY <2>2, <2>3
    <3>2. d \in Nat \ {0} /\ (d > 1 => 100 * d <= middle * (100 + jitter))
      BY <2>2, <3>1, Jittered DEF jitter
    <3> HIDE DEF d, middle
    <3>3. 100 + jitter \in Nat /\ (100 + jitter) * middle <= (100 + jitter) * longest
      BY <2>2, <3>1, Products
    <3>4. (100 + jitter) * 1 <= (100 + jitter) * longest
      BY <2>2, <3>3, Products
    <3>5. middle * (100 + jitter) = (100 + jitter) * middle /\ (100 + jitter) * middle \in Int
          /\ (100 + jitter) * longest \in Int
      BY <2>2, <3>1
    <3>6. QED
      BY <2>2, <3>2, <3>3, <3>4, <3>5 DEF d
  <2>5. ASSUME n >= 0, jitter <= 20, ExpMinutes(n + 1, opts) < longest, BaseMinutes(opts) >= 5,
               NEW draw \in 0 .. Spread, NEW other \in 0 .. Spread
        PROVE  BackoffMinutes(n, opts, draw) < BackoffMinutes(n + 1, opts, other)
    <3> DEFINE d == BackoffMinutes(n, opts, draw)
               e == BackoffMinutes(n + 1, opts, other)
               first == ExpMinutes(n, opts)
               second == ExpMinutes(n + 1, opts)
    <3>1. n + 1 \in Int /\ second \in Nat \ {0} /\ second = Doubled(n + 1, opts)
      BY <2>2, <2>3, <2>5
    <3>2. Doubled(n, opts) \in Nat /\ Doubled(n, opts) >= 5 /\ Doubled(n + 1, opts) = 2 * Doubled(n, opts)
      BY <2>2, <2>5, Doubling
    <3>3. first = Doubled(n, opts)
      BY <2>2, <2>3, <2>5, <3>1, <3>2 DEF ExpMinutes, longest
    <3>4. first \in Nat /\ first >= 5 /\ second = 2 * first
      BY <3>1, <3>2, <3>3
    <3>5. d \in Nat \ {0} /\ (d > 1 => 100 * d <= first * (100 + jitter))
      BY <2>2, <3>4, Jittered DEF jitter
    <3>6. e \in Nat \ {0} /\ 100 * (e + 1) > second * (100 - jitter)
      BY <2>2, <3>1, Jittered DEF jitter
    <3> HIDE DEF d, e, first, second
    <3>7. first * (100 + jitter) <= first * 120 /\ first * (100 + jitter) \in Int
      BY <2>2, <2>5, <3>4, Products
    <3>8. second * (100 - jitter) >= second * 80 /\ second * (100 - jitter) \in Int
      BY <2>2, <2>5, <3>1, <3>4, Products
    <3>9. QED
      BY <3>4, <3>5, <3>6, <3>7, <3>8 DEF d, e
  <2>6. QED
    BY <2>2, <2>4, <2>5 DEF BackoffSpreads, opts, n, longest, jitter
<1>2. QED
  BY <1>1, CasesInvariant, PTL

-----------------------------------------------------------------------------
(* Templates                                                               *)

\* A least and a greatest place.
LEMMA LowestOf ==
  ASSUME NEW S \in SUBSET Nat, S # {}
  PROVE  Lowest(S) \in S /\ \A n \in S : Lowest(S) <= n
BY LeastNumber DEF Lowest

LEMMA HighestOf ==
  ASSUME NEW n \in Nat, NEW S \in SUBSET (0 .. n), S # {}
  PROVE  Highest(S) \in S /\ \A m \in S : Highest(S) >= m
<1> DEFINE mirrored == {n - m : m \in S}
<1>1. mirrored \in SUBSET Nat /\ mirrored # {}
  <2>1. \A m \in S : n - m \in Nat
    OBVIOUS
  <2>2. QED
    BY <2>1
<1>2. PICK least \in mirrored : \A m \in mirrored : least <= m
  BY <1>1, LeastNumber
<1>3. PICK high \in S : least = n - high
  BY <1>2
<1>4. \A m \in S : high >= m
  <2>1. ASSUME NEW m \in S PROVE high >= m
    <3>1. n - m \in mirrored /\ m \in 0 .. n /\ high \in 0 .. n
      OBVIOUS
    <3>2. n - high <= n - m
      BY <1>2, <1>3, <3>1
    <3>3. QED
      BY <3>1, <3>2
  <2>2. QED
    BY <2>1
<1>5. \E x \in S : \A m \in S : x >= m
  BY <1>4
<1>6. QED
  BY <1>5 DEF Highest

\* The block of a round is an if and an endif with neither between them.
LEMMA InnermostBlock ==
  ASSUME NEW T, NEW tokens \in Seq(T), Closers(tokens) # {}
  PROVE  LET b == InnermostIf(tokens)
             e == InnermostEnd(tokens)
         IN /\ b \in Places(tokens, "if") /\ e \in Places(tokens, "endif") /\ b < e
            /\ \A k \in b + 1 .. e - 1 : k \notin Places(tokens, "if") \cup Places(tokens, "endif")
<1> DEFINE b == InnermostIf(tokens)
           e == InnermostEnd(tokens)
           ifs == Places(tokens, "if")
           ends == Places(tokens, "endif")
           before == {i \in ifs : i < e}
<1>1. ifs \subseteq 1 .. Len(tokens) /\ ends \subseteq 1 .. Len(tokens) /\ Len(tokens) \in Nat
  BY DEF Places
<1>2. Closers(tokens) = {k \in ends : \E i \in ifs : i < k}
  BY DEF Closers
<1>3. e \in Closers(tokens) /\ \A k \in Closers(tokens) : e <= k
  <2>1. Closers(tokens) \in SUBSET Nat
    BY <1>1, <1>2
  <2>2. QED
    BY <2>1, LowestOf DEF InnermostEnd
<1>4. b = Highest(before)
  BY DEF InnermostIf
<1> HIDE DEF b, e, ifs, ends
<1>5. before # {} /\ before \in SUBSET (0 .. Len(tokens)) /\ e \in ends
  <2>1. e \in ends /\ \E i \in ifs : i < e
    BY <1>2, <1>3
  <2>2. ifs \subseteq 0 .. Len(tokens)
    BY <1>1
  <2>3. QED
    BY <2>1, <2>2
<1>6. b \in before /\ \A i \in before : b >= i
  BY <1>1, <1>4, <1>5, HighestOf
<1>7. b \in ifs /\ b < e /\ b \in Nat /\ e \in Nat
  BY <1>1, <1>5, <1>6
<1>8. ASSUME NEW k \in b + 1 .. e - 1 PROVE k \notin ifs /\ k \notin ends
  <2>1. k \in Int /\ k > b /\ k < e
    BY <1>7
  <2>2. k \notin ifs
    BY <1>6, <1>7, <2>1
  <2>3. k \notin ends
    BY <1>2, <1>3, <1>7, <2>1
  <2>4. QED
    BY <2>2, <2>3
<1>9. QED
  BY <1>5, <1>7, <1>8 DEF b, e, ifs, ends

\* A part of what lies between two places.
Within(tokens, b, e, part) ==
  \E from \in b + 1 .. e + 1, to \in b .. e - 1 : part = SubSeq(tokens, from, to)

\* The branch that stays is a part of the block.
LEMMA BranchWithin ==
  ASSUME NEW T, NEW tokens \in Seq(T), NEW b \in Nat, NEW e \in Nat, b < e, NEW lead, NEW cond
  PROVE  Within(tokens, b, e, Branch(tokens, b, e, EvaluateCondition(lead, cond)))
<1> DEFINE holds == EvaluateCondition(lead, cond)
           elses == ElsesWithin(tokens, b, e)
           split == IF elses = {} THEN e ELSE Lowest(elses)
<1>1. elses \in SUBSET Nat /\ \A k \in elses : b < k /\ k < e
  BY DEF ElsesWithin, Places
<1>2. split \in b + 1 .. e
  <2>1. elses # {} => Lowest(elses) \in elses
    BY <1>1, LowestOf
  <2>2. QED
    BY <1>1, <2>1
<1>3. Branch(tokens, b, e, holds) = IF holds THEN SubSeq(tokens, b + 1, split - 1) ELSE SubSeq(tokens, split + 1, e - 1)
  BY DEF Branch
<1> HIDE DEF split
<1>4. b + 1 \in b + 1 .. e + 1 /\ split - 1 \in b .. e - 1 /\ split + 1 \in b + 1 .. e + 1 /\ e - 1 \in b .. e - 1
  BY <1>2
<1>5. QED
  BY <1>3, <1>4 DEF Within

\* What a part of a sequence takes the place of goes; the rest stays, in its order.
LEMMA PartKept ==
  ASSUME NEW T, NEW tokens \in Seq(T), NEW b \in 1 .. Len(tokens), NEW e \in b .. Len(tokens),
         NEW from \in b + 1 .. e + 1, NEW to \in b .. e - 1
  PROVE  LET out == Replaced(tokens, b, e, SubSeq(tokens, from, to))
         IN /\ out \in Seq(T)
            /\ \E src \in [1 .. Len(out) -> (1 .. Len(tokens)) \ {b}] :
                 /\ \A i \in 1 .. Len(out) : out[i] = tokens[src[i]]
                 /\ \A i, j \in 1 .. Len(out) : i < j => src[i] < src[j]
<1> DEFINE n == Len(tokens)
           head == SubSeq(tokens, 1, b - 1)
           part == SubSeq(tokens, from, to)
           tail == SubSeq(tokens, e + 1, n)
           m == IF from <= to THEN to - from + 1 ELSE 0
           out == head \o part \o tail
<1>0. n \in Nat /\ b \in 1 .. n /\ e \in b .. n /\ from \in b + 1 .. e + 1 /\ to \in b .. e - 1
      /\ \A i \in 1 .. n : tokens[i] \in T
  OBVIOUS
<1> HIDE DEF n
<1>1. head \in Seq(T) /\ Len(head) = b - 1 /\ \A i \in 1 .. b - 1 : head[i] = tokens[i]
  <2>1. b - 1 \in Int /\ \A i \in 1 .. b - 1 : tokens[i] \in T
    BY <1>0
  <2>2. /\ SubSeq(tokens, 1, b - 1) \in Seq(T)
        /\ Len(SubSeq(tokens, 1, b - 1)) = IF 1 <= b - 1 THEN b - 1 - 1 + 1 ELSE 0
        /\ \A i \in 1 .. b - 1 - 1 + 1 : SubSeq(tokens, 1, b - 1)[i] = tokens[1 + i - 1]
    BY <2>1, SubSeqProperties
  <2>3. QED
    BY <1>0, <2>2
<1>2. part \in Seq(T) /\ Len(part) = m /\ \A i \in 1 .. m : part[i] = tokens[from + i - 1]
  <2>1. \A i \in from .. to : tokens[i] \in T
    BY <1>0
  <2>2. /\ SubSeq(tokens, from, to) \in Seq(T)
        /\ Len(SubSeq(tokens, from, to)) = IF from <= to THEN to - from + 1 ELSE 0
        /\ \A i \in 1 .. to - from + 1 : SubSeq(tokens, from, to)[i] = tokens[from + i - 1]
    BY <1>0, <2>1, SubSeqProperties
  <2>3. QED
    BY <1>0, <2>2
<1>3. tail \in Seq(T) /\ Len(tail) = n - e /\ \A i \in 1 .. n - e : tail[i] = tokens[e + i]
  <2>1. PICK first \in Int : first = e + 1
    BY <1>0
  <2>2. n \in Int /\ \A i \in first .. n : tokens[i] \in T
    BY <1>0, <2>1
  <2>3. /\ SubSeq(tokens, first, n) \in Seq(T)
        /\ Len(SubSeq(tokens, first, n)) = IF first <= n THEN n - first + 1 ELSE 0
        /\ \A i \in 1 .. n - first + 1 : SubSeq(tokens, first, n)[i] = tokens[first + i - 1]
    BY <2>2, SubSeqProperties
  <2>4. QED
    BY <1>0, <2>1, <2>3
<1>4. m \in Nat /\ (m > 0 => from + m - 1 <= e - 1)
  BY <1>0
<1> HIDE DEF head, part, tail, m
<1>5. /\ out \in Seq(T) /\ Len(out) = (b - 1) + m + (n - e)
      /\ \A i \in 1 .. Len(out) : out[i] = IF i <= b - 1 THEN head[i]
                                           ELSE IF i <= b - 1 + m THEN part[i - (b - 1)]
                                           ELSE tail[i - (b - 1 + m)]
  <2> DEFINE both == head \o part
  <2>0. /\ both \in Seq(T) /\ Len(both) = Len(head) + Len(part)
        /\ \A i \in 1 .. Len(head) + Len(part) : both[i] = IF i <= Len(head) THEN head[i] ELSE part[i - Len(head)]
    BY <1>1, <1>2, ConcatProperties
  <2>1. /\ both \in Seq(T) /\ Len(both) = (b - 1) + m
        /\ \A i \in 1 .. (b - 1) + m : both[i] = IF i <= b - 1 THEN head[i] ELSE part[i - (b - 1)]
    BY <1>1, <1>2, <2>0
  <2>2. out = both \o tail
    OBVIOUS
  <2> HIDE DEF both, out
  <2>3. /\ out \in Seq(T) /\ Len(out) = Len(both) + Len(tail)
        /\ \A i \in 1 .. Len(both) + Len(tail) : out[i] = IF i <= Len(both) THEN both[i] ELSE tail[i - Len(both)]
    BY <1>3, <2>1, <2>2, ConcatProperties
  <2>4. QED
    BY <1>0, <1>3, <1>4, <2>1, <2>3
<1>6. Replaced(tokens, b, e, SubSeq(tokens, from, to)) = out
  BY DEF Replaced, n, head, part, tail
<1> HIDE DEF out
<1> DEFINE from1(i) == IF i <= b - 1 THEN i ELSE IF i <= b - 1 + m THEN from + (i - b) ELSE e + (i - (b - 1 + m))
           src == [i \in 1 .. Len(out) |-> from1(i)]
<1>7. src \in [1 .. Len(out) -> (1 .. n) \ {b}]
  <2>1. ASSUME NEW i \in 1 .. Len(out) PROVE from1(i) \in (1 .. n) \ {b}
    <3>1. CASE i <= b - 1
      BY <1>0, <3>1
    <3>2. CASE i > b - 1 /\ i <= b - 1 + m
      <4>1. from1(i) = from + (i - b) /\ m > 0 /\ i - b <= m - 1 /\ i - b >= 0
        BY <1>0, <1>4, <1>5, <3>2
      <4>2. from + (i - b) >= b + 1 /\ from + (i - b) <= e - 1
        BY <1>0, <1>4, <1>5, <4>1
      <4>3. QED
        BY <1>0, <1>5, <4>1, <4>2
    <3>3. CASE i > b - 1 + m
      BY <1>0, <1>4, <1>5, <3>3
    <3>4. QED
      BY <1>0, <1>4, <3>1, <3>2, <3>3
  <2>2. QED
    BY <2>1
<1>8. \A i \in 1 .. Len(out) : out[i] = tokens[src[i]]
  <2>1. ASSUME NEW i \in 1 .. Len(out) PROVE out[i] = tokens[from1(i)]
    <3>1. CASE i <= b - 1
      BY <1>0, <1>1, <1>5, <3>1
    <3>2. CASE i > b - 1 /\ i <= b - 1 + m
      <4>1. i - (b - 1) \in 1 .. m /\ from + (i - (b - 1)) - 1 = from + (i - b)
        BY <1>0, <1>4, <3>2
      <4>2. out[i] = part[i - (b - 1)]
        BY <1>0, <1>5, <3>2
      <4>3. QED
        BY <1>0, <1>2, <3>2, <4>1, <4>2
    <3>3. CASE i > b - 1 + m
      <4>1. i - (b - 1 + m) \in 1 .. n - e /\ ~(i <= b - 1)
        BY <1>0, <1>4, <1>5, <3>3
      <4>2. out[i] = tail[i - (b - 1 + m)]
        BY <1>0, <1>4, <1>5, <3>3, <4>1
      <4>3. QED
        BY <1>0, <1>3, <1>4, <3>3, <4>1, <4>2
    <3>4. QED
      BY <1>0, <1>4, <3>1, <3>2, <3>3
  <2>2. QED
    BY <2>1
<1>9. \A i, j \in 1 .. Len(out) : i < j => src[i] < src[j]
  <2>1. \A i, j \in 1 .. Len(out) : i < j => from1(i) < from1(j)
    BY <1>0, <1>4, <1>5
  <2>2. QED
    BY <2>1
<1>10. QED
  BY <1>5, <1>6, <1>7, <1>8, <1>9 DEF n

\* A round of renderConditionals takes a block away, or finds none that is closed.
LEMMA BlockRemoved ==
  ASSUME NEW T, NEW tokens \in Seq(T), NEW lead
  PROVE  LET out == ExpandInnermost(lead, tokens)
         IN /\ out \in Seq(T)
            /\ Closers(tokens) = {} => out = tokens
            /\ Closers(tokens) # {} => Cardinality(Places(out, "if")) < Cardinality(Places(tokens, "if"))
<1>1. CASE Closers(tokens) = {}
  BY <1>1 DEF ExpandInnermost
<1>2. CASE Closers(tokens) # {}
  <2> DEFINE b == InnermostIf(tokens)
             e == InnermostEnd(tokens)
             cond == tokens[b][2]
             branch == Branch(tokens, b, e, EvaluateCondition(lead, cond))
             out == Replaced(tokens, b, e, branch)
             ifs == Places(tokens, "if")
  <2>1. b \in ifs /\ b \in 1 .. Len(tokens) /\ e \in b .. Len(tokens) /\ b < e
    BY <1>2, InnermostBlock DEF Places
  <2>2. ExpandInnermost(lead, tokens) = out
    BY <1>2 DEF ExpandInnermost
  <2> HIDE DEF b, e, cond
  <2>3. PICK from \in b + 1 .. e + 1, to \in b .. e - 1 : branch = SubSeq(tokens, from, to)
    <3>1. b \in Nat /\ e \in Nat /\ b < e
      BY <2>1
    <3>2. Within(tokens, b, e, branch)
      BY <3>1, BranchWithin
    <3>3. QED
      BY <3>2 DEF Within
  <2> HIDE DEF branch
  <2>4. /\ out \in Seq(T)
        /\ \E src \in [1 .. Len(out) -> (1 .. Len(tokens)) \ {b}] :
             /\ \A i \in 1 .. Len(out) : out[i] = tokens[src[i]]
             /\ \A i, j \in 1 .. Len(out) : i < j => src[i] < src[j]
    BY <2>1, <2>3, PartKept
  <2>5. PICK src \in [1 .. Len(out) -> (1 .. Len(tokens)) \ {b}] :
               /\ \A i \in 1 .. Len(out) : out[i] = tokens[src[i]]
               /\ \A i, j \in 1 .. Len(out) : i < j => src[i] < src[j]
    BY <2>4
  <2> HIDE DEF out
  <2> DEFINE f == [i \in Places(out, "if") |-> src[i]]
  <2>6. f \in Injection(Places(out, "if"), ifs \ {b})
    <3>1. Places(out, "if") \subseteq 1 .. Len(out)
      BY <2>4 DEF Places
    <3>2. \A i \in Places(out, "if") : src[i] \in ifs \ {b}
      BY <2>5, <3>1 DEF Places
    <3>3. \A i, j \in Places(out, "if") : src[i] = src[j] => i = j
      BY <2>5, <3>1
    <3>4. f \in [Places(out, "if") -> ifs \ {b}]
      BY <3>2
    <3>5. \A i, j \in Places(out, "if") : f[i] = f[j] => i = j
      BY <3>3
    <3>6. QED
      BY <3>4, <3>5 DEF Injection, IsInjective
  <2>7. IsFiniteSet(ifs)
    <3>1. ifs \in SUBSET (1 .. Len(tokens)) /\ IsFiniteSet(1 .. Len(tokens))
      BY FS_Interval DEF Places
    <3>2. QED
      BY <3>1, FS_Subset
  <2>8. IsFiniteSet(ifs \ {b}) /\ Cardinality(ifs \ {b}) = Cardinality(ifs) - 1 /\ Cardinality(ifs) \in Nat
    BY <2>1, <2>7, FS_RemoveElement, FS_CardinalityType
  <2>9. Cardinality(Places(out, "if")) <= Cardinality(ifs \ {b}) /\ IsFiniteSet(Places(out, "if"))
    <3> HIDE DEF f, ifs
    <3>1. QED
      BY <2>6, <2>8, FS_Injection
  <2>10. Cardinality(Places(out, "if")) \in Nat
    BY <2>9, FS_CardinalityType
  <2>11. QED
    BY <1>2, <2>2, <2>4, <2>8, <2>9, <2>10
<1>3. QED
  BY <1>1, <1>2

\* A template of no more than a hundred blocks is rendered to the end: no endif is left that
\* closes anything, whatever blocks are nested in it and whatever the lead is. The rounds
\* are as many as the code has (template.go:444-470).
THEOREM BlocksResolve ==
  ASSUME NEW T, NEW tokens \in Seq(T), NEW lead, Cardinality(Places(tokens, "if")) <= MaxRounds
  PROVE  LET out == RenderConditionals(lead, tokens)
         IN out \in Seq(Range(tokens)) /\ Closers(out) = {}
<1> DEFINE R == Range(tokens)
           step == [out \in Seq(R) |-> ExpandInnermost(lead, out)]
           round == After(step, tokens)
           Blocks(out) == Cardinality(Places(out, "if"))
           S == {n \in Nat : Closers(round[n]) = {} \/ Blocks(round[n]) + n <= Blocks(tokens)}
<1>1. tokens \in Seq(R)
  BY DEF Range
<1>2. round \in [Nat -> Seq(R)] /\ round[0] = tokens /\ \A n \in Nat : round[n + 1] = ExpandInnermost(lead, round[n])
  <2>1. step \in [Seq(R) -> Seq(R)]
    <3> HIDE DEF R
    <3>1. \A out \in Seq(R) : ExpandInnermost(lead, out) \in Seq(R)
      BY BlockRemoved
    <3>2. QED
      BY <3>1
  <2>2. round \in [Nat -> Seq(R)] /\ EachRound(round, step, tokens)
    <3> HIDE DEF step, R
    <3>1. QED
      BY <1>1, <2>1, AfterEachRound
  <2> HIDE DEF round, R
  <2>3. QED
    BY <2>2 DEF EachRound
<1>3. ASSUME NEW out \in Seq(R) PROVE IsFiniteSet(Places(out, "if")) /\ Blocks(out) \in Nat
  <2>1. Places(out, "if") \in SUBSET (1 .. Len(out)) /\ IsFiniteSet(1 .. Len(out))
    BY FS_Interval DEF Places
  <2>2. QED
    BY <2>1, FS_Subset, FS_CardinalityType
<1> HIDE DEF R, round
<1>4. 0 \in S
  BY <1>1, <1>2, <1>3
<1>5. ASSUME NEW n \in Nat, n \in S PROVE n + 1 \in S
  <2>1. round[n] \in Seq(R) /\ round[n + 1] \in Seq(R) /\ round[n + 1] = ExpandInnermost(lead, round[n])
    <3>1. n + 1 \in Nat
      OBVIOUS
    <3>2. round[n + 1] = ExpandInnermost(lead, round[n])
      BY <1>2
    <3>3. QED
      BY <1>2, <3>1, <3>2
  <2>2. CASE Closers(round[n]) = {}
    <3>1. round[n + 1] = round[n]
      BY <2>1, <2>2, BlockRemoved
    <3>2. QED
      BY <2>2, <3>1
  <2>3. CASE Closers(round[n]) # {}
    <3>1. Blocks(round[n + 1]) < Blocks(round[n])
      BY <2>1, <2>3, BlockRemoved
    <3>2. Blocks(round[n]) + n <= Blocks(tokens)
      BY <1>5, <2>3
    <3>3. Blocks(round[n + 1]) \in Nat /\ Blocks(round[n]) \in Nat /\ Blocks(tokens) \in Nat
      BY <1>1, <1>3, <2>1
    <3> HIDE DEF Blocks
    <3>4. QED
      BY <3>1, <3>2, <3>3
  <2>4. QED
    BY <2>2, <2>3
<1>6. MaxRounds \in S
  <2>1. \A n \in Nat : n \in S => n + 1 \in S
    BY <1>5
  <2> HIDE DEF S
  <2>2. QED
    BY <1>4, <2>1, Induction DEF MaxRounds
<1>7. MaxRounds \in Nat /\ RenderConditionals(lead, tokens) = round[MaxRounds]
  BY DEF MaxRounds, RenderConditionals, round, R
<1>8. Closers(round[MaxRounds]) = {}
  <2>1. SUFFICES ASSUME Blocks(round[MaxRounds]) + MaxRounds <= Blocks(tokens) PROVE Closers(round[MaxRounds]) = {}
    BY <1>6
  <2>2. round[MaxRounds] \in Seq(R)
    BY <1>2, <1>7
  <2>3. Blocks(round[MaxRounds]) \in Nat /\ Blocks(tokens) \in Nat /\ IsFiniteSet(Places(round[MaxRounds], "if"))
    BY <1>1, <1>3, <2>2
  <2>4. Blocks(round[MaxRounds]) = 0
    BY <1>7, <2>1, <2>3
  <2>5. Places(round[MaxRounds], "if") = {}
    BY <2>3, <2>4, FS_EmptySet
  <2>6. QED
    BY <2>5 DEF Closers
<1>9. QED
  BY <1>2, <1>7, <1>8 DEF R

\* What n rounds make of tokens.
AfterRounds(lead, T, tokens, n) == After([out \in Seq(T) |-> ExpandInnermost(lead, out)], tokens)[n]

\* One round more.
OneMore(lead, T, tokens, n) ==
  /\ AfterRounds(lead, T, tokens, n) \in Seq(T)
  /\ AfterRounds(lead, T, tokens, n + 1) = ExpandInnermost(lead, AfterRounds(lead, T, tokens, n))

\* Round by round.
LEMMA RoundByRound ==
  ASSUME NEW T, NEW tokens \in Seq(T), NEW lead
  PROVE  AfterRounds(lead, T, tokens, 0) = tokens /\ \A n \in Nat : OneMore(lead, T, tokens, n)
<1> DEFINE step == [out \in Seq(T) |-> ExpandInnermost(lead, out)]
           round == After(step, tokens)
<1>1. step \in [Seq(T) -> Seq(T)]
  BY BlockRemoved
<1>2. round \in [Nat -> Seq(T)] /\ EachRound(round, step, tokens)
  <2> HIDE DEF step
  <2>1. QED
    BY <1>1, AfterEachRound
<1>3. \A n \in Nat : AfterRounds(lead, T, tokens, n) = round[n]
  BY DEF AfterRounds
<1> HIDE DEF round
<1>4. round[0] = tokens /\ \A n \in Nat : round[n] \in Seq(T) /\ round[n + 1] = ExpandInnermost(lead, round[n])
  BY <1>2 DEF EachRound
<1>5. \A n \in Nat : n + 1 \in Nat
  OBVIOUS
<1>6. QED
  BY <1>3, <1>4, <1>5 DEF OneMore

\* First some rounds, then more.
LEMMA RoundsAdd ==
  ASSUME NEW T, NEW tokens \in Seq(T), NEW lead, NEW m \in Nat, NEW n \in Nat
  PROVE  AfterRounds(lead, T, tokens, m + n) = AfterRounds(lead, T, AfterRounds(lead, T, tokens, m), n)
<1> DEFINE between == AfterRounds(lead, T, tokens, m)
           S == {k \in Nat : AfterRounds(lead, T, tokens, m + k) = AfterRounds(lead, T, between, k)}
<1>1. between \in Seq(T)
  <2>1. OneMore(lead, T, tokens, m)
    BY RoundByRound
  <2>2. QED
    BY <2>1 DEF OneMore
<1> HIDE DEF between
<1>2. 0 \in S
  <2>1. m + 0 = m
    OBVIOUS
  <2>2. AfterRounds(lead, T, between, 0) = between
    BY <1>1, RoundByRound
  <2>3. QED
    BY <2>1, <2>2 DEF between
<1>3. ASSUME NEW k \in Nat, k \in S PROVE k + 1 \in S
  <2>1. AfterRounds(lead, T, between, k + 1) = ExpandInnermost(lead, AfterRounds(lead, T, between, k))
    <3>1. OneMore(lead, T, between, k)
      BY <1>1, RoundByRound
    <3>2. QED
      BY <3>1 DEF OneMore
  <2>2. AfterRounds(lead, T, tokens, (m + k) + 1) = ExpandInnermost(lead, AfterRounds(lead, T, tokens, m + k))
    <3>1. m + k \in Nat
      OBVIOUS
    <3>2. OneMore(lead, T, tokens, m + k)
      BY <3>1, RoundByRound
    <3>3. QED
      BY <3>2 DEF OneMore
  <2>3. m + (k + 1) = (m + k) + 1
    OBVIOUS
  <2>4. QED
    BY <1>3, <2>1, <2>2, <2>3
<1>4. n \in S
  <2>1. \A k \in Nat : k \in S => k + 1 \in S
    BY <1>3
  <2> HIDE DEF S
  <2>2. QED
    BY <1>2, <2>1, Induction
<1>5. QED
  BY <1>4 DEF between

\* Where no block is closed nothing changes any more.
LEMMA NothingLeft ==
  ASSUME NEW T, NEW tokens \in Seq(T), NEW lead, Closers(tokens) = {}, NEW n \in Nat
  PROVE  AfterRounds(lead, T, tokens, n) = tokens
<1> DEFINE S == {k \in Nat : AfterRounds(lead, T, tokens, k) = tokens}
<1>1. 0 \in S
  BY RoundByRound
<1>2. ASSUME NEW k \in Nat, k \in S PROVE k + 1 \in S
  <2>1. AfterRounds(lead, T, tokens, k + 1) = ExpandInnermost(lead, AfterRounds(lead, T, tokens, k))
    <3>1. OneMore(lead, T, tokens, k)
      BY RoundByRound
    <3>2. QED
      BY <3>1 DEF OneMore
  <2>2. QED
    BY <1>2, <2>1 DEF ExpandInnermost
<1>3. n \in S
  <2>1. \A k \in Nat : k \in S => k + 1 \in S
    BY <1>2
  <2> HIDE DEF S
  <2>2. QED
    BY <1>1, <2>1, Induction
<1>4. QED
  BY <1>3

\* The rounds of renderConditionals are those of any set the tokens are from.
LEMMA RenderedByRounds ==
  ASSUME NEW T, NEW tokens \in Seq(T), NEW lead
  PROVE  RenderConditionals(lead, tokens) = AfterRounds(lead, T, tokens, MaxRounds)
<1> DEFINE R == Range(tokens)
           S == {n \in Nat : AfterRounds(lead, R, tokens, n) = AfterRounds(lead, T, tokens, n)}
<1>1. tokens \in Seq(R)
  BY DEF Range
<1>2. RenderConditionals(lead, tokens) = AfterRounds(lead, R, tokens, MaxRounds)
  BY DEF RenderConditionals, AfterRounds
<1> HIDE DEF R
<1>3. 0 \in S
  BY <1>1, RoundByRound
<1>4. ASSUME NEW n \in Nat, n \in S PROVE n + 1 \in S
  <2>1. AfterRounds(lead, R, tokens, n + 1) = ExpandInnermost(lead, AfterRounds(lead, R, tokens, n))
    <3>1. OneMore(lead, R, tokens, n)
      BY <1>1, RoundByRound
    <3>2. QED
      BY <3>1 DEF OneMore
  <2>2. AfterRounds(lead, T, tokens, n + 1) = ExpandInnermost(lead, AfterRounds(lead, T, tokens, n))
    <3>1. OneMore(lead, T, tokens, n)
      BY RoundByRound
    <3>2. QED
      BY <3>1 DEF OneMore
  <2>3. QED
    BY <1>4, <2>1, <2>2
<1>5. MaxRounds \in S
  <2>1. \A n \in Nat : n \in S => n + 1 \in S
    BY <1>4
  <2> HIDE DEF S
  <2>2. QED
    BY <1>3, <2>1, Induction DEF MaxRounds
<1>6. QED
  BY <1>2, <1>5

\* Three sequences, one after the other, and what is where.
ArePartsOf(u, v, w, x) ==
  /\ Len(x) = Len(u) + Len(v) + Len(w)
  /\ \A i \in 1 .. Len(u) : x[i] = u[i]
  /\ \A i \in 1 .. Len(v) : x[Len(u) + i] = v[i]
  /\ \A i \in 1 .. Len(w) : x[Len(u) + Len(v) + i] = w[i]

LEMMA ThreeParts ==
  ASSUME NEW T, NEW u \in Seq(T), NEW v \in Seq(T), NEW w \in Seq(T)
  PROVE  u \o v \o w \in Seq(T) /\ ArePartsOf(u, v, w, u \o v \o w)
<1> DEFINE both == u \o v
           x == u \o v \o w
           a == Len(u)
           b == Len(v)
           c == Len(w)
<1>1. a \in Nat /\ b \in Nat /\ c \in Nat
  OBVIOUS
<1>2. both \in Seq(T) /\ Len(both) = a + b /\ \A i \in 1 .. a + b : both[i] = IF i <= a THEN u[i] ELSE v[i - a]
  BY ConcatProperties
<1>3. x = both \o w
  OBVIOUS
<1> HIDE DEF both, x
<1> HIDE DEF a, b
<1>4. /\ x \in Seq(T) /\ Len(x) = Len(both) + c
      /\ \A i \in 1 .. Len(both) + c : x[i] = IF i <= Len(both) THEN both[i] ELSE w[i - Len(both)]
  <2>1. /\ both \o w \in Seq(T) /\ Len(both \o w) = Len(both) + Len(w)
        /\ \A i \in 1 .. Len(both) + Len(w) : (both \o w)[i] = IF i <= Len(both) THEN both[i] ELSE w[i - Len(both)]
    BY <1>2, ConcatProperties
  <2>2. QED
    BY <1>3, <2>1
<1> HIDE DEF c
<1>5. \A i \in 1 .. a : x[i] = u[i]
  BY <1>1, <1>2, <1>4
<1>6. \A i \in 1 .. b : x[a + i] = v[i]
  <2>1. ASSUME NEW i \in 1 .. b PROVE x[a + i] = v[i]
    <3>1. a + i \in 1 .. a + b /\ ~(a + i <= a) /\ (a + i) - a = i
      BY <1>1
    <3>2. both[a + i] = v[i]
      BY <1>2, <3>1
    <3>3. QED
      BY <1>1, <1>2, <1>4, <3>1, <3>2
  <2>2. QED
    BY <2>1
<1>7. \A i \in 1 .. c : x[a + b + i] = w[i]
  <2>1. ASSUME NEW i \in 1 .. c PROVE x[a + b + i] = w[i]
    <3>1. a + b + i \in 1 .. (a + b) + c /\ ~(a + b + i <= a + b) /\ (a + b + i) - (a + b) = i
      BY <1>1
    <3>2. QED
      BY <1>2, <1>4, <3>1
  <2>2. QED
    BY <2>1
<1>8. QED
  BY <1>2, <1>4, <1>5, <1>6, <1>7 DEF a, b, c, x, ArePartsOf

\* A part of a sequence, by what it holds.
LEMMA PartIs ==
  ASSUME NEW T, NEW s \in Seq(T), NEW v \in Seq(T), NEW first \in Nat \ {0}, NEW until \in Nat,
         until = first + Len(v) - 1, until <= Len(s), \A i \in 1 .. Len(v) : s[first + i - 1] = v[i]
  PROVE  SubSeq(s, first, until) = v
<1>1. \A i \in first .. until : s[i] \in T
  OBVIOUS
<1>2. /\ SubSeq(s, first, until) \in Seq(T)
      /\ Len(SubSeq(s, first, until)) = IF first <= until THEN until - first + 1 ELSE 0
      /\ \A i \in 1 .. until - first + 1 : SubSeq(s, first, until)[i] = s[first + i - 1]
  BY <1>1, SubSeqProperties
<1> DEFINE part == SubSeq(s, first, until)
<1> HIDE DEF part
<1>3. Len(part) = Len(v) /\ \A i \in 1 .. Len(v) : part[i] = v[i]
  <2>1. Len(v) \in Nat /\ until - first + 1 = Len(v)
    OBVIOUS
  <2>2. QED
    BY <1>2, <2>1 DEF part
<1>4. part \in Seq(T)
  BY <1>2 DEF part
<1>5. part = v
  BY <1>3, <1>4, SeqEqual
<1>6. QED
  BY <1>5 DEF part

\* What makes a block of a body.
Enclosed(open, body, end) == <<open>> \o body \o <<end>>

\* A block is the innermost one of tokens that begin and end with what is around it.
IsInnermost(x, pre, open, body, post) ==
  LET b == Len(pre) + 1
      e == Len(pre) + 2 + Len(body)
  IN /\ Len(x) = e + Len(post) /\ x[b] = open
     /\ \A i \in 1 .. Len(pre) : x[i] = pre[i]
     /\ \A i \in 1 .. Len(body) : x[b + i] = body[i]
     /\ \A i \in 1 .. Len(post) : x[e + i] = post[i]
     /\ Closers(x) # {} /\ InnermostIf(x) = b /\ InnermostEnd(x) = e

\* Of tokens whose first part closes nothing, the block that follows is innermost if no other
\* is in it.
LEMMA InnermostFound ==
  ASSUME NEW T, NEW pre \in Seq(T), NEW body \in Seq(T), NEW post \in Seq(T), NEW open \in T, NEW end \in T,
         Kind(open) = "if", Kind(end) = "endif", Closers(pre) = {},
         \A i \in 1 .. Len(body) : Kind(body[i]) \notin {"if", "endif"},
         NEW x, x = pre \o Enclosed(open, body, end) \o post
  PROVE  x \in Seq(T) /\ IsInnermost(x, pre, open, body, post)
<1> DEFINE p == Len(pre)
           n == Len(body)
           q == Len(post)
           b == p + 1
           e == p + 2 + n
           mid == Enclosed(open, body, end)
<1>1. p \in Nat /\ n \in Nat /\ q \in Nat
  OBVIOUS
<1>2. /\ mid \in Seq(T) /\ Len(mid) = 1 + n + 1 /\ mid[1] = open /\ mid[1 + n + 1] = end
      /\ \A i \in 1 .. n : mid[1 + i] = body[i]
  <2>1. <<open>> \in Seq(T) /\ <<end>> \in Seq(T) /\ Len(<<open>>) = 1 /\ Len(<<end>>) = 1
        /\ <<open>>[1] = open /\ <<end>>[1] = end
    OBVIOUS
  <2>2. mid = <<open>> \o body \o <<end>>
    BY DEF Enclosed
  <2> DEFINE first == <<open>>
             until == <<end>>
  <2>0. /\ first \in Seq(T) /\ until \in Seq(T) /\ Len(first) = 1 /\ Len(until) = 1
        /\ first[1] = open /\ until[1] = end /\ mid = first \o body \o until
    BY <2>1, <2>2
  <2> HIDE DEF first, until, mid
  <2>3. /\ mid \in Seq(T) /\ Len(mid) = Len(first) + Len(body) + Len(until)
        /\ \A i \in 1 .. Len(first) : mid[i] = first[i]
        /\ \A i \in 1 .. Len(body) : mid[Len(first) + i] = body[i]
        /\ \A i \in 1 .. Len(until) : mid[Len(first) + Len(body) + i] = until[i]
    <3>1. mid \in Seq(T) /\ ArePartsOf(first, body, until, mid)
      BY <2>0, ThreeParts
    <3>2. QED
      BY <3>1 DEF ArePartsOf
  <2>4. QED
    BY <2>0, <2>3, <1>1
<1> HIDE DEF mid
<1>3. /\ x \in Seq(T) /\ Len(x) = p + (n + 2) + q
      /\ \A i \in 1 .. p : x[i] = pre[i]
      /\ \A i \in 1 .. n + 2 : x[p + i] = mid[i]
      /\ \A i \in 1 .. q : x[p + (n + 2) + i] = post[i]
  <2>1. /\ x \in Seq(T) /\ Len(x) = Len(pre) + Len(mid) + Len(post)
        /\ \A i \in 1 .. Len(pre) : x[i] = pre[i]
        /\ \A i \in 1 .. Len(mid) : x[Len(pre) + i] = mid[i]
        /\ \A i \in 1 .. Len(post) : x[Len(pre) + Len(mid) + i] = post[i]
    <3>1. x = pre \o mid \o post
      BY DEF mid
    <3>2. x \in Seq(T) /\ ArePartsOf(pre, mid, post, x)
      BY <1>2, <3>1, ThreeParts
    <3>3. QED
      BY <3>2 DEF ArePartsOf
  <2>2. Len(mid) = n + 2
    BY <1>1, <1>2
  <2>3. QED
    BY <2>1, <2>2
<1>4. \A i \in 1 .. n : Kind(body[i]) \notin {"if", "endif"}
  OBVIOUS
<1>5. \A i, k \in 1 .. p : ~(i < k /\ Kind(pre[i]) = "if" /\ Kind(pre[k]) = "endif")
  <2>1. \A k \in Places(pre, "endif") : \A i \in Places(pre, "if") : ~(i < k)
    BY DEF Closers
  <2>2. DOMAIN pre = 1 .. p
    OBVIOUS
  <2>3. QED
    BY <2>1, <2>2 DEF Places
<1> HIDE DEF p, n, q
<1>6. x[b] = open /\ x[e] = end /\ \A i \in 1 .. n : x[b + i] = body[i]
  <2>1. 1 \in 1 .. n + 2 /\ n + 2 \in 1 .. n + 2 /\ p + (n + 2) = e /\ 1 + n + 1 = n + 2
    BY <1>1
  <2>2. x[p + 1] = mid[1] /\ x[p + (n + 2)] = mid[n + 2]
    BY <1>3, <2>1
  <2>3. ASSUME NEW i \in 1 .. n PROVE x[b + i] = body[i]
    <3>1. 1 + i \in 1 .. n + 2 /\ p + (1 + i) = b + i
      BY <1>1
    <3>2. x[p + (1 + i)] = mid[1 + i]
      BY <1>3, <3>1
    <3>3. QED
      BY <1>2, <3>1, <3>2
  <2>4. QED
    BY <1>2, <2>1, <2>2, <2>3
<1>7. \A i \in 1 .. q : x[e + i] = post[i]
  BY <1>1, <1>3
<1>8. DOMAIN x = 1 .. Len(x) /\ Len(x) = e + q /\ b \in Nat /\ e \in Nat /\ b < e /\ b \in 1 .. Len(x) /\ e \in 1 .. Len(x)
  BY <1>1, <1>3
<1>9. \A i \in DOMAIN x : i < e => i \in 1 .. p \/ i = b \/ i - b \in 1 .. n
  BY <1>1, <1>8
<1>10. e \in Closers(x)
  <2>1. b \in Places(x, "if") /\ e \in Places(x, "endif")
    BY <1>6, <1>8 DEF Places
  <2>2. QED
    BY <1>8, <2>1 DEF Closers
<1>11. ASSUME NEW k \in Closers(x), k < e PROVE FALSE
  <2>1. k \in DOMAIN x /\ Kind(x[k]) = "endif"
    BY DEF Closers, Places
  <2>2. PICK i \in DOMAIN x : Kind(x[i]) = "if" /\ i < k
    BY DEF Closers, Places
  <2>3. CASE k \in 1 .. p
    <3>1. i \in 1 .. p
      BY <1>1, <1>8, <2>1, <2>2, <2>3
    <3>2. x[k] = pre[k] /\ x[i] = pre[i]
      BY <1>3, <2>3, <3>1
    <3>3. QED
      BY <1>5, <2>1, <2>2, <2>3, <3>1, <3>2
  <2>4. CASE k = b
    BY <1>6, <2>1, <2>4
  <2>5. CASE k - b \in 1 .. n
    <3>1. k = b + (k - b)
      BY <1>8, <2>1
    <3>2. x[k] = body[k - b]
      BY <1>6, <2>5, <3>1
    <3>3. QED
      BY <1>4, <2>1, <2>5, <3>2
  <2>6. QED
    BY <1>9, <1>11, <2>1, <2>3, <2>4, <2>5
<1>12. InnermostEnd(x) = e
  <2>1. Closers(x) \in SUBSET Nat /\ Closers(x) # {}
    <3>1. Closers(x) \subseteq DOMAIN x
      BY DEF Closers, Places
    <3>2. DOMAIN x \subseteq Nat
      BY <1>8
    <3>3. QED
      BY <1>10, <3>1, <3>2
  <2>2. Lowest(Closers(x)) \in Closers(x) /\ \A k \in Closers(x) : Lowest(Closers(x)) <= k
    BY <2>1, LowestOf
  <2>3. Lowest(Closers(x)) <= e /\ ~(Lowest(Closers(x)) < e) /\ Lowest(Closers(x)) \in Nat
    BY <1>10, <1>11, <2>1, <2>2
  <2>4. QED
    BY <1>8, <2>3 DEF InnermostEnd
<1>13. InnermostIf(x) = b
  <2> DEFINE before == {i \in Places(x, "if") : i < e}
  <2>1. before \in SUBSET (0 .. Len(x)) /\ Len(x) \in Nat
    BY <1>1, <1>8 DEF Places
  <2>2. b \in before
    BY <1>6, <1>8 DEF Places
  <2>3. ASSUME NEW i \in before PROVE i <= b
    <3>1. i \in DOMAIN x /\ Kind(x[i]) = "if" /\ i < e
      BY DEF Places
    <3>2. CASE i - b \in 1 .. n
      <4>1. i = b + (i - b)
        BY <1>8, <3>1
      <4>2. x[i] = body[i - b]
        BY <1>6, <3>2, <4>1
      <4>3. QED
        BY <1>4, <3>1, <3>2, <4>2
    <3>3. CASE i \in 1 .. p \/ i = b
      BY <1>1, <3>3
    <3>4. QED
      BY <1>9, <3>1, <3>2, <3>3
  <2>4. InnermostIf(x) = Highest(before)
    BY <1>12 DEF InnermostIf
  <2> HIDE DEF before
  <2>5. Highest(before) \in before /\ \A i \in before : Highest(before) >= i
    BY <2>1, <2>2, HighestOf
  <2>6. Highest(before) >= b /\ Highest(before) <= b /\ Highest(before) \in Int
    <3> DEFINE h == Highest(before)
    <3>1. h \in before /\ h >= b
      BY <2>2, <2>5
    <3> HIDE DEF h
    <3>2. h <= b /\ h \in 0 .. Len(x)
      BY <2>1, <2>3, <3>1
    <3>3. QED
      BY <2>1, <3>1, <3>2 DEF h
  <2>7. QED
    BY <1>8, <2>4, <2>6
<1>14. QED
  BY <1>3, <1>6, <1>7, <1>8, <1>10, <1>12, <1>13 DEF p, n, q, IsInnermost

\* What a condition keeps of a block.
Keeps(x, pre, body, lead, cond, kept) ==
  Branch(x, Len(pre) + 1, Len(pre) + 2 + Len(body), EvaluateCondition(lead, cond)) = kept

\* A round puts a branch in the place of that block.
LEMMA BranchReplaces ==
  ASSUME NEW T, NEW x \in Seq(T), NEW pre \in Seq(T), NEW open \in T, NEW body \in Seq(T), NEW post \in Seq(T),
         IsInnermost(x, pre, open, body, post), NEW lead, NEW kept,
         Keeps(x, pre, body, lead, open[2], kept)
  PROVE  ExpandInnermost(lead, x) = pre \o kept \o post
<1> DEFINE b == Len(pre) + 1
           e == Len(pre) + 2 + Len(body)
<1>1. /\ Len(x) = e + Len(post) /\ x[b] = open /\ b - 1 = Len(pre) /\ b \in Nat /\ e \in Nat
      /\ \A i \in 1 .. Len(pre) : x[i] = pre[i]
      /\ \A i \in 1 .. Len(post) : x[e + i] = post[i]
      /\ Closers(x) # {} /\ InnermostIf(x) = b /\ InnermostEnd(x) = e
  BY DEF IsInnermost
<1>2. Branch(x, b, e, EvaluateCondition(lead, open[2])) = kept
  BY DEF Keeps
<1>3. SubSeq(x, 1, b - 1) = pre
  <2> DEFINE until == b - 1
  <2>1. 1 \in Nat \ {0} /\ until \in Nat /\ until = 1 + Len(pre) - 1 /\ until <= Len(x)
        /\ \A i \in 1 .. Len(pre) : x[1 + i - 1] = pre[i]
    BY <1>1
  <2> HIDE DEF until
  <2>2. SubSeq(x, 1, until) = pre
    BY <2>1, PartIs
  <2>3. QED
    BY <2>2 DEF until
<1>4. SubSeq(x, e + 1, Len(x)) = post
  <2> DEFINE first == e + 1
             until == Len(x)
  <2>1. first \in Nat \ {0} /\ until \in Nat /\ until = first + Len(post) - 1 /\ until <= Len(x)
        /\ \A i \in 1 .. Len(post) : x[first + i - 1] = post[i]
    BY <1>1
  <2> HIDE DEF first, until
  <2>2. SubSeq(x, first, until) = post
    BY <2>1, PartIs
  <2>3. QED
    BY <2>2 DEF first, until
<1> HIDE DEF b, e
<1>5. ExpandInnermost(lead, x) = Replaced(x, b, e, kept)
  BY <1>1, <1>2 DEF ExpandInnermost
<1>6. QED
  BY <1>3, <1>4, <1>5 DEF Replaced

\* The branch of a block without an else.
LEMMA BranchAlone ==
  ASSUME NEW T, NEW x \in Seq(T), NEW pre \in Seq(T), NEW open \in T, NEW body \in Seq(T), NEW post \in Seq(T),
         IsInnermost(x, pre, open, body, post), NEW lead, NEW cond,
         \A i \in 1 .. Len(body) : Kind(body[i]) # "else"
  PROVE  Keeps(x, pre, body, lead, cond, IF EvaluateCondition(lead, cond) THEN body ELSE << >>)
<1> DEFINE b == Len(pre) + 1
           e == Len(pre) + 2 + Len(body)
           n == Len(body)
<1>1. /\ Len(x) >= e /\ Len(x) \in Nat /\ b \in Nat /\ e \in Nat /\ n \in Nat /\ e = b + n + 1 /\ b >= 1
      /\ \A i \in 1 .. n : x[b + i] = body[i] /\ Kind(body[i]) # "else"
  BY DEF IsInnermost
<1> HIDE DEF b, e
<1>2. ElsesWithin(x, b, e) = {}
  <2>1. ASSUME NEW k \in Places(x, "else"), b < k, k < e PROVE FALSE
    <3>1. k \in DOMAIN x /\ Kind(x[k]) = "else" /\ k \in Nat
      BY DEF Places
    <3>2. k - b \in 1 .. n /\ b + (k - b) = k
      BY <1>1, <2>1, <3>1
    <3>3. QED
      BY <1>1, <3>1, <3>2
  <2>2. QED
    BY <2>1 DEF ElsesWithin
<1>3. SubSeq(x, b + 1, e - 1) = body
  <2> DEFINE first == b + 1
             until == e - 1
  <2>1. first \in Nat \ {0} /\ until \in Nat /\ until = first + Len(body) - 1 /\ until <= Len(x)
        /\ \A i \in 1 .. Len(body) : x[first + i - 1] = body[i]
    BY <1>1
  <2> HIDE DEF first, until, n
  <2>2. SubSeq(x, first, until) = body
    BY <2>1, PartIs
  <2>3. QED
    BY <2>2 DEF first, until
<1>4. SubSeq(x, e + 1, e - 1) = << >>
  BY <1>1, SubSeqEmpty
<1>5. Branch(x, b, e, EvaluateCondition(lead, cond)) = IF EvaluateCondition(lead, cond) THEN body ELSE << >>
  BY <1>2, <1>3, <1>4 DEF Branch
<1>6. QED
  BY <1>5 DEF b, e, Keeps

\* The branches of a block with one.
LEMMA BranchOfTwo ==
  ASSUME NEW T, NEW x \in Seq(T), NEW pre \in Seq(T), NEW open \in T, NEW post \in Seq(T),
         NEW yes \in Seq(T), NEW no \in Seq(T), NEW one \in Seq(T), Len(one) = 1, Kind(one[1]) = "else",
         NEW body \in Seq(T), ArePartsOf(yes, one, no, body),
         IsInnermost(x, pre, open, body, post), NEW lead, NEW cond,
         \A i \in 1 .. Len(yes) : Kind(yes[i]) # "else",
         \A i \in 1 .. Len(no) : Kind(no[i]) # "else"
  PROVE  Keeps(x, pre, body, lead, cond, IF EvaluateCondition(lead, cond) THEN yes ELSE no)
<1> DEFINE b == Len(pre) + 1
           e == Len(pre) + 2 + Len(body)
           m == Len(yes)
           n == Len(no)
           split == b + m + 1
<1> DEFINE els == one[1]
<1>1. body \in Seq(T) /\ Len(body) = m + 1 + n /\ body[m + 1] = els
      /\ (\A i \in 1 .. m : body[i] = yes[i]) /\ (\A i \in 1 .. n : body[m + 1 + i] = no[i])
  <2>1. Len(one) = 1 /\ 1 \in 1 .. Len(one)
    OBVIOUS
  <2>2. /\ Len(body) = m + Len(one) + n
        /\ \A i \in 1 .. m : body[i] = yes[i]
        /\ \A i \in 1 .. Len(one) : body[m + i] = one[i]
        /\ \A i \in 1 .. n : body[m + Len(one) + i] = no[i]
    BY DEF ArePartsOf
  <2>3. QED
    BY <2>1, <2>2
<1>0. Kind(els) = "else"
  OBVIOUS
<1> HIDE DEF els
<1>2. m \in Nat /\ n \in Nat /\ \A i \in 1 .. m : Kind(yes[i]) # "else"
  OBVIOUS
<1>3. \A i \in 1 .. n : Kind(no[i]) # "else"
  OBVIOUS
<1>4. /\ Len(x) >= e /\ Len(x) \in Nat /\ b \in Nat /\ e \in Nat /\ e = b + Len(body) + 1 /\ b >= 1
      /\ \A i \in 1 .. Len(body) : x[b + i] = body[i]
  BY <1>1 DEF IsInnermost
<1> HIDE DEF b, e, m, n
<1>5. /\ e = split + n + 1
      /\ x[split] = els
      /\ (\A i \in 1 .. m : x[b + i] = yes[i]) /\ (\A i \in 1 .. n : x[split + i] = no[i])
  <2>1. x[b + (m + 1)] = body[m + 1]
    <3>1. m + 1 \in 1 .. Len(body)
      BY <1>1, <1>2
    <3>2. QED
      BY <1>4, <3>1
  <2>2. \A i \in 1 .. m : x[b + i] = body[i]
    <3>1. \A i \in 1 .. m : i \in 1 .. Len(body)
      BY <1>1, <1>2
    <3>2. QED
      BY <1>4, <3>1
  <2>3. ASSUME NEW i \in 1 .. n PROVE x[split + i] = no[i]
    <3>1. m + 1 + i \in 1 .. Len(body) /\ b + (m + 1 + i) = split + i
      BY <1>1, <1>2, <1>4
    <3>2. x[b + (m + 1 + i)] = body[m + 1 + i]
      BY <1>4, <3>1
    <3>3. QED
      BY <1>1, <3>1, <3>2
  <2>4. b + (m + 1) = split
    BY <1>2, <1>4
  <2>5. QED
    BY <1>1, <1>2, <1>4, <2>1, <2>2, <2>3, <2>4
<1>6. split \in Nat /\ b < split /\ split < e /\ split = b + m + 1
  BY <1>2, <1>4, <1>5
<1> HIDE DEF split
<1>7. ElsesWithin(x, b, e) # {} /\ Lowest(ElsesWithin(x, b, e)) = split
  <2>1. split \in ElsesWithin(x, b, e)
    <3>1. split \in DOMAIN x
      BY <1>4, <1>6
    <3>2. QED
      BY <1>0, <1>5, <1>6, <3>1 DEF ElsesWithin, Places
  <2>2. ASSUME NEW k \in ElsesWithin(x, b, e), k < split PROVE FALSE
    <3>1. k \in DOMAIN x /\ Kind(x[k]) = "else" /\ k \in Nat /\ b < k
      BY DEF ElsesWithin, Places
    <3>2. k - b \in 1 .. m /\ b + (k - b) = k
      BY <1>2, <1>4, <1>6, <2>2, <3>1
    <3>3. QED
      BY <1>2, <1>5, <3>1, <3>2
  <2>3. ElsesWithin(x, b, e) \in SUBSET Nat
    BY DEF ElsesWithin, Places
  <2>4. /\ Lowest(ElsesWithin(x, b, e)) \in ElsesWithin(x, b, e)
        /\ \A k \in ElsesWithin(x, b, e) : Lowest(ElsesWithin(x, b, e)) <= k
    BY <2>1, <2>3, LowestOf
  <2>5. Lowest(ElsesWithin(x, b, e)) <= split /\ ~(Lowest(ElsesWithin(x, b, e)) < split)
        /\ Lowest(ElsesWithin(x, b, e)) \in Nat
    BY <2>1, <2>2, <2>3, <2>4
  <2>6. QED
    BY <1>6, <2>1, <2>5
<1>8. SubSeq(x, b + 1, split - 1) = yes
  <2> DEFINE first == b + 1
             until == split - 1
  <2>1. first \in Nat \ {0} /\ until \in Nat /\ until = first + Len(yes) - 1 /\ until <= Len(x)
        /\ \A i \in 1 .. Len(yes) : x[first + i - 1] = yes[i]
    BY <1>2, <1>4, <1>5, <1>6 DEF m
  <2> HIDE DEF first, until
  <2>2. SubSeq(x, first, until) = yes
    BY <2>1, PartIs
  <2>3. QED
    BY <2>2 DEF first, until
<1>9. SubSeq(x, split + 1, e - 1) = no
  <2> DEFINE first == split + 1
             until == e - 1
  <2>1. first \in Nat \ {0} /\ until \in Nat /\ until = first + Len(no) - 1 /\ until <= Len(x)
        /\ \A i \in 1 .. Len(no) : x[first + i - 1] = no[i]
    BY <1>2, <1>4, <1>5, <1>6 DEF n
  <2> HIDE DEF first, until
  <2>2. SubSeq(x, first, until) = no
    BY <2>1, PartIs
  <2>3. QED
    BY <2>2 DEF first, until
<1>10. Branch(x, b, e, EvaluateCondition(lead, cond)) = IF EvaluateCondition(lead, cond) THEN yes ELSE no
  BY <1>7, <1>8, <1>9 DEF Branch
<1>11. QED
  BY <1>10 DEF b, e, Keeps

\* What lies behind tokens that close nothing closes nothing either, if no endif is in it.
LEMMA NothingCloses ==
  ASSUME NEW T, NEW u \in Seq(T), NEW v \in Seq(T), Closers(u) = {}, \A i \in 1 .. Len(v) : Kind(v[i]) # "endif"
  PROVE  u \o v \in Seq(T) /\ Closers(u \o v) = {}
<1> DEFINE x == u \o v
<1>1. x \in Seq(T) /\ Len(x) = Len(u) + Len(v)
      /\ \A i \in 1 .. Len(u) + Len(v) : x[i] = IF i <= Len(u) THEN u[i] ELSE v[i - Len(u)]
  BY ConcatProperties
<1> HIDE DEF x
<1>2. Closers(x) = {}
  <2>1. ASSUME NEW k \in Places(x, "endif"), NEW i \in Places(x, "if"), i < k PROVE FALSE
    <3>1. i \in 1 .. Len(u) + Len(v) /\ k \in 1 .. Len(u) + Len(v) /\ Len(u) \in Nat /\ Len(v) \in Nat
          /\ Kind(x[k]) = "endif" /\ Kind(x[i]) = "if"
      BY <1>1 DEF Places
    <3>2. CASE k <= Len(u)
      <4>1. x[k] = u[k] /\ x[i] = u[i] /\ k \in DOMAIN u /\ i \in DOMAIN u
        BY <1>1, <2>1, <3>1, <3>2
      <4>2. k \in Places(u, "endif") /\ i \in Places(u, "if")
        BY <3>1, <4>1 DEF Places
      <4>3. QED
        BY <2>1, <4>2 DEF Closers
    <3>3. CASE ~(k <= Len(u))
      <4>1. k - Len(u) \in 1 .. Len(v) /\ x[k] = v[k - Len(u)]
        BY <1>1, <3>1, <3>3
      <4>2. QED
        BY <3>1, <4>1
    <3>4. QED
      BY <3>2, <3>3
  <2>2. QED
    BY <2>1 DEF Closers
<1>3. QED
  BY <1>1, <1>2 DEF x

-----------------------------------------------------------------------------
(* What a template means                                                   *)

\* Tokens of no block.
PlainTokens(T) == {t \in T : Kind(t) \notin {"if", "else", "endif"}}

\* A reading says of a template what it means for a lead and how many blocks it has.
Reading(T) == [written : Seq(T), meant : Seq(PlainTokens(T)), blocks : Nat]

PlainReading(x) == [written |-> x, meant |-> x, blocks |-> 0]

Joined(r, s) == [written |-> r.written \o s.written, meant |-> r.meant \o s.meant, blocks |-> r.blocks + s.blocks]

IfOnly(lead, open, r, end) ==
  [written |-> Enclosed(open, r.written, end),
   meant   |-> IF EvaluateCondition(lead, open[2]) THEN r.meant ELSE << >>,
   blocks  |-> r.blocks + 1]

IfElse(lead, open, r, els, s, end) ==
  [written |-> Enclosed(open, r.written \o <<els>> \o s.written, end),
   meant   |-> IF EvaluateCondition(lead, open[2]) THEN r.meant ELSE s.meant,
   blocks  |-> r.blocks + s.blocks + 1]

\* Readings among which are those of plain text, and with any of them those of what can be
\* made of them.
Complete(lead, T, R) ==
  /\ \A x \in Seq(PlainTokens(T)) : PlainReading(x) \in R
  /\ \A r, s \in R : Joined(r, s) \in R
  /\ \A open, end \in T : Kind(open) = "if" /\ Kind(end) = "endif" =>
       /\ \A r \in R : IfOnly(lead, open, r, end) \in R
       /\ \A els \in T : Kind(els) = "else" => \A r, s \in R : IfElse(lead, open, r, els, s, end) \in R

\* A template with blocks nested in any way, and what it means: it is in all of these.
Means(lead, T, r) == \A R : Complete(lead, T, R) => r \in R

\* Wherever it stands, so many rounds put its meaning in its place.
Rendered(lead, T, r) ==
  \A pre, post \in Seq(T) :
    Closers(pre) = {} => AfterRounds(lead, T, pre \o r.written \o post, r.blocks) = pre \o r.meant \o post

\* The meaning of a template has no token of a block.
LEMMA PlainIsPlain ==
  ASSUME NEW T, NEW x \in Seq(PlainTokens(T))
  PROVE  x \in Seq(T) /\ \A i \in 1 .. Len(x) : Kind(x[i]) \notin {"if", "else", "endif"}
<1>1. PlainTokens(T) \subseteq T
  BY DEF PlainTokens
<1>2. x \in Seq(T)
  BY <1>1, SeqMonotonic
<1>3. \A i \in 1 .. Len(x) : x[i] \in PlainTokens(T)
  OBVIOUS
<1>4. QED
  BY <1>2, <1>3 DEF PlainTokens

\* More rounds, as a fact about what they lead from and to.
LEMMA RoundsThen ==
  ASSUME NEW T, NEW lead, NEW x \in Seq(T), NEW m \in Nat, NEW n \in Nat, NEW k, k = m + n,
         NEW y, AfterRounds(lead, T, x, m) = y
  PROVE  AfterRounds(lead, T, x, k) = AfterRounds(lead, T, y, n)
BY RoundsAdd

LEMMA RoundThen ==
  ASSUME NEW T, NEW lead, NEW x \in Seq(T), NEW m \in Nat, NEW k, k = m + 1,
         NEW y, AfterRounds(lead, T, x, m) = y
  PROVE  AfterRounds(lead, T, x, k) = ExpandInnermost(lead, y)
<1>1. OneMore(lead, T, x, m)
  BY RoundByRound
<1>2. QED
  BY <1>1 DEF OneMore

\* Text without blocks stays what it is.
LEMMA PlainRendered ==
  ASSUME NEW T, NEW lead, NEW x \in Seq(PlainTokens(T))
  PROVE  PlainReading(x) \in Reading(T) /\ Rendered(lead, T, PlainReading(x))
<1>1. x \in Seq(T)
  BY PlainIsPlain
<1>2. ASSUME NEW pre \in Seq(T), NEW post \in Seq(T)
      PROVE  AfterRounds(lead, T, pre \o x \o post, 0) = pre \o x \o post
  <2>1. pre \o x \o post \in Seq(T)
    BY <1>1, ThreeParts
  <2>2. QED
    BY <2>1, RoundByRound
<1>3. PlainReading(x).written = x /\ PlainReading(x).meant = x /\ PlainReading(x).blocks = 0
  BY DEF PlainReading
<1>4. QED
  BY <1>1, <1>2, <1>3 DEF Rendered, Reading, PlainReading

\* Grouping does not matter.
Regroup(T, a, b, c, d) ==
  /\ a \o b \in Seq(T) /\ b \o c \in Seq(T) /\ c \o d \in Seq(T) /\ (a \o b) \o c \in Seq(T)
  /\ (a \o b) \o c = a \o (b \o c)
  /\ ((a \o b) \o c) \o d = (a \o b) \o (c \o d)
  /\ (a \o (b \o c)) \o d = (a \o b) \o (c \o d)

LEMMA Regrouped ==
  ASSUME NEW T, NEW a \in Seq(T), NEW b \in Seq(T), NEW c \in Seq(T), NEW d \in Seq(T)
  PROVE  Regroup(T, a, b, c, d)
<1>1. a \o b \in Seq(T) /\ b \o c \in Seq(T) /\ c \o d \in Seq(T)
  BY ConcatProperties
<1>2. (a \o b) \o c \in Seq(T)
  BY <1>1, ConcatProperties
<1>3. ((a \o b) \o c) \o d = (a \o b) \o (c \o d)
  BY <1>1, ConcatAssociative
<1>4. (a \o b) \o c = a \o (b \o c)
  BY ConcatAssociative
<1>5. QED
  BY <1>1, <1>2, <1>3, <1>4 DEF Regroup

\* Two templates, one after the other.
LEMMA JoinedRendered ==
  ASSUME NEW T, NEW lead, NEW r \in Reading(T), NEW s \in Reading(T), Rendered(lead, T, r), Rendered(lead, T, s)
  PROVE  Joined(r, s) \in Reading(T) /\ Rendered(lead, T, Joined(r, s))
<1>1. r.written \in Seq(T) /\ s.written \in Seq(T) /\ r.blocks \in Nat /\ s.blocks \in Nat
      /\ r.meant \in Seq(PlainTokens(T)) /\ s.meant \in Seq(PlainTokens(T))
  BY DEF Reading
<1>2. r.meant \in Seq(T) /\ s.meant \in Seq(T) /\ \A i \in 1 .. Len(r.meant) : Kind(r.meant[i]) # "endif"
  BY <1>1, PlainIsPlain
<1>3. Joined(r, s) \in Reading(T)
  <2>1. r.written \o s.written \in Seq(T) /\ r.meant \o s.meant \in Seq(PlainTokens(T))
    BY <1>1, ConcatProperties
  <2>2. r.blocks + s.blocks \in Nat
    BY <1>1
  <2>3. QED
    BY <2>1, <2>2 DEF Joined, Reading
<1>4. ASSUME NEW pre \in Seq(T), NEW post \in Seq(T), Closers(pre) = {}
      PROVE  AfterRounds(lead, T, pre \o (r.written \o s.written) \o post, r.blocks + s.blocks)
               = pre \o (r.meant \o s.meant) \o post
  <2> DEFINE x == pre \o (r.written \o s.written) \o post
             y == (pre \o r.meant) \o s.written \o post
  <2>1. x = pre \o r.written \o (s.written \o post) /\ s.written \o post \in Seq(T)
    <3>1. Regroup(T, pre, r.written, s.written, post)
      BY <1>1, Regrouped
    <3>2. QED
      BY <3>1 DEF Regroup
  <2>2. x \in Seq(T)
    <3>1. pre \o r.written \in Seq(T)
      BY <1>1, ConcatProperties
    <3>2. QED
      BY <2>1, <3>1, ConcatProperties
  <2>3. AfterRounds(lead, T, x, r.blocks) = pre \o r.meant \o (s.written \o post)
    BY <1>4, <2>1 DEF Rendered
  <2>4. pre \o r.meant \o (s.written \o post) = y
    <3>1. Regroup(T, pre, r.meant, s.written, post)
      BY <1>1, <1>2, Regrouped
    <3>2. QED
      BY <3>1 DEF Regroup
  <2>5. pre \o r.meant \in Seq(T) /\ Closers(pre \o r.meant) = {}
    BY <1>2, <1>4, NothingCloses
  <2>6. AfterRounds(lead, T, y, s.blocks) = (pre \o r.meant) \o s.meant \o post
    BY <2>5 DEF Rendered
  <2>7. (pre \o r.meant) \o s.meant \o post = pre \o (r.meant \o s.meant) \o post
    <3>1. Regroup(T, pre, r.meant, s.meant, post)
      BY <1>2, Regrouped
    <3>2. QED
      BY <3>1 DEF Regroup
  <2> HIDE DEF x, y
  <2>8. \A k : k = r.blocks + s.blocks => AfterRounds(lead, T, x, k) = AfterRounds(lead, T, y, s.blocks)
    BY <1>1, <2>2, <2>3, <2>4, RoundsThen
  <2>9. AfterRounds(lead, T, x, r.blocks + s.blocks) = pre \o (r.meant \o s.meant) \o post
    BY <2>6, <2>7, <2>8
  <2>10. QED
    BY <2>9 DEF x
<1>5. /\ Joined(r, s).written = r.written \o s.written /\ Joined(r, s).meant = r.meant \o s.meant
      /\ Joined(r, s).blocks = r.blocks + s.blocks
  BY DEF Joined
<1>6. QED
  BY <1>3, <1>4, <1>5 DEF Rendered

\* A block by its body and what is around it.
HasAround(T, pre, open, w, end, post) ==
  /\ pre \o <<open>> \in Seq(T) /\ <<end>> \o post \in Seq(T)
  /\ pre \o Enclosed(open, w, end) \o post \in Seq(T)
  /\ pre \o Enclosed(open, w, end) \o post = (pre \o <<open>>) \o w \o (<<end>> \o post)

LEMMA AroundBody ==
  ASSUME NEW T, NEW pre \in Seq(T), NEW w \in Seq(T), NEW post \in Seq(T), NEW open \in T, NEW end \in T
  PROVE  HasAround(T, pre, open, w, end, post)
<1> DEFINE i == <<open>>
           e == <<end>>
<1>1. i \in Seq(T) /\ e \in Seq(T) /\ Enclosed(open, w, end) = (i \o w) \o e
  BY DEF Enclosed
<1> HIDE DEF i, e
<1>2. i \o w \in Seq(T) /\ pre \o i \in Seq(T)
  BY <1>1, ConcatProperties
<1>3. Regroup(T, pre, i \o w, e, post)
  BY <1>1, <1>2, Regrouped
<1>4. (pre \o i) \o w = pre \o (i \o w)
  <2>1. Regroup(T, pre, i, w, post)
    BY <1>1, Regrouped
  <2>2. QED
    BY <2>1 DEF Regroup
<1>5. (pre \o ((i \o w) \o e)) \o post = ((pre \o i) \o w) \o (e \o post) /\ e \o post \in Seq(T)
  BY <1>3, <1>4 DEF Regroup
<1>6. (pre \o i) \o w \in Seq(T)
  BY <1>2, ConcatProperties
<1>7. ((pre \o i) \o w) \o (e \o post) \in Seq(T)
  BY <1>5, <1>6, ConcatProperties
<1>8. QED
  BY <1>1, <1>2, <1>5, <1>7 DEF i, e, HasAround

\* A block without an else.
LEMMA IfOnlyRendered ==
  ASSUME NEW T, NEW lead, NEW r \in Reading(T), Rendered(lead, T, r), NEW open \in T, NEW end \in T,
         Kind(open) = "if", Kind(end) = "endif"
  PROVE  IfOnly(lead, open, r, end) \in Reading(T) /\ Rendered(lead, T, IfOnly(lead, open, r, end))
<1> DEFINE kept == IF EvaluateCondition(lead, open[2]) THEN r.meant ELSE << >>
<1>1. r.written \in Seq(T) /\ r.blocks \in Nat /\ r.meant \in Seq(PlainTokens(T))
  BY DEF Reading
<1>2. r.meant \in Seq(T) /\ \A i \in 1 .. Len(r.meant) : Kind(r.meant[i]) \notin {"if", "else", "endif"}
  BY <1>1, PlainIsPlain
<1>3. IfOnly(lead, open, r, end) \in Reading(T)
  <2>1. Enclosed(open, r.written, end) \in Seq(T)
    <3>1. <<open>> \in Seq(T) /\ <<end>> \in Seq(T)
      OBVIOUS
    <3>2. QED
      BY <1>1, <3>1, ThreeParts DEF Enclosed
  <2>2. kept \in Seq(PlainTokens(T)) /\ r.blocks + 1 \in Nat
    BY <1>1
  <2>3. QED
    BY <2>1, <2>2 DEF IfOnly, Reading
<1>4. ASSUME NEW pre \in Seq(T), NEW post \in Seq(T), Closers(pre) = {}
      PROVE  AfterRounds(lead, T, pre \o Enclosed(open, r.written, end) \o post, r.blocks + 1) = pre \o kept \o post
  <2> DEFINE x == pre \o Enclosed(open, r.written, end) \o post
             y == pre \o Enclosed(open, r.meant, end) \o post
             p == pre \o <<open>>
             q == <<end>> \o post
  <2>1. p \in Seq(T) /\ q \in Seq(T) /\ x \in Seq(T) /\ x = p \o r.written \o q
    <3>1. HasAround(T, pre, open, r.written, end, post)
      BY <1>1, AroundBody
    <3>2. QED
      BY <3>1 DEF HasAround
  <2>2. y \in Seq(T) /\ y = p \o r.meant \o q
    <3>1. HasAround(T, pre, open, r.meant, end, post)
      BY <1>2, AroundBody
    <3>2. QED
      BY <3>1 DEF HasAround
  <2>3. Closers(p) = {}
    <3> DEFINE one == <<open>>
    <3>1. one \in Seq(T) /\ \A i \in 1 .. Len(one) : Kind(one[i]) # "endif"
      OBVIOUS
    <3> HIDE DEF one
    <3>2. Closers(pre \o one) = {}
      BY <1>4, <3>1, NothingCloses
    <3>3. QED
      BY <3>2 DEF one
  <2> HIDE DEF p, q
  <2>4. AfterRounds(lead, T, x, r.blocks) = y
    BY <2>1, <2>2, <2>3 DEF Rendered
  <2>5. ExpandInnermost(lead, y) = pre \o kept \o post
    <3>1. IsInnermost(y, pre, open, r.meant, post)
      BY <1>2, <1>4, InnermostFound
    <3>2. Keeps(y, pre, r.meant, lead, open[2], kept)
      BY <1>2, <2>2, <3>1, BranchAlone
    <3> DEFINE inside == r.meant
    <3>3. /\ y \in Seq(T) /\ inside \in Seq(T)
          /\ IsInnermost(y, pre, open, inside, post) /\ Keeps(y, pre, inside, lead, open[2], kept)
      BY <1>2, <2>2, <3>1, <3>2
    <3> HIDE DEF y, kept, inside
    <3>4. QED
      BY <3>3, BranchReplaces
  <2> HIDE DEF x, y, kept
  <2>6. AfterRounds(lead, T, x, r.blocks + 1) = ExpandInnermost(lead, y)
    <3> DEFINE total == r.blocks + 1
               few == r.blocks
    <3>1. few \in Nat /\ total = few + 1 /\ AfterRounds(lead, T, x, few) = y
      BY <1>1, <2>4
    <3> HIDE DEF total, few
    <3>2. x \in Seq(T)
      BY <2>1
    <3>3. AfterRounds(lead, T, x, total) = ExpandInnermost(lead, y)
      BY <3>1, <3>2, RoundThen
    <3>4. QED
      BY <3>3 DEF total
  <2>7. AfterRounds(lead, T, x, r.blocks + 1) = pre \o kept \o post
    BY <2>5, <2>6
  <2>8. QED
    BY <2>7 DEF x
<1>5. /\ IfOnly(lead, open, r, end).written = Enclosed(open, r.written, end)
      /\ IfOnly(lead, open, r, end).meant = kept
      /\ IfOnly(lead, open, r, end).blocks = r.blocks + 1
  BY DEF IfOnly
<1>6. QED
  BY <1>3, <1>4, <1>5 DEF Rendered

\* The two branches of a block and what is around each of them.
HasBranches(T, p, w, l, v, q) ==
  /\ (w \o l) \o v \in Seq(T) /\ (l \o v) \o q \in Seq(T) /\ (p \o w) \o l \in Seq(T)
  /\ (p \o ((w \o l) \o v)) \o q = (p \o w) \o ((l \o v) \o q)
  /\ (p \o ((w \o l) \o v)) \o q = (((p \o w) \o l) \o v) \o q

LEMMA AroundBranches ==
  ASSUME NEW T, NEW p \in Seq(T), NEW w \in Seq(T), NEW l \in Seq(T), NEW v \in Seq(T), NEW q \in Seq(T)
  PROVE  HasBranches(T, p, w, l, v, q)
<1>1. w \o l \in Seq(T) /\ l \o v \in Seq(T) /\ p \o w \in Seq(T)
  BY ConcatProperties
<1>2. (w \o l) \o v \in Seq(T) /\ (l \o v) \o q \in Seq(T) /\ (p \o w) \o l \in Seq(T)
  BY <1>1, ConcatProperties
<1>3. (w \o l) \o v = w \o (l \o v)
  BY ConcatAssociative
<1>4. (p \o (w \o (l \o v))) \o q = (p \o w) \o ((l \o v) \o q)
  <2>1. Regroup(T, p, w, l \o v, q)
    BY <1>1, Regrouped
  <2>2. QED
    BY <2>1 DEF Regroup
<1>5. (p \o (w \o l)) \o v = p \o ((w \o l) \o v)
  <2>1. Regroup(T, p, w \o l, v, q)
    BY <1>1, Regrouped
  <2>2. QED
    BY <2>1 DEF Regroup
<1>6. (p \o w) \o l = p \o (w \o l)
  <2>1. Regroup(T, p, w, l, v)
    BY Regrouped
  <2>2. QED
    BY <2>1 DEF Regroup
<1>7. QED
  BY <1>2, <1>3, <1>4, <1>5, <1>6 DEF HasBranches

\* A block with one.
LEMMA IfElseRendered ==
  ASSUME NEW T, NEW lead, NEW r \in Reading(T), NEW s \in Reading(T), Rendered(lead, T, r), Rendered(lead, T, s),
         NEW open \in T, NEW els \in T, NEW end \in T,
         Kind(open) = "if", Kind(els) = "else", Kind(end) = "endif"
  PROVE  IfElse(lead, open, r, els, s, end) \in Reading(T) /\ Rendered(lead, T, IfElse(lead, open, r, els, s, end))
<1> DEFINE kept == IF EvaluateCondition(lead, open[2]) THEN r.meant ELSE s.meant
           l == <<els>>
           body(w, v) == w \o l \o v
<1>1. r.written \in Seq(T) /\ r.blocks \in Nat /\ r.meant \in Seq(PlainTokens(T))
      /\ s.written \in Seq(T) /\ s.blocks \in Nat /\ s.meant \in Seq(PlainTokens(T))
  BY DEF Reading
<1>2. /\ r.meant \in Seq(T) /\ \A i \in 1 .. Len(r.meant) : Kind(r.meant[i]) \notin {"if", "else", "endif"}
      /\ s.meant \in Seq(T) /\ \A i \in 1 .. Len(s.meant) : Kind(s.meant[i]) \notin {"if", "else", "endif"}
  BY <1>1, PlainIsPlain
<1>3. l \in Seq(T) /\ Len(l) = 1 /\ l[1] = els
  OBVIOUS
<1>4. \A i \in 1 .. Len(l) : Kind(l[i]) # "endif"
  BY <1>3
<1> HIDE DEF l
<1>5. \A w, v \in Seq(T) : body(w, v) \in Seq(T)
  BY <1>3, ThreeParts
<1>6. IfElse(lead, open, r, els, s, end) \in Reading(T)
  <2>1. Enclosed(open, body(r.written, s.written), end) \in Seq(T)
    <3>1. <<open>> \in Seq(T) /\ <<end>> \in Seq(T) /\ body(r.written, s.written) \in Seq(T)
      BY <1>1, <1>5
    <3> HIDE DEF body
    <3>2. QED
      BY <3>1, ThreeParts DEF Enclosed
  <2>2. kept \in Seq(PlainTokens(T)) /\ r.blocks + s.blocks + 1 \in Nat
    BY <1>1
  <2>3. QED
    BY <2>1, <2>2 DEF IfElse, Reading, l
<1>7. ASSUME NEW pre \in Seq(T), NEW post \in Seq(T), Closers(pre) = {}
      PROVE  AfterRounds(lead, T, pre \o Enclosed(open, body(r.written, s.written), end) \o post, r.blocks + s.blocks + 1)
               = pre \o kept \o post
  <2> DEFINE around(w, v) == pre \o Enclosed(open, body(w, v), end) \o post
             x == around(r.written, s.written)
             y == around(r.meant, s.written)
             z == around(r.meant, s.meant)
             p == pre \o <<open>>
             q == <<end>> \o post
  <2>1. p \in Seq(T) /\ q \in Seq(T)
    <3>1. << >> \in Seq(T)
      OBVIOUS
    <3>2. HasAround(T, pre, open, << >>, end, post)
      BY <3>1, AroundBody
    <3>3. QED
      BY <3>2 DEF HasAround
  <2>2. ASSUME NEW w \in Seq(T), NEW v \in Seq(T)
        PROVE  /\ around(w, v) \in Seq(T) /\ (l \o v) \o q \in Seq(T) /\ (p \o w) \o l \in Seq(T)
               /\ around(w, v) = p \o w \o ((l \o v) \o q)
               /\ around(w, v) = ((p \o w) \o l) \o v \o q
    <3>1. body(w, v) \in Seq(T)
      BY <1>5
    <3>2. around(w, v) \in Seq(T) /\ around(w, v) = p \o body(w, v) \o q
      <4> HIDE DEF body
      <4>1. HasAround(T, pre, open, body(w, v), end, post)
        BY <3>1, AroundBody
      <4>2. QED
        BY <4>1 DEF HasAround
    <3> HIDE DEF around, p, q
    <3>3. /\ (l \o v) \o q \in Seq(T) /\ (p \o w) \o l \in Seq(T)
          /\ (p \o ((w \o l) \o v)) \o q = (p \o w) \o ((l \o v) \o q)
          /\ (p \o ((w \o l) \o v)) \o q = (((p \o w) \o l) \o v) \o q
      <4>1. HasBranches(T, p, w, l, v, q)
        BY <1>3, <2>1, AroundBranches
      <4>2. QED
        BY <4>1 DEF HasBranches
    <3>4. QED
      BY <3>2, <3>3
  <2>3. Closers(p) = {}
    <3> DEFINE one == <<open>>
    <3>1. one \in Seq(T) /\ \A i \in 1 .. Len(one) : Kind(one[i]) # "endif"
      OBVIOUS
    <3> HIDE DEF one
    <3>2. Closers(pre \o one) = {}
      BY <1>7, <3>1, NothingCloses
    <3>3. QED
      BY <3>2 DEF one
  <2> HIDE DEF p, q, around
  <2>4. x \in Seq(T) /\ y \in Seq(T) /\ z \in Seq(T)
    BY <1>1, <1>2, <2>2
  <2>5. AfterRounds(lead, T, x, r.blocks) = y
    <3> DEFINE rest == (l \o s.written) \o q
    <3>1. x = p \o r.written \o rest /\ rest \in Seq(T)
      BY <1>1, <2>2
    <3>2. y = p \o r.meant \o rest
      BY <1>1, <1>2, <2>2
    <3> HIDE DEF x, y, rest
    <3>3. AfterRounds(lead, T, p \o r.written \o rest, r.blocks) = p \o r.meant \o rest
      BY <2>1, <2>3, <3>1 DEF Rendered
    <3>4. QED
      BY <3>1, <3>2, <3>3
  <2>6. AfterRounds(lead, T, y, s.blocks) = z
    <3> DEFINE front == (p \o r.meant) \o l
    <3>1. front \in Seq(T) /\ y = front \o s.written \o q
      BY <1>1, <1>2, <2>2
    <3>2. z = front \o s.meant \o q
      BY <1>1, <1>2, <2>2
    <3>3. Closers(front) = {}
      <4>1. p \o r.meant \in Seq(T) /\ Closers(p \o r.meant) = {}
        BY <1>2, <2>1, <2>3, NothingCloses
      <4>2. QED
        BY <1>3, <1>4, <4>1, NothingCloses
    <3> HIDE DEF front
    <3>4. QED
      BY <2>1, <3>1, <3>2, <3>3 DEF Rendered
  <2>7. ExpandInnermost(lead, z) = pre \o kept \o post
    <3> DEFINE inside == body(r.meant, s.meant)
    <3>1. inside \in Seq(T) /\ ArePartsOf(r.meant, l, s.meant, inside)
      BY <1>2, <1>3, ThreeParts
    <3>2. z = pre \o Enclosed(open, inside, end) \o post
      BY DEF around
    <3>3. Kind(l[1]) = "else"
      BY <1>3
    <3> HIDE DEF inside
    <3>4. \A i \in 1 .. Len(inside) : Kind(inside[i]) \notin {"if", "endif"}
      <4>1. ASSUME NEW i \in 1 .. Len(inside) PROVE Kind(inside[i]) \notin {"if", "endif"}
        <5> DEFINE m == Len(r.meant)
                   n == Len(s.meant)
        <5>1. /\ m \in Nat /\ n \in Nat /\ Len(inside) = m + 1 + n
              /\ \A j \in 1 .. m : inside[j] = r.meant[j]
              /\ inside[m + 1] = els
              /\ \A j \in 1 .. n : inside[m + 1 + j] = s.meant[j]
          <6>1. m \in Nat /\ n \in Nat /\ Len(l) = 1 /\ 1 \in 1 .. Len(l) /\ l[1] = els
            BY <1>2, <1>3
          <6>2. /\ Len(inside) = m + Len(l) + n
                /\ \A j \in 1 .. m : inside[j] = r.meant[j]
                /\ \A j \in 1 .. Len(l) : inside[m + j] = l[j]
                /\ \A j \in 1 .. n : inside[m + Len(l) + j] = s.meant[j]
            BY <3>1 DEF ArePartsOf
          <6> HIDE DEF m, n
          <6>3. inside[m + 1] = els
            BY <6>1, <6>2
          <6>4. QED
            BY <6>1, <6>2, <6>3
        <5>2. \A j \in 1 .. n : Kind(s.meant[j]) \notin {"if", "endif"}
          BY <1>2
        <5>3. \A j \in 1 .. m : Kind(r.meant[j]) \notin {"if", "endif"}
          BY <1>2
        <5> HIDE DEF m, n
        <5>4. i \in 1 .. m \/ i = m + 1 \/ (i - (m + 1) \in 1 .. n /\ m + 1 + (i - (m + 1)) = i)
          BY <5>1
        <5>5. QED
          BY <5>1, <5>2, <5>3, <5>4
      <4>2. QED
        BY <4>1
    <3>5. IsInnermost(z, pre, open, inside, post)
      BY <1>7, <3>1, <3>2, <3>4, InnermostFound
    <3>6. Keeps(z, pre, inside, lead, open[2], kept)
      <4>1. \A i \in 1 .. Len(r.meant) : Kind(r.meant[i]) # "else"
        BY <1>2
      <4>2. \A i \in 1 .. Len(s.meant) : Kind(s.meant[i]) # "else"
        BY <1>2
      <4>3. QED
        BY <1>2, <1>3, <2>4, <3>1, <3>3, <3>5, <4>1, <4>2, BranchOfTwo
    <3> HIDE DEF z, kept
    <3>7. QED
      BY <2>4, <3>1, <3>5, <3>6, BranchReplaces
  <2> HIDE DEF x, y, z, kept, body
  <2>8. \A k : k = r.blocks + s.blocks => AfterRounds(lead, T, x, k) = z
    BY <1>1, <2>4, <2>5, <2>6, RoundsThen
  <2>9. r.blocks + s.blocks \in Nat /\ AfterRounds(lead, T, x, r.blocks + s.blocks) = z
    BY <1>1, <2>8
  <2>10. AfterRounds(lead, T, x, (r.blocks + s.blocks) + 1) = ExpandInnermost(lead, z)
    <3> DEFINE few == r.blocks + s.blocks
               total == few + 1
    <3>1. few \in Nat /\ total = few + 1 /\ AfterRounds(lead, T, x, few) = z
      BY <2>9
    <3> HIDE DEF total, few
    <3>2. AfterRounds(lead, T, x, total) = ExpandInnermost(lead, z)
      BY <2>4, <3>1, RoundThen
    <3>3. QED
      BY <3>2 DEF total, few
  <2>11. AfterRounds(lead, T, x, r.blocks + s.blocks + 1) = pre \o kept \o post
    BY <2>7, <2>10
  <2>12. QED
    BY <2>11 DEF x, around
<1>8. /\ IfElse(lead, open, r, els, s, end).written = Enclosed(open, body(r.written, s.written), end)
      /\ IfElse(lead, open, r, els, s, end).meant = kept
      /\ IfElse(lead, open, r, els, s, end).blocks = r.blocks + s.blocks + 1
  BY DEF IfElse, l
<1>9. QED
  BY <1>6, <1>7, <1>8 DEF Rendered

\* Every template with balanced blocks has a meaning: plain text has, and with any templates
\* those that are made of them.
LEMMA HasMeaning ==
  ASSUME NEW T, NEW lead
  PROVE  /\ \A x \in Seq(PlainTokens(T)) : Means(lead, T, PlainReading(x))
         /\ \A r, s : Means(lead, T, r) /\ Means(lead, T, s) => Means(lead, T, Joined(r, s))
         /\ \A r : \A open, end \in T : Kind(open) = "if" /\ Kind(end) = "endif" /\ Means(lead, T, r) =>
              Means(lead, T, IfOnly(lead, open, r, end))
         /\ \A r, s : \A open, els, end \in T :
              Kind(open) = "if" /\ Kind(els) = "else" /\ Kind(end) = "endif" /\ Means(lead, T, r) /\ Means(lead, T, s) =>
                Means(lead, T, IfElse(lead, open, r, els, s, end))
BY DEF Means, Complete

\* RendersMeaning, as far as renderConditionals goes and for any templates: however its blocks
\* are nested and branched, a template of no more than a hundred of them becomes the text of the
\* branches its conditions choose for a lead, and nothing else (template.go:442-542).
THEOREM ConditionalsMean ==
  ASSUME NEW T, NEW lead, NEW r, Means(lead, T, r), r.blocks <= MaxRounds
  PROVE  RenderConditionals(lead, r.written) = r.meant
<1> DEFINE R == {s \in Reading(T) : Rendered(lead, T, s)}
<1>1. Complete(lead, T, R)
  <2>1. \A x \in Seq(PlainTokens(T)) : PlainReading(x) \in R
    BY PlainRendered
  <2>2. \A s, t \in R : Joined(s, t) \in R
    BY JoinedRendered
  <2>3. ASSUME NEW open \in T, NEW end \in T, Kind(open) = "if", Kind(end) = "endif", NEW s \in R
        PROVE  IfOnly(lead, open, s, end) \in R
    BY <2>3, IfOnlyRendered
  <2>4. ASSUME NEW open \in T, NEW end \in T, Kind(open) = "if", Kind(end) = "endif",
               NEW els \in T, Kind(els) = "else", NEW s \in R, NEW t \in R
        PROVE  IfElse(lead, open, s, els, t, end) \in R
    BY <2>4, IfElseRendered
  <2> HIDE DEF R
  <2>5. QED
    BY <2>1, <2>2, <2>3, <2>4 DEF Complete
<1>2. r \in Reading(T) /\ Rendered(lead, T, r)
  <2>1. r \in R
    <3> HIDE DEF R
    <3>1. QED
      BY <1>1 DEF Means
  <2>2. QED
    BY <2>1
<1>3. r.written \in Seq(T) /\ r.meant \in Seq(PlainTokens(T)) /\ r.blocks \in Nat
  BY <1>2 DEF Reading
<1>4. r.meant \in Seq(T) /\ \A i \in 1 .. Len(r.meant) : Kind(r.meant[i]) \notin {"if", "else", "endif"}
  BY <1>3, PlainIsPlain
<1>5. Closers(r.meant) = {}
  BY <1>4 DEF Closers, Places
<1>6. AfterRounds(lead, T, r.written, r.blocks) = r.meant
  <2> DEFINE none == << >>
  <2>1. none \in Seq(T) /\ Closers(none) = {}
    BY DEF Closers, Places
  <2>2. none \o r.written \o none = r.written /\ none \o r.meant \o none = r.meant
    BY <1>3, <1>4, ConcatEmptySeq
  <2> HIDE DEF none
  <2>3. AfterRounds(lead, T, none \o r.written \o none, r.blocks) = none \o r.meant \o none
    BY <1>2, <2>1 DEF Rendered
  <2>4. QED
    BY <2>2, <2>3
<1>7. AfterRounds(lead, T, r.written, MaxRounds) = r.meant
  <2> DEFINE rest == MaxRounds - r.blocks
  <2>1. rest \in Nat /\ MaxRounds = r.blocks + rest
    BY <1>3 DEF MaxRounds
  <2> HIDE DEF rest
  <2>2. AfterRounds(lead, T, r.written, MaxRounds) = AfterRounds(lead, T, r.meant, rest)
    BY <1>3, <1>6, <2>1, RoundsThen
  <2>3. AfterRounds(lead, T, r.meant, rest) = r.meant
    BY <1>4, <1>5, <2>1, NothingLeft
  <2>4. QED
    BY <2>2, <2>3
<1>8. QED
  BY <1>3, <1>7, RenderedByRounds

-----------------------------------------------------------------------------
(* Caps and ramps                                                          *)

Stairs == [from : Int, to : Int, pct : Int]
Ramps == {[kind |-> "off"]} \cup [kind : {"linear"}, start : Int, increment : Int]
           \cup [kind : {"stairs"}, stairs : Seq(Stairs)]

\* A staircase gives a day the percentage of a stair that covers it, and 100 if none does.
LEMMA PctOfDay ==
  ASSUME NEW stairs \in Seq(Stairs), NEW day \in Int
  PROVE  /\ RampPctForDay(day, stairs) \in Pcts(stairs, day)
         /\ RampPctForDay(day, stairs) \in Int
<1> DEFINE covering == {i \in 1 .. Len(stairs) : Covers(stairs[i], day)}
<1>1. SelectInSeq(stairs, LAMBDA stair : Covers(stair, day)) = IF covering # {} THEN Min(covering) ELSE 0
  BY DEF SelectInSeq
<1>2. DOMAIN stairs = 1 .. Len(stairs) /\ \A i \in 1 .. Len(stairs) : stairs[i].pct \in Int
  <2>1. DOMAIN stairs = 1 .. Len(stairs) /\ \A i \in 1 .. Len(stairs) : stairs[i] \in Stairs
    OBVIOUS
  <2>2. \A stair \in Stairs : stair.pct \in Int
    BY DEF Stairs
  <2>3. QED
    BY <2>1, <2>2
<1>3. CASE covering = {}
  BY <1>1, <1>2, <1>3 DEF RampPctForDay, Pcts
<1>4. CASE covering # {}
  <2>1. covering \in SUBSET Nat
    OBVIOUS
  <2>2. PICK least \in covering : \A j \in covering : least <= j
    BY <1>4, <2>1, LeastNumber
  <2>3. Min(covering) \in covering
    BY <2>2 DEF Min
  <2>4. Min(covering) # 0 /\ RampPctForDay(day, stairs) = stairs[Min(covering)].pct
    BY <1>1, <1>4, <2>3 DEF RampPctForDay
  <2>5. Pcts(stairs, day) = {stairs[i].pct : i \in covering}
    BY <1>2, <1>4 DEF Pcts
  <2>6. QED
    BY <1>2, <2>3, <2>4, <2>5
<1>5. QED
  BY <1>3, <1>4

\* The days of a ramp start with 1 and come one by one.
LEMMA DaysOfRamp ==
  ASSUME NEW started \in Int, NEW now \in Int
  PROVE  /\ DaysSince(started, now) \in Nat \ {0}
         /\ DaysSince(started, now + 1) \in {DaysSince(started, now), DaysSince(started, now) + 1}
BY DEF DaysSince, AtLeastOne

\* A linear ramp is the first day's cap and its increments, up to the cap itself.
LEMMA LinearCapIs ==
  ASSUME NEW ramp \in [kind : {"linear"}, start : Int, increment : Int]
  PROVE  \E first \in Nat \ {0}, step \in Nat : \A raw \in Nat, started \in Int, now \in Int :
           EffectiveCap(raw, ramp, started, now) =
             LET computed == first + (DaysSince(started, now) - 1) * step
             IN AtLeastOne(IF computed > raw THEN raw ELSE computed)
<1> DEFINE first == AtLeastOne(ramp.start)
           step == IF ramp.increment < 0 THEN 0 ELSE ramp.increment
<1>1. first \in Nat \ {0} /\ step \in Nat
  BY DEF AtLeastOne
<1>2. \A raw, started, now : EffectiveCap(raw, ramp, started, now)
                               = AtLeastOne(LinearCap(DaysSince(started, now), ramp, raw))
  BY DEF EffectiveCap
<1>3. \A raw \in Nat, started \in Int, now \in Int :
        EffectiveCap(raw, ramp, started, now) =
          LET computed == first + (DaysSince(started, now) - 1) * step
          IN AtLeastOne(IF computed > raw THEN raw ELSE computed)
  BY <1>2 DEF LinearCap
<1> HIDE DEF first, step
<1>4. QED
  BY <1>1, <1>3

\* A staircase takes its percentage of the cap.
LEMMA StairCapIs ==
  ASSUME NEW ramp \in [kind : {"stairs"}, stairs : Seq(Stairs)], NEW raw \in Nat, NEW started \in Int, NEW now \in Int
  PROVE  EffectiveCap(raw, ramp, started, now) =
           AtLeastOne((raw * RampPctForDay(DaysSince(started, now), ramp.stairs)) \div 100)
BY DEF EffectiveCap, StairCap

\* A hundredth of a product grows with either factor, as far as it is more than one.
LEMMA HundredthGrows ==
  ASSUME NEW m \in Int, NEW n \in Int, m <= n
  PROVE  AtLeastOne(m \div 100) <= AtLeastOne(n \div 100)
<1>1. m \div 100 <= n \div 100
  OBVIOUS
<1>2. m \div 100 \in Int /\ n \div 100 \in Int
  OBVIOUS
<1>3. QED
  BY <1>1, <1>2 DEF AtLeastOne

LEMMA ProductsGrow ==
  ASSUME NEW raw \in Nat, NEW more \in Nat, raw <= more, NEW p \in Int, NEW q \in Int, p <= q
  PROVE  raw * p <= raw * q /\ (p >= 0 => raw * p <= more * p) /\ (p < 0 => raw * p <= 0 /\ more * p <= 0)
<1>1. raw * q - raw * p = raw * (q - p) /\ raw * (q - p) >= 0
  OBVIOUS
<1>2. more * p - raw * p = (more - raw) * p /\ (p >= 0 => (more - raw) * p >= 0)
  OBVIOUS
<1>3. p < 0 => raw * (0 - p) >= 0 /\ more * (0 - p) >= 0
  OBVIOUS
<1>4. raw * (0 - p) = 0 - raw * p /\ more * (0 - p) = 0 - more * p
  OBVIOUS
<1>5. raw * p \in Int /\ raw * q \in Int /\ more * p \in Int
  OBVIOUS
<1>6. QED
  BY <1>1, <1>2, <1>3, <1>4, <1>5

\* On every day of a linear ramp the cap is kept, or the one that the floor gives.
LEMMA LinearCapKept ==
  ASSUME NEW ramp \in [kind : {"linear"}, start : Int, increment : Int],
         NEW raw \in Nat, NEW started \in Int, NEW now \in Int
  PROVE  EffectiveCap(raw, ramp, started, now) \in 1 .. AtLeastOne(raw)
<1> DEFINE day == DaysSince(started, now)
<1>0. day \in Nat \ {0}
  BY DaysOfRamp
<1>1. PICK first \in Nat \ {0}, step \in Nat :
        EffectiveCap(raw, ramp, started, now) =
          LET computed == first + (day - 1) * step
          IN AtLeastOne(IF computed > raw THEN raw ELSE computed)
  BY LinearCapIs
<1> HIDE DEF day
<1>2. (day - 1) * step \in Int
  BY <1>0
<1>3. QED
  BY <1>1, <1>2 DEF AtLeastOne

\* No day of a linear ramp has less than the day before.
LEMMA LinearCapGrows ==
  ASSUME NEW ramp \in [kind : {"linear"}, start : Int, increment : Int],
         NEW raw \in Nat, NEW started \in Int, NEW now \in Int
  PROVE  EffectiveCap(raw, ramp, started, now) <= EffectiveCap(raw, ramp, started, now + 1)
<1> DEFINE day == DaysSince(started, now)
           after == DaysSince(started, now + 1)
<1>0. day \in Nat \ {0} /\ after \in {day, day + 1}
  BY DaysOfRamp
<1>1. PICK first \in Nat \ {0}, step \in Nat :
        /\ EffectiveCap(raw, ramp, started, now) =
             LET computed == first + (day - 1) * step
             IN AtLeastOne(IF computed > raw THEN raw ELSE computed)
        /\ EffectiveCap(raw, ramp, started, now + 1) =
             LET computed == first + (after - 1) * step
             IN AtLeastOne(IF computed > raw THEN raw ELSE computed)
  BY LinearCapIs
<1> HIDE DEF day, after
<1>2. (day - 1) * step \in Int /\ (after - 1) * step \in Int /\ (day - 1) * step <= (after - 1) * step
  BY <1>0
<1>3. QED
  BY <1>1, <1>2 DEF AtLeastOne

\* What the percentages of a day say of its cap.
LEMMA StairCapKept ==
  ASSUME NEW ramp \in [kind : {"stairs"}, stairs : Seq(Stairs)], NEW raw \in Nat, NEW day \in Nat \ {0}
  PROVE  LET cap(d) == EffectiveCap(raw, ramp, 1, d)
             pcts(d) == Pcts(ramp.stairs, d)
         IN /\ cap(day) >= 1
            /\ cap(day) > AtLeastOne(raw) => \E pct \in pcts(day) : pct > 100
            /\ pcts(day) = {100} => cap(day) = AtLeastOne(raw)
            /\ raw = 0 => cap(day) = 1
            /\ (\A p \in pcts(day), q \in pcts(day + 1) : p <= q) => cap(day) <= cap(day + 1)
<1> DEFINE pct(d) == RampPctForDay(d, ramp.stairs)
           cap(d) == EffectiveCap(raw, ramp, 1, d)
           pcts(d) == Pcts(ramp.stairs, d)
<1>1. DaysSince(1, day) = day /\ DaysSince(1, day + 1) = day + 1
  BY DEF DaysSince, AtLeastOne
<1>2. cap(day) = AtLeastOne((raw * pct(day)) \div 100) /\ cap(day + 1) = AtLeastOne((raw * pct(day + 1)) \div 100)
  BY <1>1, StairCapIs
<1>3. pct(day) \in pcts(day) /\ pct(day) \in Int /\ pct(day + 1) \in pcts(day + 1) /\ pct(day + 1) \in Int
  <2>1. ramp.stairs \in Seq(Stairs)
    OBVIOUS
  <2>2. QED
    BY <2>1, PctOfDay
<1> HIDE DEF pct, cap, pcts
<1>4. (raw * 100) \div 100 = raw /\ raw * 100 \in Int
  OBVIOUS
<1>5. raw * pct(day) \in Int /\ raw * pct(day + 1) \in Int
  BY <1>3
<1>6. cap(day) >= 1
  <2>1. (raw * pct(day)) \div 100 \in Int
    BY <1>5
  <2>2. QED
    BY <1>2, <2>1 DEF AtLeastOne
<1>7. pct(day) <= 100 => cap(day) <= AtLeastOne(raw)
  <2> SUFFICES ASSUME pct(day) <= 100 PROVE cap(day) <= AtLeastOne(raw)
    OBVIOUS
  <2>1. raw * pct(day) <= raw * 100
    BY <1>3, ProductsGrow
  <2>2. QED
    BY <1>2, <1>4, <1>5, <2>1, HundredthGrows
<1>8. pcts(day) = {100} => cap(day) = AtLeastOne(raw)
  BY <1>2, <1>3, <1>4
<1>9. pct(day) <= pct(day + 1) => cap(day) <= cap(day + 1)
  <2> SUFFICES ASSUME pct(day) <= pct(day + 1) PROVE cap(day) <= cap(day + 1)
    OBVIOUS
  <2>1. raw * pct(day) <= raw * pct(day + 1)
    BY <1>3, ProductsGrow
  <2>2. QED
    BY <1>2, <1>5, <2>1, HundredthGrows
<1>10. cap(day) \in Int /\ AtLeastOne(raw) \in Int
  BY <1>2, <1>5 DEF AtLeastOne
<1>11. raw = 0 => cap(day) = 1
  <2>1. raw = 0 => raw * pct(day) = 0
    BY <1>3
  <2>2. 0 \div 100 = 0
    OBVIOUS
  <2>3. QED
    BY <1>2, <2>1, <2>2 DEF AtLeastOne
<1>12. QED
  BY <1>3, <1>6, <1>7, <1>8, <1>9, <1>10, <1>11 DEF cap, pcts

\* On the same day of the same ramp a higher cap does not leave less.
LEMMA CapGrowsWithRaw ==
  ASSUME NEW raw \in Nat, NEW more \in Nat, raw <= more, NEW ramp \in Ramps, NEW started \in Int, NEW now \in Int
  PROVE  EffectiveCap(raw, ramp, started, now) <= EffectiveCap(more, ramp, started, now)
<1> DEFINE day == DaysSince(started, now)
<1>0. day \in Nat \ {0}
  BY DaysOfRamp
<1>1. CASE ramp = [kind |-> "off"]
  BY <1>1 DEF EffectiveCap
<1>2. CASE ramp \in [kind : {"stairs"}, stairs : Seq(Stairs)]
  <2> DEFINE pct == RampPctForDay(day, ramp.stairs)
  <2>1. /\ EffectiveCap(raw, ramp, started, now) = AtLeastOne((raw * pct) \div 100)
        /\ EffectiveCap(more, ramp, started, now) = AtLeastOne((more * pct) \div 100)
    BY <1>2, StairCapIs
  <2>2. pct \in Int
    <3>1. ramp.stairs \in Seq(Stairs) /\ day \in Int
      BY <1>0, <1>2
    <3>2. QED
      BY <3>1, PctOfDay
  <2> HIDE DEF day, pct
  <2>3. raw * pct \in Int /\ more * pct \in Int
    BY <2>2
  <2>4. CASE pct >= 0
    <3>1. raw * pct <= more * pct
      BY <2>2, <2>4, ProductsGrow
    <3>2. QED
      BY <2>1, <2>3, <3>1, HundredthGrows
  <2>5. CASE pct < 0
    <3>1. raw * pct <= 0 /\ more * pct <= 0
      BY <2>2, <2>5, ProductsGrow
    <3>2. (raw * pct) \div 100 <= 0 /\ (more * pct) \div 100 <= 0
      BY <2>3, <3>1
    <3>3. QED
      BY <2>1, <2>3, <3>2 DEF AtLeastOne
  <2>6. QED
    BY <2>2, <2>4, <2>5
<1>3. CASE ramp \in [kind : {"linear"}, start : Int, increment : Int]
  <2>1. PICK first \in Nat \ {0}, step \in Nat :
          \A r \in {raw, more} : EffectiveCap(r, ramp, started, now) =
            LET computed == first + (day - 1) * step
            IN AtLeastOne(IF computed > r THEN r ELSE computed)
    BY <1>3, LinearCapIs
  <2> HIDE DEF day
  <2>2. (day - 1) * step \in Int
    BY <1>0
  <2>3. QED
    BY <2>1, <2>2 DEF AtLeastOne
<1>4. QED
  BY <1>1, <1>2, <1>3 DEF Ramps

\* The names of the actions, each at its place.
LEMMA ActionNames ==
  /\ Len(Actions) = 10 /\ DOMAIN Actions = 1 .. 10
  /\ Actions[1] = "invite" /\ Actions[2] = "message" /\ Actions[3] = "visit" /\ Actions[4] = "follow"
  /\ Actions[5] = "like" /\ Actions[6] = "comment" /\ Actions[7] = "inmail" /\ Actions[8] = "voice_note"
  /\ Actions[9] = "withdraw_invite" /\ Actions[10] = "engagement_noise"
BY DEF Actions

\* A row of a table gives each action the entry at the action's place.
LEMMA CapsOfRow ==
  ASSUME NEW row
  PROVE  DOMAIN Caps(row) = ToSet(Actions) /\ \A i \in 1 .. 10 : Actions[i] \in ToSet(Actions) /\ Caps(row)[Actions[i]] = row[i]
<1>1. \A i \in 1 .. 10, j \in 1 .. 10 : Actions[i] = Actions[j] => i = j
  BY ActionNames
<1>2. \A i \in 1 .. 10 : Actions[i] \in ToSet(Actions)
  BY ActionNames DEF ToSet
<1>3. ASSUME NEW i \in 1 .. 10 PROVE SelectInSeq(Actions, LAMBDA a : a = Actions[i]) = i
  <2>1. {j \in 1 .. Len(Actions) : Actions[j] = Actions[i]} = {i}
    BY <1>1, ActionNames
  <2>2. Min({i}) = i
    BY DEF Min
  <2>3. QED
    BY <2>1, <2>2 DEF SelectInSeq
<1>4. QED
  BY <1>2, <1>3 DEF Caps

\* Where the action is known, its cap is the entry of its tier's table, and without a known
\* tier that of the default one.
TierRow(tier) == CASE tier = "free"      -> <<10, 20,  40, 20, 30, 10,   0,  0,  50, 3>>
                   [] tier = "sales_nav" -> <<20, 60, 150, 30, 50, 15,  50, 10, 100, 5>>
                   [] tier = "recruiter" -> <<25, 80, 200, 30, 50, 15, 100, 10, 100, 5>>
                   [] tier = "premium"   -> <<15, 40,  80, 30, 50, 15,  20, 10, 100, 5>>
                   [] OTHER              -> <<20, 40,  80, 30, 50, 15,  20, 10, 100, 5>>

LEMMA RawCapIs ==
  ASSUME NEW action, NEW tier
  PROVE  /\ action \notin ToSet(Actions) => DefaultCapFor(action, tier) = 20
         /\ \A i \in 1 .. 10 : action = Actions[i] => DefaultCapFor(action, tier) = TierRow(tier)[i]
<1>1. DOMAIN DefaultCaps = ToSet(Actions)
  BY CapsOfRow DEF DefaultCaps
<1>2. DOMAIN TierCaps = {"free", "premium", "sales_nav", "recruiter"}
  BY DEF TierCaps
<1>3. action \notin ToSet(Actions) => DefaultCapFor(action, tier) = 20
  BY <1>1 DEF DefaultCapFor
<1>4. ASSUME NEW i \in 1 .. 10, action = Actions[i] PROVE DefaultCapFor(action, tier) = TierRow(tier)[i]
  <2>1. action \in DOMAIN DefaultCaps
    BY <1>1, <1>4, CapsOfRow
  <2>2. CASE tier \in DOMAIN TierCaps
    <3>1. DefaultCapFor(action, tier) = TierCaps[tier][action]
      BY <2>1, <2>2 DEF DefaultCapFor
    <3>2. TierCaps[tier] = Caps(TierRow(tier))
      BY <1>2, <2>2 DEF TierCaps, TierRow
    <3>3. QED
      BY <1>4, <3>1, <3>2, CapsOfRow
  <2>3. CASE tier \notin DOMAIN TierCaps
    <3>1. DefaultCapFor(action, tier) = DefaultCaps[action]
      BY <2>1, <2>3 DEF DefaultCapFor
    <3>2. DefaultCaps = Caps(TierRow(tier))
      BY <1>2, <2>3 DEF DefaultCaps, TierRow
    <3>3. QED
      BY <1>4, <3>1, <3>2, CapsOfRow
  <2>4. QED
    BY <2>2, <2>3
<1>5. QED
  BY <1>3, <1>4

\* A cap is a number; a higher tier never has less; a day's cap is never more than a week's.
LEMMA RawCapsGrow ==
  ASSUME NEW action
  PROVE  /\ \A tier : DefaultCapFor(action, tier) \in Nat
         /\ \A k \in 2 .. 4 : DefaultCapFor(action, Tiers[k - 1]) <= DefaultCapFor(action, Tiers[k])
         /\ DefaultWeeklyCapFor(action) = 0
              \/ \A tier : DefaultCapFor(action, tier) <= DefaultWeeklyCapFor(action)
<1>1. Tiers[1] = "free" /\ Tiers[2] = "premium" /\ Tiers[3] = "sales_nav" /\ Tiers[4] = "recruiter"
  BY DEF Tiers
<1>2. CASE action \notin ToSet(Actions)
  <2>1. action \notin DOMAIN DefaultWeeklyCaps
    <3>1. DOMAIN DefaultWeeklyCaps = {Actions[1], Actions[7], Actions[2], Actions[8]}
      BY ActionNames DEF DefaultWeeklyCaps
    <3>2. QED
      BY <1>2, <3>1, CapsOfRow
  <2>2. QED
    BY <1>2, <2>1, RawCapIs DEF DefaultWeeklyCapFor
<1>3. ASSUME NEW i \in 1 .. 10, action = Actions[i]
      PROVE  /\ \A tier : TierRow(tier)[i] \in Nat
             /\ \A k \in 2 .. 4 : TierRow(Tiers[k - 1])[i] <= TierRow(Tiers[k])[i]
             /\ DefaultWeeklyCapFor(action) = 0 \/ \A tier : TierRow(tier)[i] <= DefaultWeeklyCapFor(action)
  <2>1. \A tier : TierRow(tier)[i] \in Nat
    BY DEF TierRow
  <2>2. \A k \in 2 .. 4 : TierRow(Tiers[k - 1])[i] <= TierRow(Tiers[k])[i]
    <3>1. /\ TierRow("free")[i] <= TierRow("premium")[i]
          /\ TierRow("premium")[i] <= TierRow("sales_nav")[i]
          /\ TierRow("sales_nav")[i] <= TierRow("recruiter")[i]
      BY DEF TierRow
    <3>2. QED
      BY <1>1, <3>1
  <2>3. DefaultWeeklyCapFor(action) = 0 \/ \A tier : TierRow(tier)[i] <= DefaultWeeklyCapFor(action)
    <3>1. /\ i = 1 => DefaultWeeklyCapFor(action) = 80
          /\ i = 2 => DefaultWeeklyCapFor(action) = 700
          /\ i = 7 => DefaultWeeklyCapFor(action) = 200
          /\ i = 8 => DefaultWeeklyCapFor(action) = 50
          /\ i \notin {1, 2, 7, 8} => DefaultWeeklyCapFor(action) = 0
      BY <1>3, ActionNames DEF DefaultWeeklyCapFor, DefaultWeeklyCaps
    <3>2. \A tier : /\ TierRow(tier)[1] <= 80 /\ TierRow(tier)[2] <= 700
                    /\ TierRow(tier)[7] <= 200 /\ TierRow(tier)[8] <= 50
      BY DEF TierRow
    <3>3. QED
      BY <3>1, <3>2
  <2>4. QED
    BY <2>1, <2>2, <2>3
<1>4. CASE action \in ToSet(Actions)
  <2>1. PICK i \in 1 .. 10 : action = Actions[i]
    BY <1>4, ActionNames DEF ToSet
  <2>2. \A tier : DefaultCapFor(action, tier) = TierRow(tier)[i]
    BY <2>1, RawCapIs
  <2>3. QED
    BY <1>3, <2>1, <2>2
<1>5. QED
  BY <1>2, <1>4

\* CapRamps: on a day of whatever ramp an account gets at least one and, but for stairs of more
\* than 100 percent, no more than its cap or that one; the day's cap falls only where the
\* percentages do, and no tier has less than a lower one (limits.go).
THEOREM RampsKeepCaps == CasesSpec => []CapRamps
<1>1. Cases => CapRamps
  <2> SUFFICES ASSUME Cases, case.kind = "ramp" PROVE CapRamps
    BY DEF CapRamps
  <2> DEFINE action == case.of.action
             ramp == case.of.ramp
             day == case.of.day
             raw(t) == DefaultCapFor(action, t)
             own == raw(case.of.tier)
             cap(t, on) == EffectiveCap(raw(t), ramp, 1, on)
             today == EffectiveCap(own, ramp, 1, day)
             tomorrow == EffectiveCap(own, ramp, 1, day + 1)
             weekly == DefaultWeeklyCapFor(action)
  <2>1. ramp \in Ramps /\ day \in Nat \ {0}
    <3>1. case \in Evaluated
      BY DEF Cases, Calls
    <3>2. QED
      BY <3>1, CaseOfKind, CasesAssumption DEF Ramps, Stairs
  <2>2. /\ \A t : raw(t) \in Nat
        /\ \A k \in 2 .. 4 : raw(Tiers[k - 1]) <= raw(Tiers[k])
        /\ weekly = 0 \/ own <= weekly
    BY RawCapsGrow
  <2>3. own \in Nat
    BY <2>2
  <2> HIDE DEF raw, own, action, ramp, day, weekly
  <2>4. ramp.kind = "off" => today = own
    BY DEF EffectiveCap
  <2>5. ramp.kind = "linear" => today \in 1 .. AtLeastOne(own) /\ today <= tomorrow
    <3>1. ramp.kind = "linear" => ramp \in [kind : {"linear"}, start : Int, increment : Int]
      BY <2>1 DEF Ramps
    <3>2. QED
      BY <2>1, <2>3, <3>1, LinearCapKept, LinearCapGrows
  <2>6. ramp.kind = "stairs" =>
          /\ today >= 1
          /\ today > AtLeastOne(own) => \E pct \in Pcts(ramp.stairs, day) : pct > 100
          /\ Pcts(ramp.stairs, day) = {100} => today = AtLeastOne(own)
          /\ own = 0 => today = 1
          /\ (\A p \in Pcts(ramp.stairs, day), q \in Pcts(ramp.stairs, day + 1) : p <= q) => today <= tomorrow
    <3>1. ramp.kind = "stairs" => ramp \in [kind : {"stairs"}, stairs : Seq(Stairs)]
      BY <2>1 DEF Ramps
    <3>2. QED
      BY <2>1, <2>3, <3>1, StairCapKept
  <2>7. ramp.kind # "off" /\ own = 0 => today = 1
    <3>1. ramp.kind \in {"off", "linear", "stairs"}
      BY <2>1 DEF Ramps
    <3>2. own = 0 /\ today \in 1 .. AtLeastOne(own) => today = 1
      BY DEF AtLeastOne
    <3> HIDE DEF today
    <3>3. QED
      BY <2>5, <2>6, <3>1, <3>2
  <2>8. \A i \in 2 .. Len(Tiers) : cap(Tiers[i - 1], day) <= cap(Tiers[i], day)
    <3>1. Len(Tiers) = 4
      BY DEF Tiers
    <3>2. QED
      BY <2>1, <2>2, <3>1, CapGrowsWithRaw
  <2> HIDE DEF cap, today, tomorrow
  <2>9. QED
    BY <2>2, <2>4, <2>5, <2>6, <2>7, <2>8 DEF CapRamps, raw, own, cap, today, tomorrow, day, action, ramp, weekly
<1>2. QED
  BY <1>1, CasesInvariant, PTL

-----------------------------------------------------------------------------
(* The calls of the language models                                        *)

\* Where the calls are, and what they have cost so far.
CallsType ==
  /\ job.known \subseteq Details
  /\ at \in {"start", "attempt", "backoff", "done"} /\ model \in {"fast", "smart"}
  /\ attempts \in [{"fast", "smart"} -> Nat]
  /\ stopped \in BOOLEAN

\* What is true between the calls: an attempt is made only while one is left, of the
\* smart model only when there is no fast one or after it has been asked, and the verdict
\* says what the last answer was.
CallsInv ==
  /\ CallsType
  /\ ByPattern # "none" => attempts["fast"] = 0 /\ attempts["smart"] = 0 /\ at \in {"start", "done"}
  /\ at = "start" => attempts["fast"] = 0 /\ attempts["smart"] = 0
  /\ at \in {"start", "attempt", "backoff"} => attempts[model] < MaxAttempts /\ verdict = "none"
  /\ \A m \in {"fast", "smart"} : attempts[m] <= MaxAttempts
  /\ model = "fast" => Escalates /\ attempts["smart"] = 0
  /\ at = "backoff" => Retryable(last) /\ attempts[model] > 0
  /\ Escalates /\ model = "smart" => attempts["fast"] > 0
  /\ verdict = "transient" => Retryable(last) /\ attempts[model] = MaxAttempts
  /\ verdict = "permanent" => last \in {"refused", "garbled", "prose", "cut"} \/ stopped
  /\ verdict = "blocked" => said \ job.known # {}
  /\ verdict = "text" => \A d \in said : Held(d)

\* The two models are the arguments of attempts.
LEMMA CallsInitInv == Init => CallsInv
<1> SUFFICES ASSUME Init PROVE CallsInv
  OBVIOUS
<1>1. job.known \subseteq Details /\ stopped = FALSE /\ at = "start" /\ verdict = "none"
  BY DEF Init
<1>2. model \in {"fast", "smart"} /\ (model = "fast" <=> Escalates)
  BY DEF Init
<1>3. attempts \in [{"fast", "smart"} -> Nat] /\ attempts["fast"] = 0 /\ attempts["smart"] = 0
  BY DEF Init
<1>4. CallsType /\ attempts[model] = 0
  BY <1>1, <1>2, <1>3 DEF CallsType
<1>5. QED
  BY <1>1, <1>2, <1>3, <1>4, AttemptsAssumption DEF CallsInv

LEMMA CallsStepInv == CallsInv /\ [Next]_vars => CallsInv'
<1> SUFFICES ASSUME CallsInv, [Next]_vars PROVE CallsInv'
  OBVIOUS
<1> USE AttemptsAssumption
<1>1. CASE Begin
  <2>1. ByPattern \notin {"transient", "permanent", "text", "blocked"}
    BY DEF ByPattern
  <2>2. ByPattern' = ByPattern /\ Escalates' = Escalates
    BY <1>1 DEF Begin, ByPattern, Escalates
  <2>3. CASE ByPattern # "none" /\ Answer(ByPattern)
    <3>1. at' = "done" /\ verdict' = ByPattern /\ UNCHANGED <<job, model, attempts, last, said, stopped>>
      BY <1>1, <2>3 DEF Begin, Answer
    <3>2. CallsType'
      BY <3>1 DEF CallsInv, CallsType
    <3>3. QED
      BY <1>1, <2>1, <2>2, <2>3, <3>1, <3>2 DEF Begin, CallsInv
  <2>4. CASE ByPattern = "none"
    BY <1>1, <2>2, <2>4 DEF Begin, CallsInv, CallsType, Retryable
  <2>5. QED
    BY <1>1, <2>3, <2>4 DEF Begin
<1>2. CASE Attempt
  <2>1. PICK reply \in Replies :
          /\ last' = reply /\ attempts' = [attempts EXCEPT ![model] = @ + 1]
          /\ \/ /\ reply \in Texts /\ UNCHANGED model
                /\ said' \in IF job.kind = "reply" THEN SUBSET Details ELSE {{}}
                /\ Answer(Read(reply, said'))
             \/ reply \in Undecoded \cup {"refused"} /\ GiveUp("permanent") /\ UNCHANGED said
             \/ Retryable(reply) /\ ~AttemptsLeft /\ GiveUp("transient") /\ UNCHANGED said
             \/ /\ Retryable(reply) /\ AttemptsLeft
                /\ at' = "backoff" /\ UNCHANGED <<model, said, verdict>>
    BY <1>2 DEF Attempt, Replies, Texts, Undecoded
  <2>2. /\ at = "attempt" /\ job' = job /\ stopped' = stopped /\ CallsType /\ attempts[model] < MaxAttempts
        /\ attempts[model] \in Nat /\ verdict = "none" /\ ByPattern = "none"
    BY <1>2 DEF Attempt, CallsInv, CallsType
  <2>3. ByPattern' = "none" /\ (Escalates' <=> Escalates)
    BY <2>2 DEF ByPattern, Escalates
  <2>4. /\ attempts' \in [{"fast", "smart"} -> Nat] /\ attempts'[model] = attempts[model] + 1
        /\ \A m \in {"fast", "smart"} : m # model => attempts'[m] = attempts[m]
    BY <2>1, <2>2 DEF CallsType
  <2>5. /\ \A m \in {"fast", "smart"} : attempts'[m] <= MaxAttempts
        /\ model = "fast" => Escalates /\ attempts'["smart"] = 0
        /\ Escalates => attempts'["fast"] > 0
    <3>1. model \in {"fast", "smart"} /\ attempts["fast"] \in Nat
      BY <2>2 DEF CallsType
    <3>2. Escalates /\ model = "smart" => attempts["fast"] > 0
      BY DEF CallsInv
    <3>3. QED
      BY <2>2, <2>4, <3>1, <3>2 DEF CallsInv
  <2>6. CASE /\ reply \in Texts /\ model' = model /\ Answer(Read(reply, said'))
    <3>1. at' = "done" /\ verdict' = Read(reply, said')
      BY <2>6 DEF Answer
    <3>2. verdict' # "transient" /\ (verdict' = "permanent" => reply = "prose")
      BY <2>6, <3>1 DEF Read, RankJob, ClassifyPost, Enrich, Intent, Reply, HasObject, Texts
    <3>3. /\ verdict' = "text" => \A d \in said' : Held(d)
          /\ verdict' = "blocked" => said' \ job.known # {}
      <4>1. said' \subseteq Details
        BY <2>1, <2>6 DEF Texts, Undecoded, Retryable
      <4>2. \A d \in Details : d \in job.known => Held(d)
        BY DEF Details, Pages, Held
      <4>3. \A d \in said' : d \in Leaks(said') <=> ~Held(d)
        BY DEF Leaks
      <4>4. verdict' = "text" => Leaks(said') = {}
        BY <3>1 DEF Read, RankJob, ClassifyPost, Enrich, Intent, Reply
      <4>5. verdict' = "blocked" => Leaks(said') # {}
        BY <3>1 DEF Read, RankJob, ClassifyPost, Enrich, Intent, Reply
      <4>6. \A d \in Leaks(said') : d \in said'
        BY DEF Leaks
      <4>7. QED
        BY <4>1, <4>2, <4>3, <4>4, <4>5, <4>6
    <3>6. \A d : Held(d)' = Held(d)
      BY <2>2 DEF Held
    <3>4. CallsType'
      BY <2>2, <2>4, <2>6, <3>1 DEF CallsType
    <3>5. QED
      BY <2>1, <2>2, <2>3, <2>5, <2>6, <3>1, <3>2, <3>3, <3>4, <3>6 DEF CallsInv
  <2>7. ASSUME NEW error \in {"permanent", "transient"}, GiveUp(error),
               error = "permanent" => reply \in Undecoded \cup {"refused"},
               error = "transient" => Retryable(reply) /\ ~AttemptsLeft
        PROVE  CallsInv'
    <3>1. CASE Escalates /\ model = "fast" /\ model' = "smart" /\ at' = "attempt" /\ verdict' = verdict
      <4>1. CallsType'
        BY <2>2, <2>4, <3>1 DEF CallsType
      <4>2. attempts'[model'] = 0
        BY <2>5, <3>1
      <4>3. QED
        BY <2>2, <2>3, <2>5, <3>1, <4>1, <4>2 DEF CallsInv
    <3>2. CASE ~(Escalates /\ model = "fast") /\ at' = "done" /\ verdict' = error /\ model' = model
      <4>1. CallsType'
        BY <2>2, <2>4, <3>2 DEF CallsType
      <4>2. error = "transient" => attempts'[model] = MaxAttempts
        BY <2>2, <2>4, <2>7 DEF AttemptsLeft
      <4>3. QED
        BY <2>1, <2>2, <2>3, <2>5, <2>7, <3>2, <4>1, <4>2 DEF CallsInv, Undecoded
    <3>3. QED
      BY <2>7, <3>1, <3>2 DEF GiveUp, Answer
  <2>8. CASE Retryable(reply) /\ AttemptsLeft /\ at' = "backoff" /\ UNCHANGED <<model, said, verdict>>
    <3>1. CallsType'
      BY <2>2, <2>4, <2>8 DEF CallsType
    <3>2. attempts'[model] < MaxAttempts /\ attempts'[model] > 0
      BY <2>2, <2>4, <2>8 DEF AttemptsLeft
    <3>3. QED
      BY <2>1, <2>2, <2>3, <2>5, <2>8, <3>1, <3>2 DEF CallsInv
  <2>9. QED
    BY <2>1, <2>6, <2>7, <2>8
<1>3. CASE Elapsed
  BY <1>3 DEF Elapsed, CallsInv, CallsType, ByPattern, Escalates, Retryable
<1>4. CASE Cancelled
  <2>1. /\ at = "backoff" /\ stopped /\ UNCHANGED <<job, attempts, last, said, stopped>> /\ CallsType
        /\ attempts[model] < MaxAttempts /\ attempts[model] > 0 /\ verdict = "none" /\ ByPattern = "none"
    BY <1>4 DEF Cancelled, CallsInv
  <2>2. ByPattern' = "none" /\ (Escalates' <=> Escalates)
    BY <2>1 DEF ByPattern, Escalates
  <2>3. CASE Escalates /\ model = "fast" /\ model' = "smart" /\ at' = "attempt" /\ verdict' = verdict
    <3>1. CallsType'
      BY <2>1, <2>3 DEF CallsType
    <3>2. attempts["smart"] = 0 /\ attempts["fast"] > 0
      BY <2>1, <2>3 DEF CallsInv
    <3>3. QED
      BY <2>1, <2>2, <2>3, <3>1, <3>2 DEF CallsInv
  <2>4. CASE ~(Escalates /\ model = "fast") /\ at' = "done" /\ verdict' = "permanent" /\ model' = model
    <3>1. CallsType'
      BY <2>1, <2>4 DEF CallsType
    <3>2. QED
      BY <2>1, <2>2, <2>4, <3>1 DEF CallsInv
  <2>5. QED
    BY <1>4, <2>3, <2>4 DEF Cancelled, GiveUp, Answer
<1>5. CASE Stop
  BY <1>5 DEF Stop, CallsInv, CallsType, ByPattern, Escalates, Retryable, Held
<1>6. CASE UNCHANGED vars
  BY <1>6 DEF vars, CallsInv, CallsType, ByPattern, Escalates, Retryable, Held
<1>7. QED
  BY <1>1, <1>2, <1>3, <1>4, <1>5, <1>6 DEF Next

\* CallsJustified: no model is asked too often or after it refused, no reply names an email
\* that its context does not hold, or a page or phone of which it holds nothing, and what a
\* caller is told is what the last answer was (openai.go, anthropic.go, classify.go, reply.go).
THEOREM CallsAreJustified == CasesSpec => []CallsJustified
<1> DEFINE CasesInv == Cases /\ (case = Calls => CallsInv)
<1>1. CasesInit => CasesInv
  <2>1. ASSUME OneCase PROVE CasesInv
    BY <2>1, CaseOfKind DEF OneCase, Cases
  <2>2. ASSUME case = Calls, Init PROVE CasesInv
    BY <2>2, CallsInitInv DEF Cases
  <2>3. QED
    BY <2>1, <2>2 DEF CasesInit
<1>2. CasesInv /\ [CasesNext]_<<case, vars>> => CasesInv'
  <2> SUFFICES ASSUME CasesInv, [CasesNext]_<<case, vars>> PROVE CasesInv'
    OBVIOUS
  <2>1. case' = case /\ [Next]_vars
    BY DEF CasesNext
  <2>2. Cases'
    BY <2>1 DEF Cases, Evaluated, Calls
  <2>3. case' = Calls => CallsInv'
    BY <2>1, CallsStepInv DEF Calls
  <2>4. QED
    BY <2>2, <2>3
<1>3. CasesInv => CallsJustified
  <2> SUFFICES ASSUME case = Calls, CallsInv PROVE CallsJustified
    BY DEF CallsJustified
  <2>1. ByPattern # "none" => attempts = [m \in {"fast", "smart"} |-> 0]
    BY DEF CallsInv, CallsType
  <2>2. verdict = "text" =>
          /\ "email" \in said => "email" \in job.known
          /\ said \cap Pages # {} => job.known \cap {"page", "other_page", "email"} # {}
          /\ "phone" \in said => job.known \cap {"phone", "numbers"} # {}
    <3>1. Held("email") => "email" \in job.known
      BY DEF Held, Pages
    <3>2. \A d \in Pages : Held(d) => job.known \cap {"page", "other_page", "email"} # {}
      BY DEF Held, Pages
    <3>3. Held("phone") => job.known \cap {"phone", "numbers"} # {}
      BY DEF Held, Pages
    <3>4. QED
      BY <3>1, <3>2, <3>3 DEF CallsInv
  <2>3. QED
    BY <2>1, <2>2 DEF CallsInv, CallsJustified
<1>4. QED
  BY <1>1, <1>2, <1>3, PTL DEF CasesSpec

=============================================================================
