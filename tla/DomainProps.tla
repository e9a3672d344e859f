----------------------------- MODULE DomainProps -----------------------------
(***************************************************************************)
(* What the pure parts promise, each beside a definition of its own of what *)
(* is right, over one case at a time; and the calls of the language models, *)
(* which run step by step.                                                 *)
(***************************************************************************)
EXTENDS SequenceRules, WorkingSlots, RetryBackoff, SafetyLimits, UnipileErrors, TemplateRender, ModelCalls

CONSTANTS SequenceCases, DelayCases, RampCases, BackoffCases, AnswerCases, RenderCases

\* An answer has a status and a wording; a ramp is none, any staircase or any linear one, on any day; a jitter is no less than nothing; and the hours of a calendar are those of a day.
ASSUME CasesAssumption ==
  /\ BackoffCases \subseteq [kind : STRING, base : Int, max : Int, jitter : Nat, attempt : Int]
  /\ \A of \in DelayCases :
       /\ of.base \in Int /\ of.cfg.value \in Int /\ of.cfg.minPct \in Int /\ of.cfg.maxPct \in Int /\ of.cfg.draw \in Int
       /\ of.cfg.start \in 0 .. 24 /\ of.cfg.end \in 0 .. 24 /\ of.cfg.lunchStart \in 0 .. 24 /\ of.cfg.lunchEnd \in 0 .. 24
       /\ of.cfg.weekends \in BOOLEAN /\ of.cfg.respect \in BOOLEAN
  /\ AnswerCases \subseteq [status : Nat, type : STRING, words : SUBSET Wordings, decodes : BOOLEAN]
  /\ \A of \in RampCases :
       of.day \in Nat \ {0} /\ of.ramp \in {[kind |-> "off"]} \cup [kind : {"linear"}, start : Int, increment : Int]
                     \cup [kind : {"stairs"}, stairs : Seq([from : Int, to : Int, pct : Int])]

\* The case under evaluation, or the calls that run.
VARIABLE case

Case(kind) == [kind : {kind}, of : CASE kind = "sequence" -> SequenceCases
                                     [] kind = "delay"    -> DelayCases
                                     [] kind = "ramp"     -> RampCases
                                     [] kind = "backoff"  -> BackoffCases
                                     [] kind = "answer"   -> AnswerCases
                                     [] kind = "render"   -> RenderCases]
Evaluated == UNION {Case(kind) : kind \in {"sequence", "delay", "ramp", "backoff", "answer", "render"}}
Calls == [kind |-> "calls"]

OneCase == case \in Evaluated /\ job = "none" /\ at = "none" /\ model = "none" /\ attempts = <<>>
           /\ last = "none" /\ said = {} /\ stopped = FALSE /\ verdict = "none"

CasesInit == OneCase \/ (case = Calls /\ Init)
CasesNext == case = Calls /\ Next /\ UNCHANGED case
CasesSpec == CasesInit /\ [][CasesNext]_<<case, vars>>

-----------------------------------------------------------------------------
\* Where a prospect may go from a step: the targets of a condition that has any,
\* and otherwise the following step.
Successors(steps, i) == LET step == At(steps, i) IN
  IF step.step_type = "condition" /\ Targets(step) # {} THEN Targets(step) ELSE {i + 1} \cap Indices(steps)

\* A set that nothing leads out of: with the steps in it, and with step i, it holds
\* their successors.
Closed(steps, i, set) == \A j \in {i} \cup (set \cap Indices(steps)) : Successors(steps, j) \subseteq set

\* Where a chain of successors from step i may come to: what is in every closed set.
Reached(steps, i) ==
  LET everywhere == UNION {Successors(steps, j) : j \in Indices(steps)}
  IN {k \in everywhere : \A set \in SUBSET everywhere : Closed(steps, i, set) => k \in set}

\* A sequence that Validate accepts never leads back to a step, nor out of the
\* sequence, along whatever chain of branches (sequence.go:249-262).
BranchesEnd ==
  case.kind = "sequence" /\ Valid(case.of) =>
    \A i \in Indices(case.of) : i \notin Reached(case.of, i) /\ Reached(case.of, i) \subseteq Indices(case.of)

\* moveToNextWorkingSlot answers with the first working hour from next on, and
\* skipNonWorkingDays with the first working day at the same hour: there is none before
\* the answer, and the answer is one if there is any within three weeks (delay.go:207-258).
ThreeWeeks == 24 * 21
SlotIsFirst ==
  case.kind = "delay" =>
    LET cfg == case.of.cfg
        next == Delayed(cfg, case.of.base)
        answer == ComputeNextRunTime(cfg, case.of.base)
        Opened(u) == IF cfg.respect THEN Working(cfg, u) ELSE HourOf(u) = HourOf(next) /\ ~OffDay(cfg, u)
    IN /\ answer >= next /\ \A u \in next .. answer - 1 : ~Opened(u)
       /\ (\E u \in next .. next + ThreeWeeks : Opened(u)) => Opened(answer)

\* What the stairs that cover a day say of it; a day that none covers has no ramp.
Pcts(stairs, day) ==
  LET covering == {i \in DOMAIN stairs : Covers(stairs[i], day)}
  IN IF covering = {} THEN {100} ELSE {stairs[i].pct : i \in covering}

\* A ramp gives each day at least one, and no more than the cap or that one: only a stair of
\* more than 100 percent gives more, and an action that the cap forbids, as the free tier
\* does inmail and voice_note, gets one a day.  A day without a stair, or with one of 100
\* percent, gets the whole cap; a linear ramp never falls, and a staircase only where its
\* percentages do; on no day has an account less than one of a lower tier; and a week's
\* cap stops nobody on its first day (limits.go:48-214).
CapRamps ==
  case.kind = "ramp" =>
    LET ramp == case.of.ramp
        day == case.of.day
        raw(tier) == DefaultCapFor(case.of.action, tier)
        cap(tier, on) == EffectiveCap(raw(tier), ramp, 1, on)
        own == raw(case.of.tier)
        today == cap(case.of.tier, day)
        tomorrow == cap(case.of.tier, day + 1)
        weekly == DefaultWeeklyCapFor(case.of.action)
    IN /\ ramp.kind = "off" => today = own
       /\ ramp.kind # "off" /\ own = 0 => today = 1
       /\ ramp.kind = "linear" => today \in 1 .. AtLeastOne(own) /\ today <= tomorrow
       /\ ramp.kind = "stairs" =>
            /\ today >= 1
            /\ today > AtLeastOne(own) => \E pct \in Pcts(ramp.stairs, day) : pct > 100
            /\ Pcts(ramp.stairs, day) = {100} => today = AtLeastOne(own)
            /\ (\A p \in Pcts(ramp.stairs, day), q \in Pcts(ramp.stairs, day + 1) : p <= q) => today <= tomorrow
       /\ \A i \in 2 .. Len(Tiers) : cap(Tiers[i - 1], day) <= cap(Tiers[i], day)
       /\ weekly = 0 \/ own <= weekly

\* A retry never comes at once nor later than the longest delay and its jitter, and as
\* long as no delay is at its longest the attempts of one row keep their distance: with
\* the usual jitter the earliest next delay is longer than the latest last one (delay.go:281-345).
BackoffSpreads ==
  case.kind = "backoff" =>
    LET delays(n) == {BackoffMinutes(n, case.of, draw) : draw \in 0 .. Spread}
        longest == MaxMinutes(case.of)
        usual == JitterPct(case.of) <= 20
        next == ExpMinutes(case.of.attempt + 1, case.of)
    IN /\ \A d \in delays(case.of.attempt) :
            d >= 1 /\ 100 * d <= (100 + JitterPct(case.of)) * (IF longest < 1 THEN 1 ELSE longest)
       /\ case.of.attempt >= 0 /\ usual /\ next < longest /\ BaseMinutes(case.of) >= 5 =>
            \A d \in delays(case.of.attempt), e \in delays(case.of.attempt + 1) : d < e

\* A row is armed again exactly if nothing came back that could be read, or the answer is
\* about load and names nothing that lasts; every other error fails it for good, the weekly cap
\* too, which passes.  The wording of what lasts is heard only in a body that names no type
\* (errors.go:64): one that says errors/other and asks for premium or a new login is armed
\* again at 422, 429 and 5xx, each time it comes (errors.go:78-170, campaign.go:284-310).
RetriedExactlyOnLoad ==
  case.kind = "answer" =>
    LET back == case.of
        load == back.status \in {422, 429} \cup 500 .. 599 \/ back.words \cap {"limit", "resend"} # {}
        heard == IF back.type = "" THEN back.words ELSE back.words \ {"premium", "credit", "reauth", "provider_id"}
        lasting == \/ back.status \in {403, 404, 451}
                   \/ back.type \in {"premium_required", "inmail_credit_exhausted",
                                      "account_disconnected", "invalid_provider_id"}
                   \/ heard \ {"limit"} # {}
    IN /\ Fate(back) = "released" <=> IsOtherError(back) \/ (back.status >= 400 /\ load /\ ~lasting)
       /\ Fate(back) = "failed" <=> back.status >= 400 /\ (lasting \/ ~load)

-----------------------------------------------------------------------------
\* A message that says it all by itself costs no call; no model is asked more than
\* MaxAttempts times, nor after it refused; the smart one is asked for help only
\* after the fast one failed; an error is reported as passing only after every attempt
\* found the model away, and as lasting, which parks a posting, only if the model refused
\* or talked nonsense, the caller itself stopped, or the connection broke while the answer
\* was read - an outage all the same.  A reply that goes out names no email that its
\* context does not hold, no page of a site, and no phone, of which the context holds
\* nothing: an invented page of a known site and a phone put together from two numbers do
\* go out.  One that names only what its context holds is not blocked (openai.go:96-176, classify.go:169-239, reply.go:57-97 and 222-250, jobs.go:174-192).
CallsJustified ==
  case = Calls =>
    /\ ByPattern # "none" => attempts = [m \in {"fast", "smart"} |-> 0]
    /\ \A m \in {"fast", "smart"} : attempts[m] <= MaxAttempts
    /\ at = "backoff" => Retryable(last) /\ attempts[model] < MaxAttempts
    /\ Escalates /\ model = "smart" => attempts["fast"] > 0
    /\ verdict = "transient" => Retryable(last) /\ attempts[model] = MaxAttempts
    /\ verdict = "permanent" => last \in {"refused", "garbled", "prose", "cut"} \/ stopped
    /\ verdict = "blocked" => said \ job.known # {}
    /\ verdict = "text" =>
         /\ "email" \in said => "email" \in job.known
         /\ said \cap Pages # {} => job.known \cap {"page", "other_page", "email"} # {}
         /\ "phone" \in said => job.known \cap {"phone", "numbers"} # {}
=============================================================================
