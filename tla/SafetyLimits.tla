---------------------------- MODULE SafetyLimits ----------------------------
(***************************************************************************)
(* internal/safety: the caps of an action by the tier of the account, the  *)
(* cap on a day of the account's ramp, and the next attempt after a weekly *)
(* cap. Days are whole days, day 0 a Monday; two names of one action, such *)
(* as visit and visit_profile, are one. Nothing in the repository calls    *)
(* these functions.                                                        *)
(***************************************************************************)
EXTENDS Integers, Sequences, SequencesExt

Actions == <<"invite", "message", "visit", "follow", "like", "comment", "inmail", "voice_note",
             "withdraw_invite", "engagement_noise">>
Tiers == <<"free", "premium", "sales_nav", "recruiter">>

(* A row of a table, in the order of Actions. *)
Caps(row) == [action \in ToSet(Actions) |-> row[SelectInSeq(Actions, LAMBDA a : a = action)]]

DefaultCaps == Caps(<<20, 40, 80, 30, 50, 15, 20, 10, 100, 5>>)

TierCaps == [free      |-> Caps(<<10, 20,  40, 20, 30, 10,   0,  0,  50, 3>>),
             premium   |-> Caps(<<15, 40,  80, 30, 50, 15,  20, 10, 100, 5>>),
             sales_nav |-> Caps(<<20, 60, 150, 30, 50, 15,  50, 10, 100, 5>>),
             recruiter |-> Caps(<<25, 80, 200, 30, 50, 15, 100, 10, 100, 5>>)]

(* No entry, or zero, is no weekly cap. *)
DefaultWeeklyCaps == [invite |-> 80, inmail |-> 200, message |-> 700, voice_note |-> 50]

(* An unknown tier has the caps of none; an unknown action that of a       *)
(* cautious account's invitations.                                         *)
DefaultCapFor(action, tier) ==
  CASE action \notin DOMAIN DefaultCaps                           -> 20
    [] action \in DOMAIN DefaultCaps /\ tier \in DOMAIN TierCaps -> TierCaps[tier][action]
    [] OTHER                                                      -> DefaultCaps[action]

DefaultWeeklyCapFor(action) == IF action \in DOMAIN DefaultWeeklyCaps THEN DefaultWeeklyCaps[action] ELSE 0

AtLeastOne(n) == IF n < 1 THEN 1 ELSE n

(* The day of the ramp, from 1; a clock behind the start counts as day 1. *)
DaysSince(started, now) == AtLeastOne(now - started + 1)

DefaultStairs == <<[from |-> 1, to |-> 3, pct |-> 30], [from |-> 4, to |-> 7, pct |-> 60],
                   [from |-> 8, to |-> 10000, pct |-> 100]>>

LemListRampCurve == [kind |-> "linear", start |-> 2, increment |-> 2]

Covers(stair, day) == day >= stair.from /\ day <= stair.to

(* The first stair that covers the day; a gap between stairs is no ramp. *)
RampPctForDay(day, stairs) == LET i == SelectInSeq(stairs, LAMBDA stair : Covers(stair, day))
                              IN IF i = 0 THEN 100 ELSE stairs[i].pct

(* A plausible bug: the raw cap is not a bound.                            *)
LinearCapUnbounded(day, linear, rawCap) == AtLeastOne(linear.start) + (day - 1) * linear.increment

LinearCap(day, linear, rawCap) ==
  LET computed == AtLeastOne(linear.start)
                    + (day - 1) * (IF linear.increment < 0 THEN 0 ELSE linear.increment)
  IN IF computed > rawCap THEN rawCap ELSE computed

StairCap(day, stairs, rawCap) == (rawCap * RampPctForDay(day, stairs)) \div 100

(* The cap to enforce: the raw one without a ramp, and with a ramp never   *)
(* less than one, whatever the raw one is.                                 *)
EffectiveCap(rawCap, ramp, started, now) ==
  CASE ramp.kind = "off"    -> rawCap
    [] ramp.kind = "linear" -> AtLeastOne(LinearCap(DaysSince(started, now), ramp, rawCap))
    [] ramp.kind = "stairs" -> AtLeastOne(StairCap(DaysSince(started, now), ramp.stairs, rawCap))

(* On a Monday it is the Monday after. *)
NextMonday(now) == now + (IF (-now) % 7 = 0 THEN 7 ELSE (-now) % 7)
=============================================================================
