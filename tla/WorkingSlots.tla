---------------------------- MODULE WorkingSlots ----------------------------
(***************************************************************************)
(* internal/domain/delay: when a delayed step may run. A time is a number  *)
(* of whole hours since a Monday's midnight in the account's zone, for the *)
(* rules read the hour and the day only. Changes of the clocks are left    *)
(* out; a number drawn is a fraction of Parts. Nothing                     *)
(* in the repository calls the engine: scheduleNextStep adds delay_hours.  *)
(***************************************************************************)
EXTENDS Integers, Loops

HourOf(t) == t % 24
DayOf(t) == t \div 24
OnDay(day, hour) == 24 * day + hour

Opens(cfg) == IF cfg.start = 0 /\ cfg.end = 0 THEN 9 ELSE cfg.start
Closes(cfg) == IF cfg.start = 0 /\ cfg.end = 0 THEN 19 ELSE cfg.end

IsHoliday(cfg, t) == DayOf(t) \in cfg.holidays
IsWeekend(t) == DayOf(t) % 7 \in {5, 6}
OffDay(cfg, t) == (cfg.weekends /\ IsWeekend(t)) \/ IsHoliday(cfg, t)

(* A break that ends before it starts is none. *)
AtLunch(cfg, t) == HourOf(t) >= cfg.lunchStart /\ HourOf(t) < cfg.lunchEnd

Working(cfg, t) == /\ ~OffDay(cfg, t)
                   /\ HourOf(t) >= Opens(cfg) /\ HourOf(t) < Closes(cfg)
                   /\ ~AtLunch(cfg, t)

(* A plausible bug: the next day begins at the same hour.                  *)
MovedByADay(cfg, t) == IF OffDay(cfg, t) THEN t + 24 ELSE OnDay(DayOf(t) + 1, Opens(cfg))

(* One round of the loop: where a time that is no working time moves to. *)
Moved(cfg, t) ==
  CASE OffDay(cfg, t) \/ HourOf(t) >= Closes(cfg)      -> OnDay(DayOf(t) + 1, Opens(cfg))
    [] ~OffDay(cfg, t) /\ HourOf(t) < Opens(cfg)      -> OnDay(DayOf(t), Opens(cfg))
    [] OTHER                                          -> OnDay(DayOf(t), cfg.lunchEnd)

(* The loop gives up after so many rounds and answers with the time it has. *)
MaxMoves == 200

MoveToNextWorkingSlot(cfg, t) ==
  LET slot == After([cur \in Int |-> IF Working(cfg, cur) THEN cur ELSE Moved(cfg, cur)], t)
  IN IF Opens(cfg) >= Closes(cfg) THEN t ELSE slot[MaxMoves]

(* Without working hours only the days count, and the hour is kept. *)
MaxDays == 30

SkipNonWorkingDays(cfg, t) ==
  After([cur \in Int |-> IF OffDay(cfg, cur) THEN cur + 24 ELSE cur], t)[MaxDays]

MinutesIn(unit) == CASE unit = "minutes" -> 1 [] unit = "days" -> 24 * 60 [] OTHER -> 60

(* Uniform or gaussian, what is drawn lies between the two percentages; the *)
(* lower one may be negative.                                              *)
Parts == 4
Randomized(minutes, cfg) ==
  (minutes * (Parts * (100 + cfg.minPct) + cfg.draw * (cfg.maxPct - cfg.minPct))) \div (Parts * 100)

Delayed(cfg, base) == base + Randomized(cfg.value * MinutesIn(cfg.unit), cfg) \div 60

ComputeNextRunTime(cfg, base) ==
  LET next == Delayed(cfg, base) IN
  IF cfg.respect THEN MoveToNextWorkingSlot(cfg, next)
  ELSE IF cfg.weekends \/ cfg.holidays # {} THEN SkipNonWorkingDays(cfg, next)
  ELSE next
=============================================================================
