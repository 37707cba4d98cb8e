--------------------------- MODULE ScheduleRules ---------------------------
(***************************************************************************)
(* When a saved rule fires next (scheduled/recurrence.rs) and what one     *)
(* look at an action decides (evaluate_due in scheduled/scheduler.rs).     *)
(* Both are pure.  A moment is a natural number of "freshness windows"     *)
(* and NoTime is an absent column.  Daily and weekly rules keep the        *)
(* wall-clock grid of the machine's zone, an interval steps from its       *)
(* anchor, a one-off names its instant.                                    *)
(***************************************************************************)
EXTENDS Integers

CONSTANTS
    FreshWindow,     \* lateness that still counts as on time
    CatchUpMaxAge,   \* lateness past which a missed run is history
    HorizonSlack     \* how far past its period a stored fire is plausible

ASSUME WindowsAssumption ==
    /\ FreshWindow \in Nat /\ HorizonSlack \in Nat
    /\ CatchUpMaxAge \in Nat /\ FreshWindow <= CatchUpMaxAge

NoTime == -1
Zones == {0, 1}

(* The first instant of the grid {k * period + zone} strictly after now. *)
NextOnGrid(period, zone, now) == ((now - zone + period) \div period) * period + zone

(* Stepping from the anchor jumps every missed slot in one multiplication; *)
(* an anchor that lies ahead of now is itself the next fire.               *)
NextInterval(period, anchor, now) ==
    LET base == IF anchor = NoTime THEN now ELSE anchor
    IN  IF base > now THEN base
        ELSE base + ((now - base) \div period + 1) * period

NextFireAfter(rule, anchor, zone, now) ==
    CASE rule.kind = "interval" -> NextInterval(rule.period, anchor, now)
      [] rule.kind = "daily" -> NextOnGrid(rule.period, zone, now)
      [] rule.kind = "once" -> IF rule.at > now THEN rule.at ELSE NoTime

(* A one-off may sit any distance ahead. *)
ImplausiblyFar(rule, next, now) ==
    rule.kind # "once" /\ next - now > rule.period + HorizonSlack

Nothing == [kind |-> "none"]
Reschedule(next) == [kind |-> "reschedule", next |-> next]
Skip(slot, next) == [kind |-> "skip", slot |-> slot, next |-> next]
Fire(trigger, slot, next, anchor) ==
    [kind |-> "fire", trigger |-> trigger, slot |-> slot, next |-> next, anchor |-> anchor]

(* `act` is the action's row, `plan` the input it was saved with, `zone`   *)
(* the machine's, `busy` says a run of it is in flight and `settled` that  *)
(* the application has been up long enough to catch up.                    *)
EvaluateDue(act, plan, now, zone, busy, settled) ==
    LET rule == plan.rule
        slot == act.next
        Roll(anchor) ==
            NextFireAfter(rule, IF anchor = NoTime THEN act.anchor ELSE anchor, zone, now)
        moved == IF rule.kind \in {"once", "interval"} /\ slot # NoTime
                 THEN slot ELSE Roll(NoTime)
        late == now - slot
    IN  IF ~act.enabled THEN Nothing
        ELSE IF act.zone # zone THEN Reschedule(moved)
        ELSE IF slot = NoTime \/ ImplausiblyFar(rule, slot, now) THEN Reschedule(Roll(NoTime))
        ELSE IF slot > now THEN Nothing
        ELSE IF busy THEN Skip(slot, Roll(now))
        ELSE IF late <= FreshWindow THEN Fire("schedule", slot, Roll(slot), slot)
        ELSE IF plan.policy = "skip" \/ late > CatchUpMaxAge THEN Skip(slot, Roll(now))
        ELSE IF settled THEN Fire("catch_up", slot, Roll(now), now)
        ELSE Nothing
=============================================================================
