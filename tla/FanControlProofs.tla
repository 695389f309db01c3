--------------------------- MODULE FanControlProofs ---------------------------
(***************************************************************************)
(* Type correctness of the fan controller and two of its action            *)
(* properties, for every configuration the parser accepts, every set of    *)
(* samples and every combination of failing writes.                        *)
(*                                                                         *)
(* A handler threads a machine, the fans and the registers, through a few  *)
(* helpers.  Each helper has one lemma: it returns a machine, and it keeps *)
(* in step (Holds) every register that was in step before.                 *)
(***************************************************************************)
EXTENDS FanControlProperties, FanPolicyLemmas

Machine == [fan : [Fan -> FanState], speed : [Fan -> Percent], mode : [Fan -> FanMode]]

Io == [Fan -> BOOLEAN]

\* The register of fan f in machine m holds the percentage recorded for it.
Holds(m, f) == m.speed[f] = ClampWrite(f, m.fan[f].percent)

\* The speeds a latched critical temperature or a failure asks for are no lower
\* than the floors.  With critical_full_speed that is up to the critical speed;
\* without it also up to one step above the lowest request.
CriticalCoversFloors ==
    LET Covers(p) == /\ p >= Safety.min_speed_percent
                     /\ \A f \in Fan : p >= MissingPercent(f)
    IN  /\ Covers(Safety.critical_speed_percent)
        /\ Safety.critical_full_speed \/ Covers(Safety.critical_step_percent + 1)

FloorKept(f, s, t) == CriticalCoversFloors /\ AboveFloor(f, s) => AboveFloor(f, t)

\* No register that held its percentage in m has lost it in n, and no fan above
\* its floor has fallen below it.
Follows(m, n) ==
    \A f \in Fan : /\ Holds(m, f) => Holds(n, f)
                   /\ FloorKept(f, m.fan[f], n.fan[f])

-----------------------------------------------------------------------------
\* The floor

\* A fan's floor is a percentage, and no higher than its write range allows.
LEMMA FloorRange ==
    ASSUME NEW f \in Fan, NEW s \in FanState
    PROVE  Floor(f, s) \in Percent
  <1>1. /\ MissingPercent(f) \in Percent /\ FanConfig[f].write_max \in Percent
        /\ Safety.min_speed_percent \in Percent /\ 0 \in Percent
    BY MissingRange, WriteRange, SafetyRanges DEF Percent
  <1>2. QED
    BY <1>1 DEF Floor, Lesser

\* Clamping a speed that covers a floor to the write range still covers it.
LEMMA ClampCovers ==
    ASSUME NEW f \in Fan, NEW p \in Int, NEW floor \in Percent, p >= floor
    PROVE  ClampWrite(f, p) >= Lesser(floor, FanConfig[f].write_max)
  <1>1. /\ FanConfig[f].write_min \in Percent /\ FanConfig[f].write_max \in Percent
        /\ FanConfig[f].write_min <= FanConfig[f].write_max
    BY WriteRange
  <1>2. \A lo, hi \in Percent : lo <= hi => Clamp(p, lo, hi) >= Lesser(floor, hi)
    BY DEF Percent, Clamp, Lesser
  <1>3. QED
    BY <1>1, <1>2 DEF ClampWrite

\* A percentage no less than another is no less than what is left of that one.
LEMMA LesserBound ==
    ASSUME NEW a \in Percent, NEW b \in Percent, NEW c \in Percent, ~(c < a)
    PROVE  c >= Lesser(a, b)
  BY DEF Percent, Lesser

\* Percentages are integers, and requests are percentages.
LEMMA PercentFacts ==
    /\ \A p \in Percent : p \in Int /\ p >= 0 /\ ~(p < p)
    /\ \A v \in 1..100 : v \in Percent
  BY DEF Percent

\* fan_safety_adjust_percent never returns less than the floor, whatever is
\* asked for and for whatever reason.
LEMMA AdjustFloor ==
    ASSUME CriticalCoversFloors, NEW f \in Fan, NEW s \in FanState, NEW requested \in Int,
           NEW forced \in Reason
    PROVE  SafetyAdjust(f, s, requested, forced).percent >= Floor(f, s)
  <1> DEFINE p == Clamp(requested, 1, 100)
             max == FanConfig[f].write_max
             missing == MissingPercent(f)
             min == Safety.min_speed_percent
             adjusted == SafetyAdjust(f, s, requested, forced).percent
  <1>1. p \in Percent /\ p \in 1..100 /\ missing \in Percent /\ max \in Percent
    BY RequestRange, MissingRange, WriteRange
  <1>2. /\ min \in 1..100
        /\ Safety.critical_speed_percent \in Int /\ Safety.critical_step_percent \in Int
    BY SafetyRanges
  <1>3. \A v \in 1..100 : v \in Percent /\ v \in Int /\ v >= 1
    BY DEF Percent
  <1>4. /\ p \in Percent /\ p \in Int /\ p >= 1 /\ missing \in Percent /\ max \in Percent
        /\ min \in Percent /\ min \in Int
        /\ Safety.critical_speed_percent \in Int /\ Safety.critical_step_percent \in Int
    BY <1>1, <1>2, <1>3
  <1>5. \/ ~s.available /\ Floor(f, s) = Lesser(missing, max)
        \/ s.available /\ s.temp >= Safety.min_speed_temperature /\ Floor(f, s) = Lesser(min, max)
        \/ s.available /\ ~(s.temp >= Safety.min_speed_temperature) /\ Floor(f, s) = 0
    BY FanStateFields DEF Floor
  <1>6. /\ Safety.critical_speed_percent >= min /\ Safety.critical_speed_percent >= missing
        /\ Safety.critical_full_speed \/ ( /\ Safety.critical_step_percent + 1 >= min
                                         /\ Safety.critical_step_percent + 1 >= missing )
    BY DEF CriticalCoversFloors
  <1> HIDE DEF p, max, missing, min
  <1>7. /\ Safety.critical_full_speed \/ ( /\ p + Safety.critical_step_percent >= min
                                         /\ p + Safety.critical_step_percent >= missing )
    BY <1>4, <1>6 DEF Percent
  <1>8. ASSUME NEW reason PROVE CriticalPercent(f, p, reason) >= Floor(f, s)
    <2>1. /\ ClampWrite(f, Safety.critical_speed_percent) >= Lesser(min, max)
          /\ ClampWrite(f, Safety.critical_speed_percent) >= Lesser(missing, max)
      BY <1>4, <1>6, ClampCovers DEF max
    <2>2. ASSUME ~Safety.critical_full_speed
          PROVE  /\ ClampWrite(f, p + Safety.critical_step_percent) >= Lesser(min, max)
                 /\ ClampWrite(f, p + Safety.critical_step_percent) >= Lesser(missing, max)
      <3>1. p + Safety.critical_step_percent \in Int
        BY <1>4
      <3>2. QED
        BY <1>4, <1>7, <2>2, <3>1, ClampCovers DEF max
    <2>3. /\ CriticalPercent(f, p, reason) >= Lesser(min, max)
          /\ CriticalPercent(f, p, reason) >= Lesser(missing, max)
      BY <2>1, <2>2 DEF CriticalPercent
    <2>4. CriticalPercent(f, p, reason) >= 0
      BY <1>4, CriticalRange DEF Percent
    <2>5. QED
      BY <1>5, <2>3, <2>4
  <1>9. \/ \E reason : adjusted = CriticalPercent(f, p, reason)
        \/ ~s.available /\ p < missing /\ adjusted = missing
        \/ ~s.available /\ ~(p < missing) /\ adjusted = p
        \/ s.available /\ s.temp >= Safety.min_speed_temperature /\ p < min
           /\ adjusted = ClampWrite(f, min)
        \/ s.available /\ ~(s.temp >= Safety.min_speed_temperature /\ p < min)
           /\ adjusted = ClampWrite(f, p)
    BY DEF SafetyAdjust, p, missing, min
  <1> HIDE DEF adjusted
  <1>10. ClampWrite(f, min) >= Lesser(min, max)
    BY <1>4, ClampCovers DEF max, Percent
  <1>11. ~(p < min) => ClampWrite(f, p) >= Lesser(min, max)
    <2>1. ~(p < min) => p >= min
      BY <1>4 DEF Percent
    <2>2. QED
      BY <1>4, <2>1, ClampCovers DEF max
  <1>12. missing >= Lesser(missing, max) /\ (~(p < missing) => p >= Lesser(missing, max))
    BY <1>4, PercentFacts, LesserBound
  <1>13. ClampWrite(f, p) >= 0
    BY <1>4, ClampWriteRange DEF Percent
  <1>14. adjusted >= Floor(f, s)
    BY <1>5, <1>8, <1>9, <1>10, <1>11, <1>12, <1>13
  <1>15. QED
    BY <1>14 DEF adjusted

\* A percentage that is left as it was asked for is no less than the floor.
LEMMA UnadjustedFloor ==
    ASSUME NEW f \in Fan, NEW s \in FanState, NEW requested \in Int, NEW forced \in Reason,
           SafetyAdjust(f, s, requested, forced).reason = ""
    PROVE  Clamp(requested, 1, 100) >= Floor(f, s)
  <1> DEFINE p == Clamp(requested, 1, 100)
             missing == MissingPercent(f)
             min == Safety.min_speed_percent
             max == FanConfig[f].write_max
  <1>1. p \in Percent /\ missing \in Percent /\ max \in Percent /\ min \in 1..100
    BY RequestRange, MissingRange, WriteRange, SafetyRanges
  <1>2. p \in Percent /\ missing \in Percent /\ max \in Percent /\ min \in Percent
    BY <1>1, PercentFacts
  <1>3. IF ~s.available THEN ~(p < missing)
        ELSE ~(s.temp >= Safety.min_speed_temperature /\ p < min)
    BY DEF SafetyAdjust
  <1>4. \/ ~s.available /\ Floor(f, s) = Lesser(missing, max)
        \/ s.available /\ s.temp >= Safety.min_speed_temperature /\ Floor(f, s) = Lesser(min, max)
        \/ s.available /\ ~(s.temp >= Safety.min_speed_temperature) /\ Floor(f, s) = 0
    BY FanStateFields DEF Floor
  <1> HIDE DEF p, missing, min, max
  <1>5. /\ ~(p < missing) => p >= Lesser(missing, max)
        /\ ~(p < min) => p >= Lesser(min, max)
        /\ p >= 0
    BY <1>2, PercentFacts, LesserBound
  <1>6. p >= Floor(f, s)
    BY <1>3, <1>4, <1>5
  <1>7. QED
    BY <1>6 DEF p

\* A fan written to, successfully or not, is above its floor afterwards.
LEMMA SetFanStateFloor ==
    ASSUME CriticalCoversFloors, NEW f \in Fan, NEW s \in FanState, NEW requested \in Int,
           NEW forced \in Reason, NEW ok \in BOOLEAN
    PROVE  AboveFloor(f, SetFanState(f, s, requested, forced, ok))
  <1> DEFINE q == Clamp(requested, 1, 100)
             p == SafetyAdjust(f, s, requested, forced).percent
             r == SafetyAdjust(f, s, requested, forced).reason
  <1>1. q \in Percent /\ p \in Percent /\ r \in Reason
    BY RequestRange, AdjustType DEF Adjusted
  <1>2. ok => SetFanState(f, s, requested, forced, ok) = Written(s, q, p, r)
    BY DEF SetFanState, Written
  <1>3. ~ok => SetFanState(f, s, requested, forced, ok) = NotWritten(s)
    BY DEF SetFanState, NotWritten
  <1>4. p >= Floor(f, s)
    BY AdjustFloor
  <1> HIDE DEF q, p, r
  <1>5. AboveFloor(f, Written(s, q, p, r))
    <2> DEFINE t == Written(s, q, p, r)
    <2>1. t.percent = p /\ t.temp = s.temp /\ t.available = s.available
      BY <1>1, RecordedWrite
    <2> HIDE DEF t
    <2>2. Floor(f, t) = Floor(f, s)
      BY <2>1, Zenon DEF Floor
    <2>3. AboveFloor(f, t)
      BY <1>4, <2>1, <2>2 DEF AboveFloor
    <2>4. QED
      BY <2>3 DEF t
  <1>6. AboveFloor(f, NotWritten(s))
    <2>1. NotWritten(s).write_failures > 0
      BY RecordedFailure
    <2>2. NotWritten(s).write_failures # 0
      BY <2>1, RecordedFailure, FanStateFields
    <2>3. QED
      BY <2>2 DEF AboveFloor
  <1>7. QED
    BY <1>2, <1>3, <1>5, <1>6

-----------------------------------------------------------------------------
\* The helpers

\* Follows is transitive: the helpers compose.
LEMMA FollowsTrans ==
    ASSUME NEW a, NEW b, NEW c, Follows(a, b), Follows(b, c)
    PROVE  Follows(a, c)
  BY Zenon DEF Follows, FloorKept

\* A machine whose fans and write registers are the same follows.
LEMMA FollowsSame ==
    ASSUME NEW m, NEW n, n.fan = m.fan, n.speed = m.speed
    PROVE  Follows(m, n)
  BY Zenon DEF Follows, Holds, FloorKept

\* The outcomes of I/O are choices per fan.
LEMMA OutcomesType ==
    ASSUME NEW used, NEW set, set \subseteq Io
    PROVE  Outcomes(used, set) \subseteq Io
  BY DEF Outcomes, Both, Io

LEMMA IoType == Reads \subseteq Io /\ Writes \subseteq Io /\ ModeWrites \subseteq Io
  BY FanControlAssumption DEF Io

\* set_fan_percent on a set of fans: register and percentage change together or
\* not at all, the fan modes stay, and every fan of the set is above its floor.
LEMMA SetFansFacts ==
    ASSUME NEW m \in Machine, NEW S \in SUBSET Fan, NEW requested \in [Fan -> Int],
           NEW forced \in Reason, NEW ok \in Io
    PROVE  /\ SetFans(m, S, requested, forced, ok) \in Machine
           /\ SetFans(m, S, requested, forced, ok).mode = m.mode
           /\ Follows(m, SetFans(m, S, requested, forced, ok))
           /\ CriticalCoversFloors
                => \A f \in S : AboveFloor(f, SetFans(m, S, requested, forced, ok).fan[f])
  <1> DEFINE newFan == [f \in Fan |->
                  IF f \in S THEN SetFanState(f, m.fan[f], requested[f], forced, ok[f])
                             ELSE m.fan[f]]
             newSpeed == [f \in Fan |->
                    IF f \in S /\ ok[f]
                    THEN WrittenSpeed(f, m.fan[f], requested[f], forced)
                    ELSE m.speed[f]]
             n == [m EXCEPT !.fan = newFan, !.speed = newSpeed]
  <1>1. SetFans(m, S, requested, forced, ok) = n
    BY DEF SetFans
  <1>2. ASSUME NEW f \in Fan
        PROVE  /\ m.fan[f] \in FanState /\ m.speed[f] \in Percent
               /\ requested[f] \in Int /\ ok[f] \in BOOLEAN
    BY DEF Machine, Io
  <1>3. ASSUME NEW f \in Fan
        PROVE  /\ SetFanState(f, m.fan[f], requested[f], forced, ok[f]) \in FanState
               /\ WrittenSpeed(f, m.fan[f], requested[f], forced) \in Percent
    BY <1>2, SetFanStateType, WrittenSpeedRange
  <1>4. newFan \in [Fan -> FanState] /\ newSpeed \in [Fan -> Percent]
    BY <1>2, <1>3
  <1>5. ASSUME NEW f \in Fan, Holds(m, f)
        PROVE  newSpeed[f] = ClampWrite(f, newFan[f].percent)
    <2>1. CASE f \in S /\ ok[f]
      <3>1. newSpeed[f] = WrittenSpeed(f, m.fan[f], requested[f], forced)
        BY <2>1
      <3>2. newFan[f].percent = SafetyAdjust(f, m.fan[f], requested[f], forced).percent
        BY <1>2, <2>1, SetFanStateType
      <3>3. QED
        BY <3>1, <3>2, Zenon DEF WrittenSpeed
    <2>2. CASE f \in S /\ ~ok[f]
      <3>1. newSpeed[f] = m.speed[f]
        BY <2>2
      <3>2. newFan[f].percent = m.fan[f].percent
        <4> DEFINE t == SetFanState(f, m.fan[f], requested[f], forced, ok[f])
        <4>1. m.fan[f] \in FanState /\ requested[f] \in Int /\ ok[f] = FALSE
          BY <1>2, <2>2
        <4>2. FALSE \in BOOLEAN
          OBVIOUS
        <4>3. SetFanState(f, m.fan[f], requested[f], forced, FALSE).percent = m.fan[f].percent
          BY <4>1, <4>2, SetFanStateType, Zenon
        <4>4. t.percent = m.fan[f].percent
          BY <4>1, <4>3, Zenon
        <4>5. newFan[f] = t
          BY <2>2
        <4> HIDE DEF t, newFan
        <4>6. QED
          BY <4>4, <4>5
      <3>3. QED
        BY <1>5, <3>1, <3>2, Zenon DEF Holds
    <2>3. CASE f \notin S
      <3>1. newSpeed[f] = m.speed[f] /\ newFan[f] = m.fan[f]
        BY <2>3
      <3>2. QED
        BY <1>5, <3>1, Zenon DEF Holds
    <2>4. QED
      BY <2>1, <2>2, <2>3
  <1>6. ASSUME CriticalCoversFloors, NEW f \in Fan, f \in S \/ AboveFloor(f, m.fan[f])
        PROVE  AboveFloor(f, newFan[f])
    <2>1. CASE f \in S
      <3>1. newFan[f] = SetFanState(f, m.fan[f], requested[f], forced, ok[f])
        BY <2>1
      <3>2. QED
        BY <1>2, <1>6, <3>1, SetFanStateFloor
    <2>2. CASE f \notin S
      <3>1. newFan[f] = m.fan[f]
        BY <2>2
      <3>2. QED
        BY <1>6, <2>2, <3>1
    <2>3. QED
      BY <2>1, <2>2
  <1> HIDE DEF newFan, newSpeed
  <1>7. n \in Machine /\ n.mode = m.mode /\ n.fan = newFan /\ n.speed = newSpeed
    BY <1>4 DEF Machine
  <1> HIDE DEF n
  <1>8. Follows(m, n)
    BY <1>5, <1>7, <1>6, Zenon DEF Follows, Holds, FloorKept
  <1>9. ASSUME CriticalCoversFloors, NEW f \in S PROVE AboveFloor(f, n.fan[f])
    BY <1>7, <1>6, <1>9, Zenon
  <1>10. QED
    BY <1>1, <1>7, <1>8, <1>9

\* The part of it most handlers need.
LEMMA SetFansType ==
    ASSUME NEW m \in Machine, NEW S \in SUBSET Fan, NEW requested \in [Fan -> Int],
           NEW forced \in Reason, NEW ok \in Io
    PROVE  /\ SetFans(m, S, requested, forced, ok) \in Machine
           /\ SetFans(m, S, requested, forced, ok).mode = m.mode
           /\ Follows(m, SetFans(m, S, requested, forced, ok))
  BY SetFansFacts

\* The cpu fan, then the gpu fan.
LEMMA SetInTurnType ==
    ASSUME NEW m \in Machine, NEW requested \in [Fan -> Int], NEW ok \in Io
    PROVE  /\ SetInTurn(m, requested, ok) \in Machine
           /\ SetInTurn(m, requested, ok).mode = m.mode
           /\ Follows(m, SetInTurn(m, requested, ok))
  <1> DEFINE cpu == SetFans(m, {"cpu"}, requested, GlobalReason(m.fan), ok)
  <1>1. {"cpu"} \in SUBSET Fan /\ {"gpu"} \in SUBSET Fan
    BY DEF Fan
  <1>2. cpu \in Machine /\ cpu.mode = m.mode /\ Follows(m, cpu)
    BY <1>1, GlobalReasonType, SetFansType
  <1>3. SetInTurn(m, requested, ok) = SetFans(cpu, {"gpu"}, requested, GlobalReason(cpu.fan), ok)
    BY DEF SetInTurn
  <1> HIDE DEF cpu
  <1> DEFINE n == SetFans(cpu, {"gpu"}, requested, GlobalReason(cpu.fan), ok)
  <1>4. n \in Machine /\ n.mode = cpu.mode /\ Follows(cpu, n)
    BY <1>1, <1>2, GlobalReasonType, SetFansType
  <1> HIDE DEF n
  <1>5. Follows(m, n)
    BY <1>2, <1>4, FollowsTrans
  <1>6. QED
    BY <1>2, <1>3, <1>4, <1>5 DEF n

\* Re-applying the current targets.
LEMMA ApplyCurrentType ==
    ASSUME NEW m \in Machine, NEW ok \in Io
    PROVE  /\ ApplyCurrentControlState(m, ok) \in Machine
           /\ ApplyCurrentControlState(m, ok).mode = m.mode
           /\ Follows(m, ApplyCurrentControlState(m, ok))
  <1>1. \A f \in Fan : Target(m.fan[f]) \in Int
    BY TargetRange DEF Machine, Percent
  <1>2. [f \in Fan |-> Target(m.fan[f])] \in [Fan -> Int]
    BY <1>1
  <1>3. Fan \in SUBSET Fan
    OBVIOUS
  <1>4. QED
    BY <1>2, <1>3, GlobalReasonType, SetFansType DEF ApplyCurrentControlState

\* apply_fan_mode touches nothing but the fan-mode registers, and puts both in
\* the new mode when both writes succeed.
LEMMA ApplyFanModeType ==
    ASSUME NEW m \in Machine, NEW new \in FanMode, NEW ok \in Io
    PROVE  /\ ApplyFanMode(m, new, ok) \in Machine
           /\ Follows(m, ApplyFanMode(m, new, ok))
           /\ FanModeApplied(ok) => \A f \in Fan : ApplyFanMode(m, new, ok).mode[f] = new
  <1> DEFINE c == IF ok["cpu"] THEN new ELSE m.mode["cpu"]
             g == IF ok["cpu"] /\ ok["gpu"] THEN new ELSE m.mode["gpu"]
             modes == [cpu |-> c, gpu |-> g]
             n == [m EXCEPT !.mode = modes]
  <1>1. ApplyFanMode(m, new, ok) = IF ~FanModesAvailable THEN m ELSE n
    BY DEF ApplyFanMode
  <1>2. c \in FanMode /\ g \in FanMode
    BY DEF Machine, Fan
  <1>3. BothWritten(ok) => c = new /\ g = new
    BY DEF BothWritten
  <1> HIDE DEF c, g
  <1>4. /\ modes \in [Fan -> FanMode]
        /\ modes["cpu"] = c /\ modes["gpu"] = g
    BY <1>2 DEF Fan
  <1> HIDE DEF modes
  <1>5. n \in Machine /\ n.fan = m.fan /\ n.speed = m.speed /\ n.mode = modes
    BY <1>4 DEF Machine
  <1> HIDE DEF n
  <1>6. Follows(m, n) /\ Follows(m, m)
    BY <1>5, FollowsSame
  <1>7. BothWritten(ok) => \A f \in Fan : n.mode[f] = new
    BY <1>3, <1>4, <1>5 DEF Fan
  <1>8. QED
    BY <1>1, <1>5, <1>6, <1>7 DEF FanModeApplied

\* Leaving turbo.
LEMMA CoolBoostOffType ==
    ASSUME NEW m \in Machine, NEW modeOk \in Io, NEW ok \in Io
    PROVE  /\ CoolBoostOff(m, modeOk, ok) \in Machine
           /\ Follows(m, CoolBoostOff(m, modeOk, ok))
           /\ FanModeApplied(modeOk)
                 => \A f \in Fan : CoolBoostOff(m, modeOk, ok).mode[f] = "manual"
  <1> DEFINE manual == ApplyFanMode(m, "manual", modeOk)
             applied == ApplyCurrentControlState(manual, ok)
  <1>1. "manual" \in FanMode
    BY DEF FanMode
  <1>2. /\ manual \in Machine /\ Follows(m, manual)
        /\ FanModeApplied(modeOk) => \A f \in Fan : manual.mode[f] = "manual"
    BY <1>1, ApplyFanModeType
  <1>3. CoolBoostOff(m, modeOk, ok) = IF FanModeApplied(modeOk) THEN applied ELSE manual
    BY DEF CoolBoostOff
  <1> HIDE DEF manual
  <1>4. applied \in Machine /\ applied.mode = manual.mode /\ Follows(manual, applied)
    BY <1>2, ApplyCurrentType
  <1> HIDE DEF applied
  <1>5. Follows(m, applied)
    BY <1>2, <1>4, FollowsTrans
  <1>6. QED
    BY <1>2, <1>3, <1>4, <1>5

\* Init writes touch nothing but the fan-mode registers.
LEMMA ApplyInitWritesType ==
    ASSUME NEW m \in Machine, NEW ok \in Io
    PROVE  /\ ApplyInitWrites(m, ok) \in Machine
           /\ Follows(m, ApplyInitWrites(m, ok))
  <1> DEFINE modes == [f \in Fan |-> IF ok[f] THEN "manual" ELSE m.mode[f]]
             n == [m EXCEPT !.mode = modes]
  <1>1. ApplyInitWrites(m, ok) = IF InitWritesModes THEN n ELSE m
    BY DEF ApplyInitWrites
  <1>2. modes \in [Fan -> FanMode]
    BY DEF Machine, FanMode
  <1> HIDE DEF modes
  <1>3. n \in Machine /\ n.fan = m.fan /\ n.speed = m.speed
    BY <1>2 DEF Machine
  <1> HIDE DEF n
  <1>4. Follows(m, n) /\ Follows(m, m)
    BY <1>3, FollowsSame
  <1>5. QED
    BY <1>1, <1>3, <1>4

\* What a mode command starts from.
LEMMA PreparedType ==
    ASSUME TypeOK, NEW offMode \in Io, NEW off \in Io, NEW toManual \in Io
    PROVE  /\ Prepared(offMode, off, toManual) \in Machine
           /\ Follows(Now, Prepared(offMode, off, toManual))
           /\ FanModeApplied(toManual)
                 => \A f \in Fan : Prepared(offMode, off, toManual).mode[f] = "manual"
  <1> DEFINE calm == IF coolboost THEN CoolBoostOff(Now, offMode, off) ELSE Now
  <1>1. Now \in Machine /\ Follows(Now, Now)
    BY FollowsSame DEF Now, Machine, TypeOK
  <1>2. calm \in Machine /\ Follows(Now, calm)
    BY <1>1, CoolBoostOffType
  <1>3. Prepared(offMode, off, toManual) = ApplyFanMode(calm, "manual", toManual)
    BY DEF Prepared
  <1> HIDE DEF calm
  <1> DEFINE n == ApplyFanMode(calm, "manual", toManual)
  <1>4. "manual" \in FanMode
    BY DEF FanMode
  <1>5. /\ n \in Machine /\ Follows(calm, n)
        /\ FanModeApplied(toManual) => \A f \in Fan : n.mode[f] = "manual"
    BY <1>2, <1>4, ApplyFanModeType
  <1> HIDE DEF n
  <1>6. Follows(Now, n)
    BY <1>2, <1>5, FollowsTrans
  <1>7. QED
    BY <1>3, <1>5, <1>6 DEF n

\* The daemon's own state and registers are a machine.
LEMMA NowType ==
    ASSUME TypeOK
    PROVE  Now \in Machine /\ Follows(Now, Now)
  BY FollowsSame DEF Now, Machine, TypeOK

\* Committing a machine keeps the types of the fans and the registers.
LEMMA CommitType ==
    ASSUME NEW m \in Machine, Commit(m)
    PROVE  /\ fan' \in [Fan -> FanState] /\ speed' \in [Fan -> Percent]
           /\ mode' \in [Fan -> FanMode]
  BY DEF Commit, Machine

\* A saved state is one that can be restored.
LEMMA SaveType ==
    ASSUME TypeOK, NEW m \in Machine, NEW a \in BOOLEAN, NEW p \in PresetNames, NEW ok,
           Save(m, a, p, ok)
    PROVE  saved' \subseteq SavedState
  <1> DEFINE targets == [f \in Fan |-> Target(m.fan[f])]
  <1>1. \A f \in Fan : Target(m.fan[f]) \in Percent
    BY TargetRange DEF Machine
  <1>2. targets \in [Fan -> Percent]
    BY <1>1
  <1>3. saved' = IF ok THEN {[auto |-> a, preset |-> p, percent |-> targets]} ELSE saved
    BY DEF Save
  <1> HIDE DEF targets
  <1>4. QED
    BY <1>2, <1>3 DEF TypeOK, SavedState

-----------------------------------------------------------------------------
\* The actions

\* Registers in step before the step are in step after it.
InStepKept == \A f \in Fan : InStep(f) => InStep(f)'

\* Fans above their floor before the step are above it after.
FloorsKept == \A f \in Fan : FloorKept(f, fan[f], fan'[f])

StepKept == InStepKept /\ FloorsKept

\* Every fan is above its floor after the step.
FloorsReached == CriticalCoversFloors => \A f \in Fan : AboveFloor(f, fan'[f])

\* A control mode that is entered has the fan modes that go with it.
Owned ==
    /\ (<<auto, preset>> # <<auto', preset'>>) =>
          \A f \in Fan : mode'[f] = IF FirmwareAuto' THEN "auto" ELSE "manual"
    /\ (coolboost' /\ ~coolboost) => \A f \in Fan : mode'[f] = "turbo"

\* Committing a machine that follows the present one keeps registers in step and
\* fans above their floors.
LEMMA CommitKept ==
    ASSUME NEW m \in Machine, Commit(m), Follows(Now, m)
    PROVE  StepKept
  <1>1. Now.fan = fan /\ Now.speed = speed
    BY DEF Now
  <1>2. fan' = m.fan /\ speed' = m.speed
    BY DEF Commit
  <1>3. InStepKept
    BY <1>1, <1>2, Zenon DEF Follows, Holds, InStepKept, InStep
  <1>4. FloorsKept
    BY <1>1, <1>2, Zenon DEF Follows, FloorsKept
  <1>5. QED
    BY <1>3, <1>4 DEF StepKept

\* What is left to show of a command once its machine is known.
LEMMA CommandDone ==
    ASSUME TypeOK, NEW m \in Machine, Commit(m), Follows(Now, m),
           auto' \in BOOLEAN, preset' \in PresetNames, coolboost' \in BOOLEAN,
           running' \in BOOLEAN, saved' \subseteq SavedState
    PROVE  TypeOK' /\ StepKept
  <1>1. TypeOK'
    BY CommitType DEF TypeOK
  <1>2. StepKept
    BY CommitKept
  <1>3. QED
    BY <1>1, <1>2

\* The names a control mode can be entered with.
LEMMA PresetNamesType ==
    /\ {"auto", "manual", "firmware-auto"} \subseteq PresetNames
    /\ DOMAIN Presets \subseteq PresetNames
    /\ \A id \in DOMAIN Presets : id # "firmware-auto"
  BY FanControlAssumption DEF PresetNames, ReservedNames

\* A refused command keeps the control mode and its turbo flag at most cleared.
LEMMA RefusedDone ==
    ASSUME TypeOK, NEW m \in Machine, Refused(m), Follows(Now, m),
           coolboost' \in {FALSE, coolboost}, UNCHANGED running
    PROVE  TypeOK' /\ StepKept /\ Owned
  <1>1. /\ Commit(m) /\ auto' = auto /\ preset' = preset /\ saved' = saved
        /\ running' = running
    BY DEF Refused
  <1>2. TypeOK' /\ StepKept
    BY <1>1, CommandDone DEF TypeOK
  <1>3. ~(coolboost' /\ ~coolboost)
    <2>1. CASE coolboost' = FALSE
      BY <2>1
    <2>2. CASE coolboost' = coolboost
      BY <2>2
    <2>3. QED
      BY <2>1, <2>2
  <1>4. <<auto, preset>> = <<auto', preset'>>
    BY <1>1
  <1>5. Owned
    BY <1>3, <1>4, Zenon DEF Owned
  <1>6. QED
    BY <1>2, <1>5

\* A mode command that went through: the machine follows the prepared one and
\* the control mode it enters is not firmware's.
LEMMA EnteredDone ==
    ASSUME TypeOK, NEW offMode \in Io, NEW off \in Io, NEW toManual \in Io,
           DaemonControlApplied(toManual),
           NEW m \in Machine, m.mode = Prepared(offMode, off, toManual).mode,
           Follows(Prepared(offMode, off, toManual), m), Commit(m),
           NEW a \in BOOLEAN, NEW p \in PresetNames, p # "firmware-auto",
           SetControlMode(a, p), NEW written, Save(m, a, p, written),
           coolboost' = FALSE, UNCHANGED running
    PROVE  TypeOK' /\ StepKept /\ (FanModesAvailable => Owned)
  <1> DEFINE ready == Prepared(offMode, off, toManual)
  <1>1. /\ ready \in Machine /\ Follows(Now, ready)
        /\ FanModeApplied(toManual) => \A f \in Fan : ready.mode[f] = "manual"
    BY PreparedType
  <1>2. Follows(Now, m)
    BY <1>1, FollowsTrans
  <1>3. auto' = a /\ preset' = p
    BY DEF SetControlMode
  <1>4. saved' \subseteq SavedState
    BY SaveType
  <1>5. TypeOK' /\ StepKept
    BY <1>2, <1>3, <1>4, CommandDone DEF TypeOK
  <1>6. ASSUME FanModesAvailable PROVE Owned
    <2>1. \A f \in Fan : mode'[f] = "manual"
      BY <1>1, <1>6 DEF DaemonControlApplied, FanModeApplied, Commit
    <2>2. ~FirmwareAuto'
      BY <1>3 DEF FirmwareAuto
    <2>3. QED
      BY <2>1, <2>2 DEF Owned
  <1>7. QED
    BY <1>5, <1>6

\* set: one fan, both, or none.
LEMMA SetStep ==
    ASSUME TypeOK, NEW S \in SetScopes, NEW percent \in SetPercents, Set(S, percent)
    PROVE  TypeOK' /\ StepKept /\ (FanModesAvailable => Owned)
  <1>1. PICK offMode \in Outcomes(coolboost, ModeWrites), off \in Outcomes(coolboost, Writes),
             toManual \in ModeWrites, ok \in Writes, save \in Saves :
          LET ready == Prepared(offMode, off, toManual)
              m == SetFans(ready, S, [f \in Fan |-> percent], GlobalReason(ready.fan), ok)
          IN  \/ ~DaemonControlApplied(toManual) /\ Refused(ready)
              \/ /\ DaemonControlApplied(toManual)
                 /\ Commit(m)
                 /\ SetControlMode(FALSE, "manual")
                 /\ Save(m, FALSE, "manual", save /\ \E f \in S : ok[f])
    BY DEF Set
  <1>2. /\ offMode \in Io /\ off \in Io /\ toManual \in Io /\ ok \in Io
        /\ S \in SUBSET Fan /\ percent \in Int
    BY IoType, OutcomesType, FanControlAssumption
  <1>3. coolboost' = FALSE /\ running' = running
    BY DEF Set
  <1> DEFINE ready == Prepared(offMode, off, toManual)
             m == SetFans(ready, S, [f \in Fan |-> percent], GlobalReason(ready.fan), ok)
             written == save /\ \E f \in S : ok[f]
  <1>4. /\ ready \in Machine /\ Follows(Now, ready)
        /\ FanModeApplied(toManual) => \A f \in Fan : ready.mode[f] = "manual"
    BY <1>2, PreparedType
  <1>5. \/ Refused(ready)
        \/ /\ DaemonControlApplied(toManual) /\ Commit(m)
           /\ SetControlMode(FALSE, "manual") /\ Save(m, FALSE, "manual", written)
    BY <1>1
  <1> HIDE DEF ready, written
  <1>6. m \in Machine /\ m.mode = ready.mode /\ Follows(ready, m)
    <2>1. [f \in Fan |-> percent] \in [Fan -> Int]
      BY <1>2
    <2>2. QED
      BY <1>2, <1>4, <2>1, GlobalReasonType, SetFansType
  <1> HIDE DEF m
  <1>7. CASE Refused(ready)
    BY <1>3, <1>4, <1>7, RefusedDone
  <1>8. CASE /\ DaemonControlApplied(toManual) /\ Commit(m)
             /\ SetControlMode(FALSE, "manual") /\ Save(m, FALSE, "manual", written)
    <2>1. FALSE \in BOOLEAN /\ "manual" \in PresetNames /\ "manual" # "firmware-auto"
      BY PresetNamesType
    <2>2. QED
      BY <1>2, <1>3, <1>6, <1>8, <2>1, EnteredDone DEF ready
  <1>9. QED
    BY <1>5, <1>7, <1>8

\* preset: the preset's percentages, fan by fan.
LEMMA PresetStep ==
    ASSUME TypeOK, NEW id \in DOMAIN Presets, ApplyPreset(id)
    PROVE  TypeOK' /\ StepKept /\ (FanModesAvailable => Owned)
  <1>1. PICK offMode \in Outcomes(coolboost, ModeWrites), off \in Outcomes(coolboost, Writes),
             toManual \in ModeWrites, ok \in Writes, save \in Saves :
          LET ready == Prepared(offMode, off, toManual)
              m == SetInTurn(ready, Presets[id], ok)
          IN  \/ ~DaemonControlApplied(toManual) /\ Refused(ready)
              \/ /\ DaemonControlApplied(toManual)
                 /\ Commit(m)
                 /\ SetControlMode(FALSE, id)
                 /\ Save(m, FALSE, id, save)
    BY DEF ApplyPreset
  <1>2. offMode \in Io /\ off \in Io /\ toManual \in Io /\ ok \in Io
    BY IoType, OutcomesType
  <1>3. coolboost' = FALSE /\ running' = running
    BY DEF ApplyPreset
  <1> DEFINE ready == Prepared(offMode, off, toManual)
             m == SetInTurn(ready, Presets[id], ok)
  <1>4. /\ ready \in Machine /\ Follows(Now, ready)
        /\ FanModeApplied(toManual) => \A f \in Fan : ready.mode[f] = "manual"
    BY <1>2, PreparedType
  <1>5. \/ Refused(ready)
        \/ /\ DaemonControlApplied(toManual) /\ Commit(m)
           /\ SetControlMode(FALSE, id) /\ Save(m, FALSE, id, save)
    BY <1>1
  <1> HIDE DEF ready
  <1>6. m \in Machine /\ m.mode = ready.mode /\ Follows(ready, m)
    <2>1. Presets[id] \in [Fan -> Int]
      BY FanControlAssumption
    <2>2. QED
      BY <1>2, <1>4, <2>1, SetInTurnType
  <1> HIDE DEF m
  <1>7. CASE Refused(ready)
    BY <1>3, <1>4, <1>7, RefusedDone
  <1>8. CASE /\ DaemonControlApplied(toManual) /\ Commit(m)
             /\ SetControlMode(FALSE, id) /\ Save(m, FALSE, id, save)
    <2>1. FALSE \in BOOLEAN /\ id \in PresetNames /\ id # "firmware-auto"
      BY PresetNamesType
    <2>2. QED
      BY <1>2, <1>3, <1>6, <1>8, <2>1, EnteredDone DEF ready
  <1>9. QED
    BY <1>5, <1>7, <1>8

\* auto: from the reset speeds.
LEMMA AutoStep ==
    ASSUME TypeOK, AutoMode
    PROVE  TypeOK' /\ StepKept /\ (FanModesAvailable => Owned)
  <1>1. PICK offMode \in Outcomes(coolboost, ModeWrites), off \in Outcomes(coolboost, Writes),
             toManual \in ModeWrites, ok \in Writes, save \in Saves :
          LET ready == Prepared(offMode, off, toManual)
              m == SetInTurn(ready, [f \in Fan |-> FanConfig[f].reset_speed], ok)
          IN  \/ ~DaemonControlApplied(toManual) /\ Refused(ready)
              \/ /\ DaemonControlApplied(toManual)
                 /\ Commit(m)
                 /\ SetControlMode(TRUE, "auto")
                 /\ Save(m, TRUE, "auto", save)
    BY DEF AutoMode
  <1>2. offMode \in Io /\ off \in Io /\ toManual \in Io /\ ok \in Io
    BY IoType, OutcomesType
  <1>3. coolboost' = FALSE /\ running' = running
    BY DEF AutoMode
  <1> DEFINE ready == Prepared(offMode, off, toManual)
             m == SetInTurn(ready, [f \in Fan |-> FanConfig[f].reset_speed], ok)
  <1>4. /\ ready \in Machine /\ Follows(Now, ready)
        /\ FanModeApplied(toManual) => \A f \in Fan : ready.mode[f] = "manual"
    BY <1>2, PreparedType
  <1>5. \/ Refused(ready)
        \/ /\ DaemonControlApplied(toManual) /\ Commit(m)
           /\ SetControlMode(TRUE, "auto") /\ Save(m, TRUE, "auto", save)
    BY <1>1
  <1> HIDE DEF ready
  <1>6. m \in Machine /\ m.mode = ready.mode /\ Follows(ready, m)
    <2>1. \A f \in Fan : FanConfig[f].reset_speed \in Percent
      BY WriteRange
    <2>2. \A p \in Percent : p \in Int
      BY DEF Percent
    <2>3. [f \in Fan |-> FanConfig[f].reset_speed] \in [Fan -> Int]
      BY <2>1, <2>2
    <2>4. QED
      BY <1>2, <1>4, <2>3, SetInTurnType
  <1> HIDE DEF m
  <1>7. CASE Refused(ready)
    BY <1>3, <1>4, <1>7, RefusedDone
  <1>8. CASE /\ DaemonControlApplied(toManual) /\ Commit(m)
             /\ SetControlMode(TRUE, "auto") /\ Save(m, TRUE, "auto", save)
    <2>1. TRUE \in BOOLEAN /\ "auto" \in PresetNames /\ "auto" # "firmware-auto"
      BY PresetNamesType
    <2>2. QED
      BY <1>2, <1>3, <1>6, <1>8, <2>1, EnteredDone DEF ready
  <1>9. QED
    BY <1>5, <1>7, <1>8

\* firmware-auto and fan-mode auto.
LEMMA FirmwareAutoStep ==
    ASSUME TypeOK, FirmwareAutoMode
    PROVE  TypeOK' /\ StepKept /\ Owned
  <1>1. PICK ok \in ModeWrites, save \in Saves :
          LET m == ApplyFanMode(Now, "auto", ok)
          IN  \/ ~BothWritten(ok) /\ Refused(m) /\ UNCHANGED coolboost
              \/ /\ BothWritten(ok)
                 /\ Commit(m)
                 /\ SetControlMode(FALSE, "firmware-auto")
                 /\ coolboost' = FALSE
                 /\ Save(m, FALSE, "firmware-auto", save)
    BY DEF FirmwareAutoMode
  <1>2. FanModesAvailable /\ running' = running /\ ok \in Io /\ "auto" \in FanMode
    BY IoType DEF FirmwareAutoMode, FanMode
  <1> DEFINE m == ApplyFanMode(Now, "auto", ok)
  <1>3. /\ m \in Machine /\ Follows(Now, m)
        /\ FanModeApplied(ok) => \A f \in Fan : m.mode[f] = "auto"
    BY <1>2, NowType, ApplyFanModeType
  <1>4. \/ Refused(m) /\ coolboost' = coolboost
        \/ /\ BothWritten(ok) /\ Commit(m) /\ SetControlMode(FALSE, "firmware-auto")
           /\ coolboost' = FALSE /\ Save(m, FALSE, "firmware-auto", save)
    BY <1>1
  <1> HIDE DEF m
  <1>5. CASE Refused(m) /\ coolboost' = coolboost
    BY <1>2, <1>3, <1>5, RefusedDone
  <1>6. CASE /\ BothWritten(ok) /\ Commit(m) /\ SetControlMode(FALSE, "firmware-auto")
             /\ coolboost' = FALSE /\ Save(m, FALSE, "firmware-auto", save)
    <2>1. auto' = FALSE /\ preset' = "firmware-auto" /\ "firmware-auto" \in PresetNames
      BY <1>6, PresetNamesType DEF SetControlMode
    <2>2. saved' \subseteq SavedState
      BY <1>3, <1>6, <2>1, SaveType
    <2>3. TypeOK' /\ StepKept
      BY <1>2, <1>3, <1>6, <2>1, <2>2, CommandDone DEF TypeOK
    <2>4. \A f \in Fan : mode'[f] = "auto"
      BY <1>2, <1>3, <1>6 DEF FanModeApplied, Commit
    <2>5. QED
      BY <1>6, <2>1, <2>3, <2>4 DEF Owned, FirmwareAuto
  <1>7. QED
    BY <1>4, <1>5, <1>6

\* fan-mode manual.
LEMMA FanModeManualStep ==
    ASSUME TypeOK, FanModeManual
    PROVE  TypeOK' /\ StepKept /\ Owned
  <1>1. PICK toManual \in ModeWrites, ok \in Writes, save \in Saves :
          LET switched == ApplyFanMode(Now, "manual", toManual)
              m == ApplyCurrentControlState(switched, ok)
          IN  \/ ~BothWritten(toManual) /\ Refused(switched) /\ UNCHANGED coolboost
              \/ /\ BothWritten(toManual)
                 /\ Commit(m)
                 /\ SetControlMode(FALSE, "manual")
                 /\ coolboost' = FALSE
                 /\ Save(m, FALSE, "manual", save)
    BY DEF FanModeManual
  <1>2. /\ FanModesAvailable /\ running' = running
        /\ toManual \in Io /\ ok \in Io /\ "manual" \in FanMode
    BY IoType DEF FanModeManual, FanMode
  <1> DEFINE switched == ApplyFanMode(Now, "manual", toManual)
             m == ApplyCurrentControlState(switched, ok)
  <1>3. /\ switched \in Machine /\ Follows(Now, switched)
        /\ FanModeApplied(toManual) => \A f \in Fan : switched.mode[f] = "manual"
    BY <1>2, NowType, ApplyFanModeType
  <1>4. \/ Refused(switched) /\ coolboost' = coolboost
        \/ /\ BothWritten(toManual) /\ Commit(m) /\ SetControlMode(FALSE, "manual")
           /\ coolboost' = FALSE /\ Save(m, FALSE, "manual", save)
    BY <1>1
  <1> HIDE DEF switched
  <1>5. m \in Machine /\ m.mode = switched.mode /\ Follows(switched, m)
    BY <1>2, <1>3, ApplyCurrentType
  <1> HIDE DEF m
  <1>6. CASE Refused(switched) /\ coolboost' = coolboost
    BY <1>2, <1>3, <1>6, RefusedDone
  <1>7. CASE /\ BothWritten(toManual) /\ Commit(m) /\ SetControlMode(FALSE, "manual")
             /\ coolboost' = FALSE /\ Save(m, FALSE, "manual", save)
    <2>1. auto' = FALSE /\ preset' = "manual" /\ "manual" \in PresetNames
      BY <1>7, PresetNamesType DEF SetControlMode
    <2>2. saved' \subseteq SavedState
      BY <1>5, <1>7, <2>1, SaveType
    <2>3. Follows(Now, m)
      BY <1>3, <1>5, FollowsTrans
    <2>4. TypeOK' /\ StepKept
      BY <1>2, <1>5, <1>7, <2>1, <2>2, <2>3, CommandDone DEF TypeOK
    <2>5. \A f \in Fan : mode'[f] = "manual"
      BY <1>2, <1>3, <1>5, <1>7 DEF FanModeApplied, Commit
    <2>6. QED
      BY <1>7, <2>1, <2>4, <2>5 DEF Owned, FirmwareAuto
  <1>8. QED
    BY <1>4, <1>6, <1>7

\* coolboost on and fan-mode turbo.
LEMMA CoolBoostOnStep ==
    ASSUME TypeOK, CoolBoostOn
    PROVE  TypeOK' /\ StepKept /\ Owned
  <1>1. PICK ok \in ModeWrites, save \in Saves :
          LET m == ApplyFanMode(Now, "turbo", ok)
          IN  \/ ~BothWritten(ok) /\ Refused(m) /\ UNCHANGED coolboost
              \/ /\ BothWritten(ok)
                 /\ Commit(m)
                 /\ coolboost' = TRUE
                 /\ Save(m, auto, preset, save)
                 /\ UNCHANGED <<auto, preset>>
    BY DEF CoolBoostOn
  <1>2. FanModesAvailable /\ running' = running /\ ok \in Io /\ "turbo" \in FanMode
    BY IoType DEF CoolBoostOn, FanMode
  <1> DEFINE m == ApplyFanMode(Now, "turbo", ok)
  <1>3. /\ m \in Machine /\ Follows(Now, m)
        /\ FanModeApplied(ok) => \A f \in Fan : m.mode[f] = "turbo"
    BY <1>2, NowType, ApplyFanModeType
  <1>4. \/ Refused(m) /\ coolboost' = coolboost
        \/ /\ BothWritten(ok) /\ Commit(m) /\ coolboost' = TRUE
           /\ Save(m, auto, preset, save) /\ auto' = auto /\ preset' = preset
    BY <1>1
  <1> HIDE DEF m
  <1>5. CASE Refused(m) /\ coolboost' = coolboost
    BY <1>2, <1>3, <1>5, RefusedDone
  <1>6. CASE /\ BothWritten(ok) /\ Commit(m) /\ coolboost' = TRUE
             /\ Save(m, auto, preset, save) /\ auto' = auto /\ preset' = preset
    <2>1. auto \in BOOLEAN /\ preset \in PresetNames /\ running \in BOOLEAN
      BY DEF TypeOK
    <2>2. saved' \subseteq SavedState
      BY <1>3, <1>6, <2>1, SaveType
    <2>3. TypeOK' /\ StepKept
      BY <1>2, <1>3, <1>6, <2>1, <2>2, CommandDone
    <2>4. \A f \in Fan : mode'[f] = "turbo"
      BY <1>2, <1>3, <1>6 DEF FanModeApplied, Commit
    <2>5. QED
      BY <1>6, <2>3, <2>4 DEF Owned
  <1>7. QED
    BY <1>4, <1>5, <1>6

\* coolboost off: back to what the control mode underneath asks for.
LEMMA CoolBoostOffStep ==
    ASSUME TypeOK, CoolBoostOffCommand
    PROVE  TypeOK' /\ StepKept /\ Owned
  <1>1. PICK back \in ModeWrites, ok \in Writes, save \in Saves :
          LET m == IF FirmwareAuto THEN ApplyFanMode(Now, "auto", back)
                                   ELSE CoolBoostOff(Now, back, ok)
          IN  \/ ~BothWritten(back) /\ Refused(m) /\ UNCHANGED coolboost
              \/ /\ BothWritten(back)
                 /\ Commit(m)
                 /\ coolboost' = FALSE
                 /\ Save(m, auto, preset, save)
                 /\ UNCHANGED <<auto, preset>>
    BY DEF CoolBoostOffCommand
  <1>2. running' = running /\ back \in Io /\ ok \in Io /\ "auto" \in FanMode
    BY IoType DEF CoolBoostOffCommand, FanMode
  <1> DEFINE m == IF FirmwareAuto THEN ApplyFanMode(Now, "auto", back)
                                   ELSE CoolBoostOff(Now, back, ok)
  <1>3. m \in Machine /\ Follows(Now, m)
    BY <1>2, NowType, ApplyFanModeType, CoolBoostOffType
  <1>4. \/ Refused(m) /\ coolboost' = coolboost
        \/ /\ Commit(m) /\ coolboost' = FALSE
           /\ Save(m, auto, preset, save) /\ auto' = auto /\ preset' = preset
    BY <1>1
  <1> HIDE DEF m
  <1>5. CASE Refused(m) /\ coolboost' = coolboost
    BY <1>2, <1>3, <1>5, RefusedDone
  <1>6. CASE /\ Commit(m) /\ coolboost' = FALSE
             /\ Save(m, auto, preset, save) /\ auto' = auto /\ preset' = preset
    <2>1. auto \in BOOLEAN /\ preset \in PresetNames /\ running \in BOOLEAN
      BY DEF TypeOK
    <2>2. saved' \subseteq SavedState
      BY <1>3, <1>6, <2>1, SaveType
    <2>3. TypeOK' /\ StepKept
      BY <1>2, <1>3, <1>6, <2>1, <2>2, CommandDone
    <2>4. QED
      BY <1>6, <2>3 DEF Owned
  <1>7. QED
    BY <1>4, <1>5, <1>6

\* Saving with another setting moves nothing.
LEMMA SaveOtherStep ==
    ASSUME TypeOK, SaveWithOtherSetting
    PROVE  TypeOK' /\ StepKept /\ Owned
  <1>1. PICK save \in Saves : Save(Now, auto, preset, save)
    BY DEF SaveWithOtherSetting
  <1>2. UNCHANGED <<fan, speed, mode, auto, preset, coolboost, running>>
    BY DEF SaveWithOtherSetting
  <1>3. Now \in Machine /\ auto \in BOOLEAN /\ preset \in PresetNames
    BY NowType DEF TypeOK
  <1>4. saved' \subseteq SavedState
    BY <1>1, <1>3, SaveType
  <1>5. QED
    BY <1>2, <1>4 DEF TypeOK, StepKept, InStepKept, InStep, FloorsKept, FloorKept, Owned

\* Waking up: the init writes, then the control mode in force.
LEMMA ResumeStep ==
    ASSUME TypeOK, Resume
    PROVE  TypeOK' /\ StepKept /\ Owned
  <1>1. PICK init \in ModeWrites, back \in ModeWrites, ok \in Writes :
          LET m == ApplyInitWrites(Now, init)
          IN  \/ FirmwareAuto /\ Commit(ApplyFanMode(m, "auto", back))
              \/ ~FirmwareAuto /\ Commit(ApplyCurrentControlState(m, ok))
    BY DEF Resume
  <1>2. /\ UNCHANGED <<auto, preset, coolboost, running, saved>>
        /\ init \in Io /\ back \in Io /\ ok \in Io /\ "auto" \in FanMode
    BY IoType DEF Resume, FanMode
  <1> DEFINE m == ApplyInitWrites(Now, init)
             a == ApplyFanMode(m, "auto", back)
             c == ApplyCurrentControlState(m, ok)
  <1>3. m \in Machine /\ Follows(Now, m)
    BY <1>2, NowType, ApplyInitWritesType
  <1>4. Commit(a) \/ Commit(c)
    BY <1>1
  <1> HIDE DEF m
  <1>5. /\ a \in Machine /\ Follows(m, a)
        /\ c \in Machine /\ Follows(m, c)
    BY <1>2, <1>3, ApplyFanModeType, ApplyCurrentType
  <1> HIDE DEF a, c
  <1>6. Follows(Now, a) /\ Follows(Now, c)
    BY <1>3, <1>5, FollowsTrans
  <1>7. TypeOK' /\ StepKept
    BY <1>2, <1>4, <1>5, <1>6, CommandDone DEF TypeOK
  <1>8. QED
    BY <1>2, <1>7 DEF Owned

\* Going to sleep.
LEMMA SuspendStep ==
    ASSUME TypeOK, Suspend
    PROVE  TypeOK' /\ StepKept /\ Owned
  <1>1. /\ mode' = [f \in Fan |-> "auto"]
        /\ UNCHANGED <<fan, speed, auto, preset, coolboost, running, saved>>
    BY DEF Suspend
  <1>2. mode' \in [Fan -> FanMode]
    BY <1>1 DEF FanMode
  <1>3. QED
    BY <1>1, <1>2 DEF TypeOK, StepKept, InStepKept, InStep, FloorsKept, FloorKept, Owned

\* The state of a process that ended.
LEMMA MemoryLostType ==
    ASSUME MemoryLost
    PROVE  /\ fan' \in [Fan -> FanState] /\ auto' \in BOOLEAN /\ preset' \in PresetNames
           /\ coolboost' \in BOOLEAN /\ running' = FALSE
  <1>1. \A f \in Fan : StartState(f, 0) \in FanState
    BY StartStateType
  <1>2. fan' \in [Fan -> FanState]
    BY <1>1 DEF MemoryLost
  <1>3. QED
    BY <1>2, PresetNamesType DEF MemoryLost, SetControlMode

\* A stop with its reset writes.
LEMMA StopStep ==
    ASSUME TypeOK, Stop
    PROVE  TypeOK' /\ ~running'
  <1>1. PICK ok \in Writes, modeOk \in ModeWrites :
          /\ speed' = [f \in Fan |-> IF ok[f] THEN FanConfig[f].reset_speed ELSE speed[f]]
          /\ mode' = [f \in Fan |-> IF InitWritesModes /\ modeOk[f] THEN "auto" ELSE mode[f]]
    BY DEF Stop
  <1>2. MemoryLost /\ saved' = saved
    BY DEF Stop
  <1>3. /\ \A f \in Fan : FanConfig[f].reset_speed \in Percent
        /\ speed \in [Fan -> Percent] /\ mode \in [Fan -> FanMode] /\ "auto" \in FanMode
    BY WriteRange DEF TypeOK, FanMode
  <1>4. speed' \in [Fan -> Percent]
    BY <1>1, <1>3
  <1>5. mode' \in [Fan -> FanMode]
    BY <1>1, <1>3
  <1>6. QED
    BY <1>2, <1>4, <1>5, MemoryLostType DEF TypeOK

\* A crash.
LEMMA CrashStep ==
    ASSUME TypeOK, Crash
    PROVE  TypeOK' /\ ~running'
  <1>1. MemoryLost /\ UNCHANGED <<speed, mode, saved>>
    BY DEF Crash
  <1>2. QED
    BY <1>1, MemoryLostType DEF TypeOK

\* A start that restores a file: whatever fails, fans and names keep their types.
LEMMA RestoredType ==
    ASSUME NEW fresh \in Machine, NEW file \in SavedState, NEW toMode \in Io, NEW ok \in Io,
           NEW offMode \in Io, NEW off \in Io
    PROVE  /\ Restored(fresh, file, toMode, ok, offMode, off).m \in Machine
           /\ Restored(fresh, file, toMode, ok, offMode, off).preset \in PresetNames
  <1> DEFINE percent == [f \in Fan |-> RestoredPercent(f, file)]
             name == RestoredPreset(file)
             manual == ApplyFanMode(fresh, "manual", toMode)
             targetFans == [f \in Fan |->
                      [fresh.fan[f] EXCEPT !.percent = percent[f], !.requested = percent[f]]]
             targets == [fresh EXCEPT !.fan = targetFans]
             applied == SetInTurn(manual, percent, ok)
             named == SetInTurn(manual, Presets[name], ok)
             firmware == ApplyFanMode(targets, "auto", toMode)
             back == IF FanModeApplied(toMode) THEN name ELSE "manual"
             branch ==
                 IF file.auto THEN [m |-> applied, preset |-> "auto"]
                 ELSE IF name = "firmware-auto" THEN [m |-> firmware, preset |-> back]
                 ELSE IF name \in DOMAIN Presets THEN [m |-> named, preset |-> name]
                 ELSE [m |-> applied, preset |-> "manual"]
  <1>1. Restored(fresh, file, toMode, ok, offMode, off) =
          IF FanModesAvailable /\ branch.preset # "firmware-auto"
          THEN [branch EXCEPT !.m = CoolBoostOff(branch.m, offMode, off)]
          ELSE branch
    BY DEF Restored
  <1>2. \A f \in Fan : RestoredPercent(f, file) \in Percent
    BY WriteRange DEF RestoredPercent, Percent
  <1>3. percent \in [Fan -> Percent]
    BY <1>2
  <1>4. percent \in [Fan -> Int]
    BY <1>3 DEF Percent
  <1>5. name \in PresetNames
    BY PresetNamesType DEF RestoredPreset, SavedState
  <1> HIDE DEF percent, name
  <1>6. manual \in Machine /\ "auto" \in FanMode
    BY ApplyFanModeType DEF FanMode
  <1>7. targetFans \in [Fan -> FanState]
    <2>1. ASSUME NEW f \in Fan
          PROVE  [fresh.fan[f] EXCEPT !.percent = percent[f], !.requested = percent[f]]
                    \in FanState
      <3>1. fresh.fan[f] \in FanState /\ percent[f] \in Percent /\ "" \in Reason
        BY <1>3 DEF Machine, Reason
      <3>2. QED
        BY <3>1, TrackedType
    <2>2. QED
      BY <2>1
  <1> HIDE DEF targetFans
  <1>8. targets \in Machine
    BY <1>7 DEF Machine
  <1> HIDE DEF targets, manual
  <1>9. firmware \in Machine /\ applied \in Machine
    BY <1>4, <1>6, <1>8, ApplyFanModeType, SetInTurnType
  <1>10. name \in DOMAIN Presets => named \in Machine
    <2>1. ASSUME name \in DOMAIN Presets PROVE Presets[name] \in [Fan -> Int]
      BY <2>1, FanControlAssumption
    <2>2. QED
      BY <1>6, <2>1, SetInTurnType
  <1>11. back \in PresetNames
    BY <1>5, PresetNamesType
  <1> HIDE DEF firmware, applied, named, back
  <1>12. branch \in [m : Machine, preset : PresetNames]
    BY <1>5, <1>9, <1>10, <1>11, PresetNamesType
  <1> HIDE DEF branch
  <1>13. CoolBoostOff(branch.m, offMode, off) \in Machine
    BY <1>12, CoolBoostOffType
  <1>14. QED
    BY <1>1, <1>12, <1>13

\* A start without a file: the model's default preset.
LEMMA StartDefaultType ==
    ASSUME TypeOK, NEW fresh \in Machine, NEW toMode \in Io, NEW ok \in Io, NEW save,
           StartDefault(fresh, toMode, ok, save)
    PROVE  /\ fan' \in [Fan -> FanState] /\ speed' \in [Fan -> Percent]
           /\ mode' \in [Fan -> FanMode]
           /\ auto' \in BOOLEAN /\ preset' \in PresetNames /\ saved' \subseteq SavedState
  <1> DEFINE manual == ApplyFanMode(fresh, "manual", toMode)
             firmware == ApplyFanMode(fresh, "auto", toMode)
             m == SetInTurn(fresh, Presets[DefaultPreset], ok)
  <1>1. manual \in Machine /\ firmware \in Machine
    BY ApplyFanModeType DEF FanMode
  <1>2. DefaultPreset \in DOMAIN Presets => m \in Machine
    <2>1. ASSUME DefaultPreset \in DOMAIN Presets PROVE Presets[DefaultPreset] \in [Fan -> Int]
      BY <2>1, FanControlAssumption
    <2>2. QED
      BY <2>1, SetInTurnType
  <1> DEFINE Committed == Commit(manual) \/ Commit(firmware) \/ Commit(fresh)
                          \/ (DefaultPreset \in DOMAIN Presets /\ Commit(m))
             Chosen == \/ SetControlMode(TRUE, "auto")
                       \/ SetControlMode(FALSE, "firmware-auto")
                       \/ DefaultPreset \in DOMAIN Presets /\ SetControlMode(FALSE, DefaultPreset)
             Kept == \/ saved' = saved
                     \/ Save(fresh, TRUE, "auto", save)
                     \/ Save(fresh, FALSE, "firmware-auto", save)
                     \/ DefaultPreset \in DOMAIN Presets /\ Save(m, FALSE, DefaultPreset, save)
  <1>3. Committed /\ Chosen /\ Kept
    BY DEF StartDefault
  <1> HIDE DEF manual, firmware, m
  <1>4. /\ fan' \in [Fan -> FanState] /\ speed' \in [Fan -> Percent]
        /\ mode' \in [Fan -> FanMode]
    BY <1>1, <1>2, <1>3, CommitType
  <1>5. auto' \in BOOLEAN /\ preset' \in PresetNames
    BY <1>3, PresetNamesType DEF SetControlMode
  <1>6. saved' \subseteq SavedState
    <2>1. saved \subseteq SavedState
      BY DEF TypeOK
    <2>2. QED
      BY <1>2, <1>3, <2>1, SaveType, PresetNamesType
  <1>7. QED
    BY <1>4, <1>5, <1>6

\* A start.
LEMMA StartStep ==
    ASSUME TypeOK, Start
    PROVE  TypeOK'
  <1>1. PICK seed \in Seeds, init \in ModeWrites, toMode \in ModeWrites,
             offMode \in ModeWrites, ok \in Writes, off \in Writes, save \in Saves :
          LET powered == [Now EXCEPT !.fan = [f \in Fan |-> StartState(f, seed[f])]]
              fresh == ApplyInitWrites(powered, init)
          IN  \/ saved = {} /\ StartDefault(fresh, toMode, ok, save)
              \/ \E file \in saved :
                    LET restored == Restored(fresh, file, toMode, ok, offMode, off)
                    IN  /\ Commit(restored.m)
                        /\ SetControlMode(file.auto, restored.preset)
                        /\ UNCHANGED saved
    BY DEF Start
  <1>2. /\ init \in Io /\ toMode \in Io /\ offMode \in Io /\ ok \in Io /\ off \in Io
        /\ seed \in [Fan -> 0..129] /\ coolboost' = FALSE /\ running' = TRUE
    BY IoType, FanControlAssumption DEF Start
  <1> DEFINE started == [f \in Fan |-> StartState(f, seed[f])]
             powered == [Now EXCEPT !.fan = started]
             fresh == ApplyInitWrites(powered, init)
  <1>3. started \in [Fan -> FanState]
    <2>1. \A f \in Fan : seed[f] \in Int
      BY <1>2
    <2>2. QED
      BY <2>1, StartStateType
  <1>4. powered \in Machine
    <2> HIDE DEF started
    <2>1. QED
      BY <1>3, NowType DEF Machine
  <1>5. \/ StartDefault(fresh, toMode, ok, save)
        \/ \E file \in saved :
              LET restored == Restored(fresh, file, toMode, ok, offMode, off)
              IN  /\ Commit(restored.m)
                  /\ SetControlMode(file.auto, restored.preset)
                  /\ UNCHANGED saved
    BY <1>1
  <1> HIDE DEF powered
  <1>6. fresh \in Machine
    BY <1>2, <1>4, ApplyInitWritesType
  <1> HIDE DEF fresh
  <1>7. CASE StartDefault(fresh, toMode, ok, save)
    BY <1>2, <1>6, <1>7, StartDefaultType DEF TypeOK
  <1>8. ASSUME NEW file \in saved,
               Commit(Restored(fresh, file, toMode, ok, offMode, off).m),
               SetControlMode(file.auto, Restored(fresh, file, toMode, ok, offMode, off).preset),
               UNCHANGED saved
        PROVE  TypeOK'
    <2>1. file \in SavedState /\ file.auto \in BOOLEAN
      BY DEF TypeOK, SavedState
    <2>2. /\ Restored(fresh, file, toMode, ok, offMode, off).m \in Machine
          /\ Restored(fresh, file, toMode, ok, offMode, off).preset \in PresetNames
      BY <1>2, <1>6, <2>1, RestoredType
    <2>3. QED
      BY <1>2, <1>8, <2>1, <2>2, CommitType DEF TypeOK, SetControlMode
  <1>9. QED
    BY <1>5, <1>7, <1>8

\* One refresh: well-formed fans that kept their percentages.
LEMMA SeenType ==
    ASSUME TypeOK, NEW sample \in Observations, NEW reads \in Reads,
           NEW seen, seen = [f \in Fan |-> Observe(fan[f], reads[f], sample[f])]
    PROVE  /\ seen \in [Fan -> FanState]
           /\ \A f \in Fan : seen[f].percent = fan[f].percent
  <1>1. ASSUME NEW f \in Fan
        PROVE  fan[f] \in FanState /\ reads[f] \in BOOLEAN /\ sample[f] \in Int
    BY IoType, FanControlAssumption DEF TypeOK, Io
  <1>2. ASSUME NEW f \in Fan
        PROVE  /\ Observe(fan[f], reads[f], sample[f]) \in FanState
               /\ Observe(fan[f], reads[f], sample[f]).percent = fan[f].percent
    BY <1>1, ObserveType
  <1>3. QED
    BY <1>2

\* A poll in firmware-auto keeps the types.
LEMMA PollFirmwareType ==
    ASSUME TypeOK, NEW seen \in [Fan -> FanState], NEW forced \in Reason,
           NEW first \in Io, NEW second \in Io, NEW ok \in Io,
           PollFirmwareAuto(seen, forced, first, second, ok)
    PROVE  /\ fan' \in [Fan -> FanState] /\ speed' \in [Fan -> Percent]
           /\ mode' \in [Fan -> FanMode] /\ FloorsReached
  <1> DEFINE target == [f \in Fan |-> Target(seen[f])]
             override == {f \in Fan : SafetyAdjust(f, seen[f], target[f], forced).reason # ""}
             tracked == [f \in Fan |->
                      [seen[f] EXCEPT !.percent = Clamp(target[f], 1, 100),
                                      !.requested = Clamp(target[f], 1, 100),
                                      !.reason = ""]]
             fans == [f \in Fan |-> IF f \in override THEN seen[f] ELSE tracked[f]]
             base == [Now EXCEPT !.fan = fans]
             switched == IF override # {} THEN ApplyFanMode(base, "manual", first) ELSE base
             retried == IF override = Fan /\ ~DaemonControlApplied(first)
                        THEN ApplyFanMode(switched, "manual", second) ELSE switched
             restored == IF ShouldRestore(override)
                         THEN ApplyFanMode(retried, "auto", second) ELSE retried
             m == SetFans(restored, override, target, forced, ok)
  <1>1. Commit(m)
    BY DEF PollFirmwareAuto
  <1>2. override \in SUBSET Fan
    OBVIOUS
  <1>3. \A f \in Fan : target[f] \in Int
    BY TargetRange DEF Percent
  <1>4. target \in [Fan -> Int]
    BY <1>3
  <1>5. ASSUME NEW f \in Fan, f \notin override PROVE AboveFloor(f, fans[f])
    <2> DEFINE q == Clamp(target[f], 1, 100)
    <2>1. q >= Floor(f, seen[f])
      BY <1>3, <1>5, UnadjustedFloor DEF override
    <2>2. fans[f] = [seen[f] EXCEPT !.percent = q, !.requested = q, !.reason = ""]
      BY <1>5
    <2> HIDE DEF q, fans
    <2>3. /\ fans[f].percent = q
          /\ fans[f].temp = seen[f].temp /\ fans[f].available = seen[f].available
      <3>1. seen[f] \in FanState
        OBVIOUS
      <3>2. QED
        BY <2>2, <3>1 DEF FanState
    <2>4. Floor(f, fans[f]) = Floor(f, seen[f])
      BY <2>3, Zenon DEF Floor
    <2>5. QED
      BY <2>1, <2>3, <2>4 DEF AboveFloor
  <1> HIDE DEF target, override
  <1>6. tracked \in [Fan -> FanState]
    <2>1. ASSUME NEW f \in Fan
          PROVE  [seen[f] EXCEPT !.percent = Clamp(target[f], 1, 100),
                                 !.requested = Clamp(target[f], 1, 100),
                                 !.reason = ""] \in FanState
      <3>1. seen[f] \in FanState /\ Clamp(target[f], 1, 100) \in Percent /\ "" \in Reason
        BY <1>3, RequestRange DEF Reason
      <3>2. QED
        BY <3>1, TrackedType
    <2>2. QED
      BY <2>1
  <1> HIDE DEF tracked
  <1>7. fans \in [Fan -> FanState]
    BY <1>6
  <1> HIDE DEF fans
  <1>8. base \in Machine /\ base.fan = fans
    BY <1>7, NowType DEF Machine
  <1> HIDE DEF base
  <1>9. "manual" \in FanMode /\ "auto" \in FanMode
    BY DEF FanMode
  <1>10. switched \in Machine /\ Follows(base, switched)
    BY <1>8, <1>9, ApplyFanModeType, FollowsSame
  <1> HIDE DEF switched
  <1>11. retried \in Machine /\ Follows(switched, retried)
    BY <1>9, <1>10, ApplyFanModeType, FollowsSame
  <1> HIDE DEF retried
  <1>12. restored \in Machine /\ Follows(retried, restored)
    BY <1>9, <1>11, ApplyFanModeType, FollowsSame
  <1> HIDE DEF restored
  <1>13. /\ m \in Machine /\ Follows(restored, m)
         /\ CriticalCoversFloors => \A f \in override : AboveFloor(f, m.fan[f])
    BY <1>2, <1>4, <1>12, SetFansFacts
  <1> HIDE DEF m
  <1>14. Follows(base, m)
    BY <1>10, <1>11, <1>12, <1>13, FollowsTrans
  <1>15. ASSUME CriticalCoversFloors PROVE \A f \in Fan : AboveFloor(f, m.fan[f])
    BY <1>5, <1>8, <1>13, <1>14, <1>15, Zenon DEF Follows, FloorKept
  <1>16. FloorsReached
    BY <1>1, <1>15 DEF FloorsReached, Commit
  <1>17. QED
    BY <1>1, <1>13, <1>16, CommitType

\* A poll in the daemon's control keeps the types and every register in step:
\* a fan it skips keeps register and percentage, one it writes gets both.
LEMMA PollDaemonType ==
    ASSUME TypeOK, NEW seen \in [Fan -> FanState],
           \A f \in Fan : seen[f].percent = fan[f].percent,
           NEW forced \in Reason, NEW ok \in Io,
           PollDaemonControl(seen, forced, ok)
    PROVE  /\ fan' \in [Fan -> FanState] /\ speed' \in [Fan -> Percent]
           /\ mode' \in [Fan -> FanMode] /\ InStepKept /\ FloorsReached
  <1> DEFINE target == [f \in Fan |-> IF auto THEN AutoPercent(f, seen[f], forced)
                                              ELSE Target(seen[f])]
             changed == {f \in Fan : NeedsWrite(f, seen[f], target[f], forced)}
             fans == [f \in Fan |->
                    IF f \in changed THEN seen[f]
                    ELSE [seen[f] EXCEPT !.reason =
                             SafetyAdjust(f, seen[f], target[f], forced).reason]]
             base == [Now EXCEPT !.fan = fans]
             m == SetFans(base, changed, target, forced, ok)
  <1>1. Commit(m)
    BY DEF PollDaemonControl
  <1>2. \A f \in Fan : target[f] \in Percent
    BY TargetRange, AutoPercentRange
  <1>3. target \in [Fan -> Int]
    <2>1. \A f \in Fan : target[f] \in Int
      BY <1>2 DEF Percent
    <2>2. QED
      BY <2>1
  <1>4. changed \in SUBSET Fan
    OBVIOUS
  <1> HIDE DEF target, changed
  <1>5. ASSUME NEW f \in Fan
        PROVE  fans[f] \in FanState /\ fans[f].percent = fan[f].percent
    <2> DEFINE r == SafetyAdjust(f, seen[f], target[f], forced).reason
    <2>1. r \in Reason
      BY <1>3, AdjustType DEF Adjusted
    <2>2. fans[f] = IF f \in changed THEN seen[f] ELSE [seen[f] EXCEPT !.reason = r]
      OBVIOUS
    <2> HIDE DEF r
    <2>3. /\ [seen[f] EXCEPT !.reason = r] \in FanState
          /\ [seen[f] EXCEPT !.reason = r].percent = seen[f].percent
      <3>1. seen[f] \in FanState
        OBVIOUS
      <3>2. QED
        BY <2>1, <3>1 DEF FanState
    <2>4. QED
      BY <2>2, <2>3
  <1>6. fans \in [Fan -> FanState]
    BY <1>5
  <1>7. ASSUME CriticalCoversFloors, NEW f \in Fan, f \notin changed
        PROVE  AboveFloor(f, fans[f])
    <2> DEFINE adjusted == SafetyAdjust(f, seen[f], target[f], forced)
    <2>1. adjusted.percent >= Floor(f, seen[f]) /\ adjusted.reason \in Reason
      BY <1>3, <1>7, AdjustFloor, AdjustType DEF Adjusted
    <2>2. adjusted.percent = seen[f].percent
      BY <1>7 DEF NeedsWrite, changed
    <2>3. fans[f] = [seen[f] EXCEPT !.reason = adjusted.reason]
      BY <1>7
    <2> HIDE DEF adjusted
    <2>4. /\ fans[f].percent = seen[f].percent
          /\ fans[f].temp = seen[f].temp /\ fans[f].available = seen[f].available
      <3>1. seen[f] \in FanState
        OBVIOUS
      <3> HIDE DEF fans
      <3>2. QED
        BY <2>3, <3>1 DEF FanState
    <2> HIDE DEF fans
    <2>5. Floor(f, fans[f]) = Floor(f, seen[f])
      BY <2>4, Zenon DEF Floor
    <2>6. QED
      BY <2>1, <2>2, <2>4, <2>5 DEF AboveFloor
  <1> HIDE DEF fans
  <1>8. base \in Machine /\ base.fan = fans /\ base.speed = speed
    BY <1>6, NowType DEF Machine, Now
  <1> HIDE DEF base
  <1>9. \A f \in Fan : InStep(f) => Holds(base, f)
    BY <1>5, <1>8, Zenon DEF InStep, Holds
  <1>10. /\ m \in Machine /\ Follows(base, m)
         /\ CriticalCoversFloors => \A f \in changed : AboveFloor(f, m.fan[f])
    BY <1>3, <1>4, <1>8, SetFansFacts
  <1> HIDE DEF m
  <1>11. \A f \in Fan : InStep(f) => Holds(m, f)
    BY <1>9, <1>10, Zenon DEF Follows
  <1>12. InStepKept
    <2>1. fan' = m.fan /\ speed' = m.speed
      BY <1>1 DEF Commit
    <2>2. QED
      BY <1>11, <2>1, Zenon DEF InStepKept, Holds, InStep
  <1>13. ASSUME CriticalCoversFloors PROVE \A f \in Fan : AboveFloor(f, m.fan[f])
    BY <1>8, <1>10, <1>13, <1>7, Zenon DEF Follows, FloorKept
  <1>14. FloorsReached
    BY <1>1, <1>13 DEF FloorsReached, Commit
  <1>15. QED
    BY <1>1, <1>10, <1>12, <1>14, CommitType

\* A poll.
LEMMA PollStep ==
    ASSUME TypeOK, Poll
    PROVE  TypeOK' /\ (~FirmwareAuto => InStepKept) /\ FloorsReached /\ Owned
  <1>1. PICK sample \in Observations, reads \in Reads, ok \in Writes,
             first \in Outcomes(FirmwareAuto, ModeWrites),
             second \in Outcomes(FirmwareAuto, ModeWrites) :
             PollWith(sample, reads, first, second, ok)
    BY DEF Poll
  <1>2. ok \in Io /\ first \in Io /\ second \in Io
    BY IoType, OutcomesType
  <1>3. UNCHANGED <<auto, preset, coolboost, running, saved>>
    BY <1>1 DEF PollWith
  <1> DEFINE seen == [f \in Fan |-> Observe(fan[f], reads[f], sample[f])]
             forced == ForcedReason(seen)
  <1>4. \/ FirmwareAuto /\ PollFirmwareAuto(seen, forced, first, second, ok)
        \/ ~FirmwareAuto /\ PollDaemonControl(seen, forced, ok)
    BY <1>1 DEF PollWith
  <1>5. /\ seen \in [Fan -> FanState] /\ forced \in Reason
        /\ \A f \in Fan : seen[f].percent = fan[f].percent
    BY SeenType, ForcedReasonType
  <1> HIDE DEF seen, forced
  <1>6. /\ fan' \in [Fan -> FanState] /\ speed' \in [Fan -> Percent]
        /\ mode' \in [Fan -> FanMode] /\ FloorsReached
    BY <1>2, <1>4, <1>5, PollFirmwareType, PollDaemonType
  <1>7. ~FirmwareAuto => InStepKept
    BY <1>2, <1>4, <1>5, PollDaemonType
  <1>8. QED
    BY <1>3, <1>6, <1>7 DEF TypeOK, Owned

-----------------------------------------------------------------------------
\* The theorems

\* The machine as firmware leaves it is well formed.
LEMMA InitType == Init => TypeOK
  <1> SUFFICES ASSUME Init PROVE TypeOK
    OBVIOUS
  <1>1. fan \in [Fan -> FanState]
    BY StartStateType DEF Init
  <1>2. speed \in [Fan -> Percent] /\ mode \in [Fan -> FanMode]
    BY DEF Init, Percent, FanMode
  <1>3. QED
    BY <1>1, <1>2, PresetNamesType DEF Init, TypeOK

\* Every action keeps the types, and every step of a running daemon the floors,
\* which a poll also reaches; while the daemon keeps the fans to itself it
\* keeps registers in step, and with fan modes it owns the mode it enters.
LEMMA StepFacts ==
    ASSUME TypeOK, Next
    PROVE  /\ TypeOK'
           /\ running /\ running' /\ ~FirmwareAuto => InStepKept
           /\ running /\ running' => FloorsKept /\ (Poll => FloorsReached)
           /\ FanModesAvailable /\ running /\ running' => Owned
  <1>1. Poll => FloorsReached
    BY PollStep
  <1>2. CASE Poll
    <2>1. FloorsKept
      BY <1>1, <1>2 DEF FloorsReached, FloorsKept, FloorKept
    <2>2. QED
      BY <1>2, <2>1, PollStep
  <1>3. CASE \E S \in SetScopes, p \in SetPercents : Set(S, p)
    BY <1>1, <1>3, SetStep DEF StepKept
  <1>4. CASE \E id \in DOMAIN Presets : ApplyPreset(id)
    BY <1>1, <1>4, PresetStep DEF StepKept
  <1>5. CASE AutoMode
    BY <1>1, <1>5, AutoStep DEF StepKept
  <1>6. CASE FirmwareAutoMode
    BY <1>1, <1>6, FirmwareAutoStep DEF StepKept
  <1>7. CASE FanModeManual
    BY <1>1, <1>7, FanModeManualStep DEF StepKept
  <1>8. CASE CoolBoostOn
    BY <1>1, <1>8, CoolBoostOnStep DEF StepKept
  <1>9. CASE CoolBoostOffCommand
    BY <1>1, <1>9, CoolBoostOffStep DEF StepKept
  <1>10. CASE SaveWithOtherSetting
    BY <1>1, <1>10, SaveOtherStep DEF StepKept
  <1>11. CASE Resume
    BY <1>1, <1>11, ResumeStep DEF StepKept
  <1>12. CASE Suspend
    BY <1>1, <1>12, SuspendStep DEF StepKept
  <1>13. CASE Stop
    BY <1>1, <1>13, StopStep
  <1>14. CASE Crash
    BY <1>1, <1>14, CrashStep
  <1>15. CASE Start
    <2>1. ~running
      BY <1>15 DEF Start
    <2>2. QED
      BY <1>15, <2>1, StartStep
  <1>16. QED
    BY <1>2, <1>3, <1>4, <1>5, <1>6, <1>7, <1>8, <1>9, <1>10, <1>11, <1>12, <1>13, <1>14,
       <1>15 DEF Next

\* Every variable keeps its type, whatever writes fail and in whatever order
\* commands, polls, suspends, crashes and restarts come; the failure counters
\* stay within one of their limits (fan_state, count_read_failure).
THEOREM TypeCorrect == Spec => []TypeOK
  <1>1. Init => TypeOK
    BY InitType
  <1>2. TypeOK /\ [Next]_vars => TypeOK'
    <2>1. ASSUME TypeOK, Next PROVE TypeOK'
      BY <2>1, StepFacts
    <2>2. ASSUME TypeOK, UNCHANGED vars PROVE TypeOK'
      BY <2>2 DEF TypeOK, vars
    <2>3. QED
      BY <2>1, <2>2
  <1>3. QED
    BY <1>1, <1>2, PTL DEF Spec

\* A register that holds the reported percentage keeps doing so while the
\* daemon controls the fans, for every configuration and pattern of failing
\* writes (set_fan_percent, update_fan_states).
THEOREM RegistersStay == Spec => RegisterStaysInStep
  <1> DEFINE Step == running /\ running' /\ ~FirmwareAuto /\ ~FirmwareAuto' =>
                       \A f \in Fan : InStep(f) => InStep(f)'
  <1>1. TypeOK /\ [Next]_vars => [Step]_vars
    <2>1. ASSUME TypeOK, Next PROVE Step
      BY <2>1, StepFacts DEF InStepKept
    <2>2. QED
      BY <2>1
  <1> HIDE DEF Step
  <1>2. Spec => [][Step]_vars
    BY <1>1, TypeCorrect, PTL DEF Spec
  <1>3. QED
    BY <1>2 DEF Step, RegisterStaysInStep

\* On a model with fan modes the daemon never enters a control mode it does not
\* own the registers of, whichever of the two mode writes fail (apply_fan_mode,
\* fan_command_prepare_daemon_control and its callers).
THEOREM ControlOwned ==
    ASSUME FanModesAvailable
    PROVE  Spec => ControlIsOwned
  <1> DEFINE Step == running /\ running' =>
        /\ (<<auto, preset>> # <<auto', preset'>>) =>
              \A f \in Fan : mode'[f] = IF FirmwareAuto' THEN "auto" ELSE "manual"
        /\ (coolboost' /\ ~coolboost) => \A f \in Fan : mode'[f] = "turbo"
  <1>1. TypeOK /\ [Next]_vars => [Step]_vars
    <2>1. ASSUME TypeOK, Next PROVE Step
      BY <2>1, StepFacts DEF Owned
    <2>2. QED
      BY <2>1
  <1> HIDE DEF Step
  <1>2. Spec => [][Step]_vars
    BY <1>1, TypeCorrect, PTL DEF Spec
  <1>3. QED
    BY <1>2 DEF Step, ControlIsOwned

\* No poll leaves a fan below the floor for what is known of its temperature, and
\* nothing else takes it below: in any mode, with any request, failing writes and
\* sensors, when the critical speed covers the floors (fan_safety_adjust_percent
\* and every caller of set_fan_percent).
THEOREM FloorHeld ==
    ASSUME CriticalCoversFloors
    PROVE  Spec => MinimumSpeedHeld
  <1> DEFINE Step == running /\ running' =>
        \A f \in Fan : (AboveFloor(f, fan[f]) \/ Poll) => AboveFloor(f, fan'[f])
  <1>1. TypeOK /\ [Next]_vars => [Step]_vars
    <2>1. ASSUME TypeOK, Next PROVE Step
      <3>1. running /\ running' => FloorsKept /\ (Poll => FloorsReached)
        BY <2>1, StepFacts
      <3>2. QED
        BY <3>1 DEF FloorsKept, FloorKept, FloorsReached
    <2>2. QED
      BY <2>1
  <1> HIDE DEF Step
  <1>2. Spec => [][Step]_vars
    BY <1>1, TypeCorrect, PTL DEF Spec
  <1>3. QED
    BY <1>2 DEF Step, MinimumSpeedHeld

-----------------------------------------------------------------------------
\* The ramp

\* Without a forced reason automatic mode asks for at most one step more.
LEMMA RampTarget ==
    ASSUME NEW f \in Fan, NEW s \in FanState, s.temp > 0,
           Safety.ramp_up_percent # 0, ~RampBypassed(s)
    PROVE  AutoPercent(f, s, "") <= Target(s) + Safety.ramp_up_percent
  <1> DEFINE t == Target(s)
             c == CurveSpeed(f, s.temp, t)
             step == Safety.ramp_up_percent
  <1>1. t \in Percent /\ c \in Percent /\ step \in Percent /\ step # 0
    <2>1. t \in Percent /\ s.temp \in Int
      BY TargetRange, FanStateFields
    <2>2. QED
      BY <2>1, CurveSpeedRange, SafetyRanges DEF Percent
  <1>2. AutoPercent(f, s, "") = AutoRamped(s, c, "")
    BY DEF AutoPercent
  <1>3. \/ c <= t /\ AutoRamped(s, c, "") = c
        \/ ~(c <= t) /\ AutoRamped(s, c, "") = Clamp(t + step, 1, c)
    BY DEF AutoRamped, RampBypassed
  <1> HIDE DEF t, c, step
  <1>4. \A u, v, w \in Percent : w # 0 =>
          (v <= u => v <= u + w) /\ (~(v <= u) => Clamp(u + w, 1, v) <= u + w)
    BY DEF Percent, Clamp
  <1>5. AutoPercent(f, s, "") <= t + step
    BY <1>1, <1>2, <1>3, <1>4
  <1>6. QED
    BY <1>5 DEF t, step

\* What a write, whether it succeeds or not, makes of the request and the reason.
LEMMA WriteOutcome ==
    ASSUME NEW f \in Fan, NEW s \in FanState, NEW requested \in Int, NEW forced \in Reason,
           NEW ok \in BOOLEAN
    PROVE  LET n == SetFanState(f, s, requested, forced, ok)
           IN  /\ n.temp = s.temp /\ n.available = s.available
               /\ \/ /\ n.requested = Clamp(requested, 1, 100)
                     /\ n.reason = SafetyAdjust(f, s, requested, forced).reason
                  \/ n.requested = s.requested /\ n.reason = "ec-write-failure"
  <1> DEFINE n == SetFanState(f, s, requested, forced, ok)
             q == Clamp(requested, 1, 100)
             p == SafetyAdjust(f, s, requested, forced).percent
             r == SafetyAdjust(f, s, requested, forced).reason
  <1>1. q \in Percent /\ p \in Percent /\ r \in Reason
    BY RequestRange, AdjustType DEF Adjusted
  <1>2. CASE ok
    <2>1. n = Written(s, q, p, r)
      BY <1>2 DEF SetFanState, Written
    <2> HIDE DEF n, q, p, r
    <2>2. n.requested = q /\ n.reason = r /\ n.temp = s.temp /\ n.available = s.available
      BY <1>1, <2>1, RecordedWrite
    <2>3. QED
      BY <2>2 DEF n, q, r
  <1>3. CASE ~ok
    <2>1. n = NotWritten(s)
      BY <1>3 DEF SetFanState, NotWritten
    <2>2. NotWritten(s).reason = "ec-write-failure"
      BY DEF NotWritten, FanState
    <2> HIDE DEF n
    <2>3. n.requested = s.requested /\ n.temp = s.temp /\ n.available = s.available
      BY <2>1, RecordedFailure
    <2>4. QED
      BY <2>1, <2>2, <2>3 DEF n
  <1>4. QED
    BY <1>2, <1>3

\* Temperatures are ordered.
LEMMA TempPositive == ASSUME NEW s \in FanState, ~(s.temp <= 0) PROVE s.temp > 0
  BY FanStateFields

\* A request no higher than the old one or than one step above the target.
LEMMA RampedRequest ==
    ASSUME NEW s \in FanState, NEW q \in Int, Safety.ramp_up_percent # 0,
           q <= Target(s) + Safety.ramp_up_percent, NEW v, v \in {Clamp(q, 1, 100), s.requested}
    PROVE  v <= Target(s) + Safety.ramp_up_percent
  <1>1. Target(s) \in Percent /\ s.requested \in Percent
    BY TargetRange, FanStateFields
  <1>2. s.requested <= Target(s)
    BY <1>1, FanStateFields DEF Target, Percent
  <1>3. Safety.ramp_up_percent \in Int /\ Safety.ramp_up_percent >= 1
    BY SafetyRanges
  <1>4. QED
    BY <1>1, <1>2, <1>3 DEF Percent, Clamp

\* A poll in automatic mode raises no request by more than a step.
LEMMA RampPoll ==
    ASSUME TypeOK, auto, NEW seen \in [Fan -> FanState], NEW forced \in Reason, NEW ok \in Io,
           PollDaemonControl(seen, forced, ok), NEW f \in Fan
    PROVE  \/ fan'[f].reason # ""
           \/ fan'[f].temp <= 0
           \/ Safety.ramp_up_percent = 0
           \/ RampBypassed(fan'[f])
           \/ fan'[f].requested <= Target(seen[f]) + Safety.ramp_up_percent
  <1> DEFINE target == [g \in Fan |-> IF auto THEN AutoPercent(g, seen[g], forced)
                                              ELSE Target(seen[g])]
             changed == {g \in Fan : NeedsWrite(g, seen[g], target[g], forced)}
             fans == [g \in Fan |->
                    IF g \in changed THEN seen[g]
                    ELSE [seen[g] EXCEPT !.reason =
                             SafetyAdjust(g, seen[g], target[g], forced).reason]]
             base == [Now EXCEPT !.fan = fans]
             m == SetFans(base, changed, target, forced, ok)
             s == seen[f]
             q == target[f]
             r == SafetyAdjust(f, s, q, forced).reason
             n == fan'[f]
  <1>1. fan' = m.fan
    BY DEF PollDaemonControl, Commit
  <1>2. s \in FanState /\ ok[f] \in BOOLEAN /\ q = AutoPercent(f, s, forced)
    BY DEF Io
  <1>3. q \in Int
    BY <1>2, AutoPercentRange DEF Percent
  <1> HIDE DEF target, changed
  <1>4. n = IF f \in changed THEN SetFanState(f, s, q, forced, ok[f])
                             ELSE [s EXCEPT !.reason = r]
    BY <1>1 DEF SetFans
  <1> HIDE DEF m, base, fans, s, q, n
  <1>5. r \in Reason /\ (forced # "" => r = forced)
    <2>1. r \in Reason
      BY <1>2, <1>3, AdjustType DEF Adjusted
    <2>2. forced # "" => r = forced
      BY DEF SafetyAdjust
    <2>3. QED
      BY <2>1, <2>2
  <1> HIDE DEF r
  <1>6. /\ n.temp = s.temp /\ n.available = s.available
        /\ \/ n.requested = Clamp(q, 1, 100) /\ n.reason = r
           \/ n.requested = s.requested /\ n.reason \in {r, "ec-write-failure"}
    <2>1. CASE f \in changed
      BY <1>2, <1>3, <1>4, <2>1, WriteOutcome DEF r
    <2>2. CASE f \notin changed
      <3>1. n = [s EXCEPT !.reason = r]
        BY <1>4, <2>2
      <3>2. QED
        BY <1>2, <1>5, <3>1 DEF FanState
    <2>3. QED
      BY <2>1, <2>2
  <1>7. ASSUME n.reason = "", ~(n.temp <= 0), Safety.ramp_up_percent # 0, ~RampBypassed(n)
        PROVE  n.requested <= Target(s) + Safety.ramp_up_percent
    <2>1. forced = ""
      BY <1>5, <1>6, <1>7
    <2>2. ~RampBypassed(s) /\ ~(s.temp <= 0)
      BY <1>6, <1>7 DEF RampBypassed
    <2>3. s.temp > 0
      BY <1>2, <2>2, TempPositive
    <2>4. q <= Target(s) + Safety.ramp_up_percent
      BY <1>2, <1>7, <2>1, <2>2, <2>3, RampTarget
    <2>5. QED
      BY <1>2, <1>3, <1>6, <1>7, <2>4, RampedRequest
  <1>8. QED
    BY <1>7 DEF n, s

LEMMA RampStep ==
    ASSUME TypeOK, auto, Poll, NEW f \in Fan
    PROVE  \/ fan'[f].reason # ""
           \/ fan'[f].temp <= 0
           \/ Safety.ramp_up_percent = 0
           \/ RampBypassed(fan'[f])
           \/ fan'[f].requested <= Target(fan[f]) + Safety.ramp_up_percent
  <1>1. PICK sample \in Observations, reads \in Reads, ok \in Writes,
             first \in Outcomes(FirmwareAuto, ModeWrites),
             second \in Outcomes(FirmwareAuto, ModeWrites) :
             PollWith(sample, reads, first, second, ok)
    BY DEF Poll
  <1> DEFINE seen == [g \in Fan |-> Observe(fan[g], reads[g], sample[g])]
             forced == ForcedReason(seen)
  <1>2. PollDaemonControl(seen, forced, ok)
    BY <1>1 DEF PollWith, FirmwareAuto
  <1>3. seen \in [Fan -> FanState] /\ forced \in Reason /\ ok \in Io
    BY SeenType, ForcedReasonType, IoType
  <1>4. Target(seen[f]) = Target(fan[f])
    <2>1. fan[f] \in FanState /\ reads[f] \in BOOLEAN /\ sample[f] \in Int
      BY IoType, FanControlAssumption DEF TypeOK, Io
    <2>2. seen[f].percent = fan[f].percent /\ seen[f].requested = fan[f].requested
      BY <2>1, ObserveType
    <2>3. QED
      BY <2>2 DEF Target
  <1> HIDE DEF seen, forced
  <1>5. QED
    BY <1>2, <1>3, <1>4, RampPoll

\* No poll of automatic mode raises a request by more than a ramp step unless a
\* safety reason, a missing temperature or the bypass temperature calls for it,
\* for every configuration and whatever writes fail (auto_ramped_percent, the
\* automatic branch of update_fan_states).
THEOREM RampHeld == Spec => RampBounded
  <1>1. TypeOK =>
          (auto /\ auto' /\ Poll =>
            \A f \in Fan :
                \/ fan'[f].reason # ""
                \/ fan'[f].temp <= 0
                \/ Safety.ramp_up_percent = 0
                \/ RampBypassed(fan'[f])
                \/ fan'[f].requested <= Target(fan[f]) + Safety.ramp_up_percent)
    BY RampStep
  <1>2. QED
    BY <1>1, TypeCorrect, PTL DEF Spec, RampBounded
=============================================================================
