--------------------------- MODULE FanPolicyLemmas ---------------------------
(***************************************************************************)
(* Facts about the operators of FanPolicy: what they return for every      *)
(* configuration the parser accepts and every state a fan can be in.       *)
(***************************************************************************)
EXTENDS FanPolicy, TLAPS

Adjusted == [percent : Percent, reason : Reason]

-----------------------------------------------------------------------------
\* Ranges

\* clamp_int returns a value between its bounds.
LEMMA ClampRange ==
    ASSUME NEW v \in Int, NEW lo \in Int, NEW hi \in Int, lo <= hi
    PROVE  Clamp(v, lo, hi) \in lo..hi
  BY DEF Clamp

\* The limits of a fan's write range are percentages, in order.
LEMMA WriteRange ==
    ASSUME NEW f \in Fan
    PROVE  /\ FanConfig[f].write_min \in Percent
           /\ FanConfig[f].write_max \in Percent
           /\ FanConfig[f].write_min <= FanConfig[f].write_max
           /\ FanConfig[f].reset_speed \in Percent
           /\ FanConfig[f].missing_speed_percent \in Percent
           /\ FanConfig[f].curve \in Seq(Threshold)
           /\ Len(FanConfig[f].curve) > 0
  <1>1. FanConfig[f] \in [write_min : Percent, write_max : Percent, reset_speed : Percent,
                          missing_speed_percent : Percent, curve : Seq(Threshold)]
    BY FanConfigAssumption
  <1>2. /\ FanConfig[f].write_min < FanConfig[f].write_max
        /\ Len(FanConfig[f].curve) > 0
    BY FanConfigAssumption
  <1>3. FanConfig[f].write_min \in Percent /\ FanConfig[f].write_max \in Percent
    BY <1>1
  <1>4. \A a, b \in Percent : a < b => a <= b
    BY DEF Percent
  <1>5. FanConfig[f].write_min <= FanConfig[f].write_max
    BY <1>2, <1>3, <1>4, Zenon
  <1>6. QED
    BY <1>1, <1>2, <1>3, <1>5

\* The numbers of the safety policy, for the solver.
LEMMA SafetyRanges ==
    /\ Safety.min_speed_percent \in 1..100
    /\ Safety.min_speed_temperature \in 1..130
    /\ Safety.critical_speed_percent \in 1..100
    /\ Safety.critical_full_speed \in BOOLEAN
    /\ Safety.critical_step_percent \in 1..100
    /\ Safety.critical_samples \in 1..10
    /\ Safety.critical_release \in -4..130
    /\ Safety.ramp_up_percent \in 0..100
    /\ Safety.ramp_bypass_temperature \in 0..130
    /\ Safety.missing_speed_percent \in 1..100
    /\ Safety.max_read_failures \in 1..100
    /\ Safety.max_write_failures \in 1..100
    /\ CriticalTemperature \in 1..130
  BY SafetyAssumption

\* The fields of a fan's state.
LEMMA FanStateFields ==
    ASSUME NEW s \in FanState
    PROVE  /\ s.percent \in Percent /\ s.requested \in Percent
           /\ s.temp \in Int /\ s.available \in BOOLEAN
           /\ s.seeded \in BOOLEAN /\ s.pending \in Int
           /\ s.critical \in 0..Safety.critical_samples
           /\ s.read_failures \in 0..(Safety.max_read_failures + 1)
           /\ s.write_failures \in 0..(Safety.max_write_failures + 1)
           /\ s.reason \in Reason
  BY DEF FanState

\* A clamped speed is a percentage within the fan's write range.
LEMMA ClampWriteRange ==
    ASSUME NEW f \in Fan, NEW p \in Int
    PROVE  /\ ClampWrite(f, p) \in Percent
           /\ ClampWrite(f, p) \in FanConfig[f].write_min .. FanConfig[f].write_max
  <1>1. \A lo, hi \in Percent :
           lo <= hi => Clamp(p, lo, hi) \in Percent /\ Clamp(p, lo, hi) \in lo..hi
    BY DEF Clamp, Percent
  <1>2. QED
    BY <1>1, WriteRange DEF ClampWrite

\* What a fan is asked to run at is a percentage.
LEMMA TargetRange ==
    ASSUME NEW s \in FanState
    PROVE  Target(s) \in Percent
  BY FanStateFields DEF Target

\* The speed for a missing temperature is a percentage.
LEMMA MissingRange ==
    ASSUME NEW f \in Fan
    PROVE  MissingPercent(f) \in Percent
  BY WriteRange, SafetyRanges DEF MissingPercent, Percent

\* A request is brought into 1..100 before anything is made of it.
LEMMA RequestRange ==
    ASSUME NEW p \in Int
    PROVE  Clamp(p, 1, 100) \in Percent /\ Clamp(p, 1, 100) \in 1..100
  BY DEF Clamp, Percent

\* So is the critical speed, whatever the reason for it.
LEMMA CriticalRange ==
    ASSUME NEW f \in Fan, NEW p \in Int, NEW reason
    PROVE  CriticalPercent(f, p, reason) \in Percent
  BY ClampWriteRange, SafetyRanges DEF CriticalPercent

\* fan_safety_adjust_percent returns a percentage and a known reason.
LEMMA AdjustType ==
    ASSUME NEW f \in Fan, NEW s \in FanState, NEW requested \in Int, NEW forced \in Reason
    PROVE  SafetyAdjust(f, s, requested, forced) \in Adjusted
  <1> DEFINE p == Clamp(requested, 1, 100)
  <1>1. p \in Percent /\ p \in Int
    BY RequestRange DEF Percent
  <1>2. \A reason \in Reason :
           [percent |-> CriticalPercent(f, p, reason), reason |-> reason] \in Adjusted
    BY <1>1, CriticalRange DEF Adjusted
  <1>3. MissingPercent(f) \in Percent /\ ClampWrite(f, p) \in Percent
        /\ ClampWrite(f, Safety.min_speed_percent) \in Percent
    BY <1>1, MissingRange, ClampWriteRange, SafetyRanges
  <1>4. {"", "ec-write-failure", "critical-temperature", "temperature-unknown",
         "minimum-safe-speed"} \subseteq Reason
    BY DEF Reason
  <1> HIDE DEF p
  <1>5. \A v \in Percent, reason \in Reason : [percent |-> v, reason |-> reason] \in Adjusted
    BY DEF Adjusted
  <1>6. SafetyAdjust(f, s, requested, forced) \in
          { [percent |-> CriticalPercent(f, p, forced), reason |-> forced],
            [percent |-> CriticalPercent(f, p, "ec-write-failure"),
             reason |-> "ec-write-failure"],
            [percent |-> CriticalPercent(f, p, "critical-temperature"),
             reason |-> "critical-temperature"],
            [percent |-> MissingPercent(f), reason |-> "temperature-unknown"],
            [percent |-> ClampWrite(f, Safety.min_speed_percent),
             reason |-> "minimum-safe-speed"],
            [percent |-> p, reason |-> ""],
            [percent |-> ClampWrite(f, p), reason |-> ""] }
    BY DEF SafetyAdjust, p
  <1>7. QED
    BY <1>1, <1>2, <1>3, <1>4, <1>5, <1>6

-----------------------------------------------------------------------------
\* Automatic mode

\* The curve's speeds are percentages, and so is a held one.
LEMMA CurveSpeedRange ==
    ASSUME NEW f \in Fan, NEW temp \in Int, NEW current \in Percent
    PROVE  CurveSpeed(f, temp, current) \in Percent
  <1> DEFINE curve == FanConfig[f].curve
             IsLast(i) == temp >= curve[i].up
                          /\ \A j \in DOMAIN curve : temp >= curve[j].up => j <= i
             selected == IF \E i \in DOMAIN curve : IsLast(i)
                         THEN curve[CHOOSE i \in DOMAIN curve : IsLast(i)].speed
                         ELSE curve[1].speed
  <1>1. curve \in Seq(Threshold) /\ Len(curve) > 0
    BY WriteRange
  <1>2. \A i \in DOMAIN curve : curve[i] \in Threshold
    BY <1>1
  <1>3. \A i \in DOMAIN curve : curve[i].speed \in Percent
    BY <1>2 DEF Threshold
  <1>4. 1 \in DOMAIN curve
    BY <1>1
  <1>5. ASSUME \E i \in DOMAIN curve : IsLast(i)
        PROVE  (CHOOSE i \in DOMAIN curve : IsLast(i)) \in DOMAIN curve
    BY <1>5, Zenon
  <1>6. selected \in Percent
    <2>1. CASE \E i \in DOMAIN curve : IsLast(i)
      <3> HIDE DEF curve, IsLast
      <3>1. QED
        BY <2>1, <1>3, <1>5
    <2>2. CASE ~ \E i \in DOMAIN curve : IsLast(i)
      <3> HIDE DEF curve, IsLast
      <3>1. QED
        BY <2>2, <1>3, <1>4
    <2>3. QED
      BY <2>1, <2>2
  <1>7. CurveSpeed(f, temp, current) \in {current, selected}
    BY DEF CurveSpeed
  <1>8. QED
    BY <1>6, <1>7

\* The ramp limiter stays within the percentages.
LEMMA AutoRampedRange ==
    ASSUME NEW s \in FanState, NEW target \in Percent, NEW forced \in Reason
    PROVE  AutoRamped(s, target, forced) \in Percent
  <1>1. Target(s) \in Percent
    BY TargetRange
  <1>2. target > Target(s) => Clamp(Target(s) + Safety.ramp_up_percent, 1, target) \in Percent
    <2>1. Safety.ramp_up_percent \in Percent
      BY SafetyRanges DEF Percent
    <2>2. \A t, u, r \in Percent : t > u => Clamp(u + r, 1, t) \in Percent
      BY DEF Clamp, Percent
    <2>3. QED
      BY <1>1, <2>1, <2>2
  <1>3. \/ AutoRamped(s, target, forced) = target
        \/ /\ ~(target <= Target(s))
           /\ AutoRamped(s, target, forced)
                = Clamp(Target(s) + Safety.ramp_up_percent, 1, target)
    BY DEF AutoRamped
  <1>4. ~(target <= Target(s)) => target > Target(s)
    BY <1>1 DEF Percent
  <1>5. QED
    BY <1>2, <1>3, <1>4

\* Automatic mode asks for a percentage.
LEMMA AutoPercentRange ==
    ASSUME NEW f \in Fan, NEW s \in FanState, NEW forced \in Reason
    PROVE  AutoPercent(f, s, forced) \in Percent
  <1>1. Target(s) \in Percent /\ s.temp \in Int
    BY TargetRange, FanStateFields
  <1>2. AutoRamped(s, CurveSpeed(f, s.temp, Target(s)), forced) \in Percent
    BY <1>1, CurveSpeedRange, AutoRampedRange
  <1>3. QED
    BY <1>1, <1>2, WriteRange DEF AutoPercent

-----------------------------------------------------------------------------
\* Observation

\* The filter returns a temperature it was given, the one it had, or -1.
LEMMA FilterTempType ==
    ASSUME NEW s \in FanState, NEW sample \in Int
    PROVE  FilterTemp(s, sample) \in [temp : Int, pending : Int]
  BY FanStateFields DEF FilterTemp

\* A refresh keeps a fan's state well formed and leaves its percentages, write
\* failures and reason alone.
LEMMA ObserveType ==
    ASSUME NEW s \in FanState, NEW ok \in BOOLEAN, NEW sample \in Int
    PROVE  /\ Observe(s, ok, sample) \in FanState
           /\ Observe(s, ok, sample).percent = s.percent
           /\ Observe(s, ok, sample).requested = s.requested
           /\ Observe(s, ok, sample).write_failures = s.write_failures
           /\ Observe(s, ok, sample).reason = s.reason
  <1> DEFINE Kept(t) == /\ t \in FanState
                        /\ t.percent = s.percent
                        /\ t.requested = s.requested
                        /\ t.write_failures = s.write_failures
                        /\ t.reason = s.reason
             r == CountRead(s, ok)
             o == ObserveTemp(r, sample)
  <1>1. Kept(r)
    BY SafetyRanges DEF CountRead, FanState
  <1> HIDE DEF r
  <1>2. Kept(o)
    <2>1. FilterTemp(r, sample) \in [temp : Int, pending : Int]
      BY <1>1, FilterTempType
    <2> DEFINE filtered == FilterTemp(r, sample)
    <2>2. filtered.temp \in Int /\ filtered.pending \in Int
      BY <2>1
    <2> HIDE DEF filtered
    <2> DEFINE kept == IF r.temp <= 0 THEN -1 ELSE r.temp
               t == filtered.temp
               p == filtered.pending
    <2>3. kept \in Int /\ t \in Int /\ p \in Int
      BY <1>1, <2>2 DEF FanState
    <2>4. o \in { [r EXCEPT !.available = FALSE, !.temp = kept],
                  [r EXCEPT !.available = FALSE, !.temp = kept, !.pending = p],
                  [r EXCEPT !.available = TRUE, !.seeded = TRUE, !.temp = t, !.pending = p] }
      BY DEF ObserveTemp, filtered
    <2> HIDE DEF o, kept, t, p
    <2>5. Kept([r EXCEPT !.available = FALSE, !.temp = kept])
      BY <1>1, <2>3 DEF FanState
    <2>6. Kept([r EXCEPT !.available = FALSE, !.temp = kept, !.pending = p])
      BY <1>1, <2>3 DEF FanState
    <2>7. Kept([r EXCEPT !.available = TRUE, !.seeded = TRUE, !.temp = t, !.pending = p])
      BY <1>1, <2>3 DEF FanState
    <2>8. QED
      BY <2>4, <2>5, <2>6, <2>7
  <1> HIDE DEF o
  <1>3. Kept(CountCritical(o))
    BY <1>2, SafetyRanges DEF CountCritical, FanState
  <1>4. Observe(s, ok, sample) = CountCritical(o)
    BY DEF Observe, o, r
  <1>5. QED
    BY <1>3, <1>4

\* The reason a poll forces is one of the known ones.
LEMMA ForcedReasonType == ASSUME NEW fans PROVE ForcedReason(fans) \in Reason
  BY DEF ForcedReason, Reason

\* And so is the one commands force.
LEMMA GlobalReasonType == ASSUME NEW fans PROVE GlobalReason(fans) \in Reason
  BY DEF GlobalReason, Reason

-----------------------------------------------------------------------------
\* Writing one fan

\* The register gets a percentage.
LEMMA WrittenSpeedRange ==
    ASSUME NEW f \in Fan, NEW s \in FanState, NEW requested \in Int, NEW forced \in Reason
    PROVE  WrittenSpeed(f, s, requested, forced) \in Percent
  <1>1. SafetyAdjust(f, s, requested, forced).percent \in Percent
    BY AdjustType DEF Adjusted
  <1>2. \A p \in Percent : p \in Int
    BY DEF Percent
  <1>3. QED
    BY <1>1, <1>2, ClampWriteRange DEF WrittenSpeed

\* The two ways set_fan_percent changes a fan's state.
Written(s, q, p, r) ==
    [s EXCEPT !.write_failures = 0, !.requested = q, !.percent = p, !.reason = r]

NotWritten(s) ==
    [s EXCEPT !.write_failures = IF @ < Safety.max_write_failures + 1 THEN @ + 1 ELSE @,
              !.reason = "ec-write-failure"]

\* A successful write records the percentage, the request and the reason, and
\* leaves what is known of the temperature alone.
LEMMA RecordedWrite ==
    ASSUME NEW s \in FanState, NEW q \in Percent, NEW p \in Percent, NEW r \in Reason
    PROVE  /\ Written(s, q, p, r) \in FanState
           /\ Written(s, q, p, r).percent = p
           /\ Written(s, q, p, r).requested = q
           /\ Written(s, q, p, r).write_failures = 0
           /\ Written(s, q, p, r).reason = r
           /\ Written(s, q, p, r).temp = s.temp
           /\ Written(s, q, p, r).available = s.available
  <1>1. 0 \in 0..(Safety.max_write_failures + 1)
    BY SafetyRanges
  <1>2. Written(s, q, p, r) \in FanState
    BY <1>1 DEF FanState, Written
  <1>3. Written(s, q, p, r).percent = p /\ Written(s, q, p, r).write_failures = 0
    BY DEF FanState, Written
  <1>4. Written(s, q, p, r).requested = q /\ Written(s, q, p, r).reason = r
    BY DEF FanState, Written
  <1>5. /\ Written(s, q, p, r).temp = s.temp
        /\ Written(s, q, p, r).available = s.available
    BY DEF FanState, Written
  <1>6. QED
    BY <1>2, <1>3, <1>4, <1>5

\* A failed write changes only the failure count and the reason.
LEMMA RecordedFailure ==
    ASSUME NEW s \in FanState
    PROVE  /\ NotWritten(s) \in FanState
           /\ NotWritten(s).percent = s.percent
           /\ NotWritten(s).requested = s.requested
           /\ NotWritten(s).write_failures > 0
           /\ NotWritten(s).temp = s.temp
           /\ NotWritten(s).available = s.available
  <1> DEFINE n == IF s.write_failures < Safety.max_write_failures + 1
                  THEN s.write_failures + 1 ELSE s.write_failures
             r == "ec-write-failure"
             t == [s EXCEPT !.write_failures = n, !.reason = r]
  <1>1. n \in 0..(Safety.max_write_failures + 1) /\ n > 0
    BY FanStateFields, SafetyRanges
  <1>2. r \in Reason
    BY DEF Reason
  <1>3. NotWritten(s) = t
    BY DEF NotWritten
  <1> HIDE DEF n, r
  <1>4. t \in FanState
    BY <1>1, <1>2 DEF FanState
  <1>5. t.percent = s.percent /\ t.requested = s.requested /\ t.write_failures = n
    BY DEF FanState
  <1>6. t.temp = s.temp /\ t.available = s.available
    BY DEF FanState
  <1> HIDE DEF t
  <1>7. QED
    BY <1>1, <1>3, <1>4, <1>5, <1>6

\* set_fan_percent keeps a fan's state well formed; a failed write leaves the
\* percentage and the request as they were.
LEMMA SetFanStateType ==
    ASSUME NEW f \in Fan, NEW s \in FanState, NEW requested \in Int,
           NEW forced \in Reason, NEW ok \in BOOLEAN
    PROVE  /\ SetFanState(f, s, requested, forced, ok) \in FanState
           /\ ok => SetFanState(f, s, requested, forced, ok).percent
                       = SafetyAdjust(f, s, requested, forced).percent
           /\ ~ok => SetFanState(f, s, requested, forced, ok).percent = s.percent
  <1> DEFINE q == Clamp(requested, 1, 100)
             p == SafetyAdjust(f, s, requested, forced).percent
             r == SafetyAdjust(f, s, requested, forced).reason
  <1>1. q \in Percent /\ p \in Percent /\ r \in Reason
    BY RequestRange, AdjustType DEF Adjusted
  <1>2. ok => SetFanState(f, s, requested, forced, ok) = Written(s, q, p, r)
    BY DEF SetFanState, Written
  <1>3. ~ok => SetFanState(f, s, requested, forced, ok) = NotWritten(s)
    BY DEF SetFanState, NotWritten
  <1> HIDE DEF q, r
  <1>4. Written(s, q, p, r) \in FanState /\ Written(s, q, p, r).percent = p
    BY <1>1, RecordedWrite
  <1>5. NotWritten(s) \in FanState /\ NotWritten(s).percent = s.percent
    BY RecordedFailure
  <1>6. QED
    BY <1>2, <1>3, <1>4, <1>5

\* A fan starts in a well-formed state, whatever the temperature cache held.
LEMMA StartStateType ==
    ASSUME NEW f \in Fan, NEW seed \in Int
    PROVE  StartState(f, seed) \in FanState
  <1>1. FanConfig[f].reset_speed \in Percent
    BY WriteRange
  <1> DEFINE r == FanConfig[f].reset_speed
             b == seed > 0
  <1>2. b \in BOOLEAN
    OBVIOUS
  <1>3. StartState(f, seed) =
          [percent |-> r, requested |-> r, temp |-> seed, available |-> FALSE, seeded |-> b,
           pending |-> 0, critical |-> 0, read_failures |-> 0, write_failures |-> 0, reason |-> ""]
    BY DEF StartState
  <1> HIDE DEF r, b
  <1>4. r \in Percent
    BY <1>1 DEF r
  <1>5. /\ 0 \in 0..Safety.critical_samples /\ 0 \in 0..(Safety.max_read_failures + 1)
        /\ 0 \in 0..(Safety.max_write_failures + 1) /\ "" \in Reason
    BY SafetyRanges DEF Reason
  <1> DEFINE t == [percent |-> r, requested |-> r, temp |-> seed, available |-> FALSE,
                   seeded |-> b, pending |-> 0, critical |-> 0, read_failures |-> 0,
                   write_failures |-> 0, reason |-> ""]
  <1>6. t \in FanState
    <2> DEFINE C == 0..Safety.critical_samples
               R == 0..(Safety.max_read_failures + 1)
               W == 0..(Safety.max_write_failures + 1)
               z == 0
               e == ""
               no == FALSE
    <2>1. z \in C /\ z \in R /\ z \in W /\ e \in Reason
      BY <1>5
    <2>2. no \in BOOLEAN /\ z \in Int
      OBVIOUS
    <2>3. FanState = [percent : Percent, requested : Percent, temp : Int, available : BOOLEAN,
                      seeded : BOOLEAN, pending : Int, critical : C, read_failures : R,
                      write_failures : W, reason : Reason]
      BY DEF FanState
    <2>4. t = [percent |-> r, requested |-> r, temp |-> seed, available |-> no,
               seeded |-> b, pending |-> z, critical |-> z, read_failures |-> z,
               write_failures |-> z, reason |-> e]
      OBVIOUS
    <2> HIDE DEF C, R, W, z, e, no, t
    <2>5. QED
      BY <1>2, <1>4, <2>2, <2>1, <2>3, <2>4
  <1>7. QED
    BY <1>3, <1>6

\* Recording a percentage nothing was written for, and a reason.
LEMMA TrackedType ==
    ASSUME NEW s \in FanState, NEW q \in Percent, NEW r \in Reason
    PROVE  /\ [s EXCEPT !.percent = q, !.requested = q, !.reason = r] \in FanState
           /\ [s EXCEPT !.percent = q, !.requested = q] \in FanState
           /\ [s EXCEPT !.reason = r] \in FanState
           /\ [s EXCEPT !.reason = r].percent = s.percent
  <1>1. [s EXCEPT !.percent = q, !.requested = q, !.reason = r] \in FanState
    BY DEF FanState
  <1>2. [s EXCEPT !.percent = q, !.requested = q] \in FanState
    BY DEF FanState
  <1>3. [s EXCEPT !.reason = r] \in FanState /\ [s EXCEPT !.reason = r].percent = s.percent
    BY DEF FanState
  <1>4. QED
    BY <1>1, <1>2, <1>3
=============================================================================
