------------------------------ MODULE FanPolicy ------------------------------
(***************************************************************************)
(* The pure part of the fan controller: what the daemon computes from one  *)
(* fan's state, without touching the embedded controller (EC).  Every      *)
(* operator is a function of the source: the curve and its hysteresis, the *)
(* ramp limiter, the safety policy, the temperature spike filter and the   *)
(* bookkeeping of one sensor refresh.                                      *)
(*                                                                         *)
(* A fan's state is a record with the fields of fan_state that control     *)
(* decisions read.  Fields that only reach status output (rpm, write_value,*)
(* the component temperature and its own filter) are left out; the pair    *)
(* (safety_active, safety_reason) is the one field reason, "" when safety  *)
(* is not active.                                                          *)
(***************************************************************************)
EXTENDS Integers, Sequences

CONSTANTS
    FanConfig,           \* struct fan_config by fan id
    Safety,              \* struct safety_config
    CriticalTemperature  \* ans_config.critical_temperature_c

\* ANS_MAX_FANS is 2 and the handlers visit the fans in this order: cpu, gpu.
Fan == {"cpu", "gpu"}

Percent == 0..100

Threshold == [up : 0..130, down : 0..130, speed : Percent]

\* The ranges config_parse_safety clamps its values to; the release temperature
\* defaults to five degrees below the critical one.
ASSUME SafetyAssumption ==
    /\ Safety \in [min_speed_percent : 1..100,
                   min_speed_temperature : 1..130,
                   critical_speed_percent : 1..100,
                   critical_full_speed : BOOLEAN,
                   critical_step_percent : 1..100,
                   critical_samples : 1..10,
                   critical_release : -4..130,
                   ramp_up_percent : 0..100,
                   ramp_bypass_temperature : 0..130,
                   missing_speed_percent : 1..100,
                   max_read_failures : 1..100,
                   max_write_failures : 1..100]
    /\ CriticalTemperature \in 1..130
    /\ Safety.critical_release <= CriticalTemperature

\* The ranges validate_fan_numeric_ranges and parse_curve require.
ASSUME FanConfigAssumption ==
    /\ FanConfig \in [Fan -> [write_min : Percent,
                              write_max : Percent,
                              reset_speed : Percent,
                              missing_speed_percent : Percent,
                              curve : Seq(Threshold)]]
    /\ \A f \in Fan : /\ FanConfig[f].write_min < FanConfig[f].write_max
                      /\ FanConfig[f].write_min <= FanConfig[f].reset_speed
                      /\ FanConfig[f].reset_speed <= FanConfig[f].write_max
                      /\ Len(FanConfig[f].curve) > 0

Reason == {"", "ec-read-failure", "ec-write-failure", "critical-temperature",
           "temperature-unknown", "minimum-safe-speed"}

FanState ==
    [percent : Percent,            \* effective percentage
     requested : Percent,          \* requested_percent
     temp : Int,                   \* control_temp_c
     available : BOOLEAN,          \* control_temp_available
     seeded : BOOLEAN,             \* control_temp_seeded
     pending : Int,                \* pending_control_spike_temp_c
     critical : 0..Safety.critical_samples,
     read_failures : 0..(Safety.max_read_failures + 1),
     write_failures : 0..(Safety.max_write_failures + 1),
     reason : Reason]

-----------------------------------------------------------------------------
\* Arithmetic and small predicates

Clamp(v, lo, hi) == IF v < lo THEN lo ELSE IF v > hi THEN hi ELSE v

ClampWrite(f, p) == Clamp(p, FanConfig[f].write_min, FanConfig[f].write_max)

\* The percentage a fan is asked to run at: the last request, or what it runs at.
Target(s) == IF s.requested > 0 THEN s.requested ELSE s.percent

ReadsFailing(s) == s.read_failures >= Safety.max_read_failures

WritesFailing(s) == s.write_failures >= Safety.max_write_failures

IsCritical(s) == s.critical >= Safety.critical_samples

-----------------------------------------------------------------------------
\* Automatic curve

\* The last threshold reached upward selects the speed; a speed that is still
\* above its own downward threshold is held.
CurveSpeed(f, temp, current) ==
    LET curve == FanConfig[f].curve
        Reached(i) == temp >= curve[i].up
        IsLast(i) == Reached(i) /\ \A j \in DOMAIN curve : Reached(j) => j <= i
        selected == IF \E i \in DOMAIN curve : IsLast(i)
                    THEN curve[CHOOSE i \in DOMAIN curve : IsLast(i)].speed
                    ELSE curve[1].speed
        held == \E i \in DOMAIN curve :
                   curve[i].speed = current /\ temp >= curve[i].down
    IN  IF held /\ current > selected THEN current ELSE selected

\* Mutant of AutoRamped: ramps from the effective instead of the requested speed.
AutoRampedFromEffective(s, target, forced) ==
    IF Safety.ramp_up_percent = 0 \/ target <= s.percent \/ forced # ""
    THEN target
    ELSE Clamp(s.percent + Safety.ramp_up_percent, 1, target)

\* At most one ramp step upward per poll, unless a safety reason or the bypass
\* temperature calls for the target at once.
AutoRamped(s, target, forced) ==
    LET bypass == /\ Safety.ramp_bypass_temperature > 0
                  /\ s.available
                  /\ s.temp >= Safety.ramp_bypass_temperature
    IN  IF \/ Safety.ramp_up_percent = 0
           \/ target <= Target(s)
           \/ forced # ""
           \/ bypass
        THEN target
        ELSE Clamp(Target(s) + Safety.ramp_up_percent, 1, target)

\* Mutant of AutoPercent: never slows a fan down.
AutoPercentUpOnly(f, s, forced) ==
    LET curve == CurveSpeed(f, s.temp, Target(s))
    IN  IF curve > Target(s) THEN AutoRamped(s, curve, forced) ELSE Target(s)

\* What automatic mode asks for: the curve when a temperature was ever seen,
\* at least the reset speed when none was.
AutoPercent(f, s, forced) ==
    IF s.temp > 0
    THEN AutoRamped(s, CurveSpeed(f, s.temp, Target(s)), forced)
    ELSE IF Target(s) < FanConfig[f].reset_speed
         THEN FanConfig[f].reset_speed
         ELSE Target(s)

-----------------------------------------------------------------------------
\* Safety policy

CriticalPercent(f, p, reason) ==
    IF reason = "critical-temperature" /\ ~Safety.critical_full_speed
    THEN ClampWrite(f, p + Safety.critical_step_percent)
    ELSE ClampWrite(f, Safety.critical_speed_percent)

MissingPercent(f) ==
    IF FanConfig[f].missing_speed_percent > 0
    THEN FanConfig[f].missing_speed_percent
    ELSE Safety.missing_speed_percent

\* The effective percentage for a request and the reason it was overridden.
\* The branch without a temperature returns before the write-range clamp.
SafetyAdjust(f, s, requested, forced) ==
    LET p == Clamp(requested, 1, 100)
        Critical(reason) == [percent |-> CriticalPercent(f, p, reason), reason |-> reason]
    IN  IF forced # "" THEN Critical(forced)
        ELSE IF WritesFailing(s) THEN Critical("ec-write-failure")
        ELSE IF ~s.available
             THEN IF p < MissingPercent(f)
                  THEN [percent |-> MissingPercent(f), reason |-> "temperature-unknown"]
                  ELSE [percent |-> p, reason |-> ""]
        ELSE IF IsCritical(s) THEN Critical("critical-temperature")
        ELSE IF s.temp >= Safety.min_speed_temperature /\ p < Safety.min_speed_percent
             THEN [percent |-> ClampWrite(f, Safety.min_speed_percent),
                   reason |-> "minimum-safe-speed"]
        ELSE [percent |-> ClampWrite(f, p), reason |-> ""]

\* Mutant of GlobalReason: critical temperature left to each fan.
GlobalReasonEcOnly(fans) ==
    IF \E f \in Fan : ReadsFailing(fans[f]) THEN "ec-read-failure"
    ELSE IF \E f \in Fan : WritesFailing(fans[f]) THEN "ec-write-failure"
    ELSE ""

\* Mutant of GlobalReason: failing writes left out, as a poll does.
GlobalReasonNoWrites(fans) ==
    IF \E f \in Fan : ReadsFailing(fans[f]) THEN "ec-read-failure"
    ELSE IF \E f \in Fan : IsCritical(fans[f]) THEN "critical-temperature"
    ELSE ""

\* The reason commands force on every fan: the first EC failure in fan order,
\* else critical temperature.
GlobalReason(fans) ==
    LET EcReason(s) == IF ReadsFailing(s) THEN "ec-read-failure"
                       ELSE IF WritesFailing(s) THEN "ec-write-failure"
                       ELSE ""
    IN  IF EcReason(fans["cpu"]) # "" THEN EcReason(fans["cpu"])
        ELSE IF EcReason(fans["gpu"]) # "" THEN EcReason(fans["gpu"])
        ELSE IF \E f \in Fan : IsCritical(fans[f]) THEN "critical-temperature"
        ELSE ""

-----------------------------------------------------------------------------
\* Observation

SpikeDelta == 15         \* TEMP_SPIKE_FILTER_DELTA_C
SpikeAcceptDelta == 3    \* TEMP_SPIKE_ACCEPT_DELTA_C

\* Mutant of FilterTemp: a repeated jump is never taken for real.
FilterTempForever(s, sample) ==
    IF s.temp > 0 /\ sample - s.temp >= SpikeDelta
    THEN [temp |-> s.temp, pending |-> sample]
    ELSE [temp |-> sample, pending |-> 0]

\* An upward jump is held back until the next sample is close to it.  The
\* result is the accepted temperature (-1: unknown) and the spike now pending.
FilterTemp(s, sample) ==
    LET confirmed == /\ s.pending > 0
                     /\ sample - s.pending \in -SpikeAcceptDelta..SpikeAcceptDelta
        accept == [temp |-> sample, pending |-> 0]
    IN  IF ~s.seeded /\ sample >= CriticalTemperature
        THEN IF confirmed THEN accept ELSE [temp |-> -1, pending |-> sample]
        ELSE IF s.temp > 0 /\ sample - s.temp >= SpikeDelta
        THEN IF confirmed THEN accept ELSE [temp |-> s.temp, pending |-> sample]
        ELSE accept

\* The control temperature after one sample; a negative sample is a sensor
\* that could not be read, and leaves the pending spike as it is.
ObserveTemp(s, sample) ==
    LET kept == IF s.temp <= 0 THEN -1 ELSE s.temp
        filtered == FilterTemp(s, sample)
    IN  IF sample < 0
        THEN [s EXCEPT !.available = FALSE, !.temp = kept]
        ELSE IF filtered.temp < 0
        THEN [s EXCEPT !.available = FALSE, !.temp = kept, !.pending = filtered.pending]
        ELSE [s EXCEPT !.available = TRUE, !.seeded = TRUE,
                       !.temp = filtered.temp, !.pending = filtered.pending]

\* Mutant of CountCritical: the latch is never released.
CountCriticalForever(s) ==
    IF s.available /\ s.temp >= CriticalTemperature /\ ~IsCritical(s)
    THEN [s EXCEPT !.critical = @ + 1]
    ELSE s

\* Critical samples are counted up to the latch and cleared only by an accepted
\* sample at or below the release temperature.
CountCritical(s) ==
    IF s.available /\ s.temp >= CriticalTemperature
    THEN [s EXCEPT !.critical = IF @ < Safety.critical_samples THEN @ + 1 ELSE @]
    ELSE IF s.available /\ s.temp <= Safety.critical_release
    THEN [s EXCEPT !.critical = 0]
    ELSE s

\* Mutant of CountRead: the counter is not saturated.
CountReadUnbounded(s, ok) ==
    [s EXCEPT !.read_failures = IF ok THEN 0 ELSE @ + 1]

CountRead(s, ok) ==
    [s EXCEPT !.read_failures =
        IF ok THEN 0 ELSE IF @ < Safety.max_read_failures + 1 THEN @ + 1 ELSE @]

\* One fan's part of refresh_fan_observations.
Observe(s, ok, sample) == CountCritical(ObserveTemp(CountRead(s, ok), sample))

\* Mutants of ForcedReason, each without one of its conditions.
ForcedReasonNoReads(fans) ==
    IF \E f \in Fan : IsCritical(fans[f]) THEN "critical-temperature" ELSE ""

ForcedReasonNoCritical(fans) ==
    IF \E f \in Fan : ReadsFailing(fans[f]) THEN "ec-read-failure" ELSE ""

\* The reason a poll forces on every fan.  Write failures are not part of it.
ForcedReason(fans) ==
    IF \E f \in Fan : ReadsFailing(fans[f]) THEN "ec-read-failure"
    ELSE IF \E f \in Fan : IsCritical(fans[f]) THEN "critical-temperature"
    ELSE ""

-----------------------------------------------------------------------------
\* Writing one fan

\* The byte fan_write_percent_raw puts in the fan's write register.
WrittenSpeed(f, s, requested, forced) ==
    ClampWrite(f, SafetyAdjust(f, s, requested, forced).percent)

\* Mutant of SetFanState: recorded before the write is known to have succeeded.
SetFanStateEager(f, s, requested, forced, ok) ==
    LET adjusted == SafetyAdjust(f, s, requested, forced)
    IN  [s EXCEPT !.write_failures = IF ok THEN 0 ELSE 1,
                  !.requested = Clamp(requested, 1, 100),
                  !.percent = adjusted.percent,
                  !.reason = IF ok THEN adjusted.reason ELSE "ec-write-failure"]

\* The fan's state after set_fan_percent, whose register write succeeded or not.
SetFanState(f, s, requested, forced, ok) ==
    LET adjusted == SafetyAdjust(f, s, requested, forced)
    IN  IF ok
        THEN [s EXCEPT !.write_failures = 0,
                       !.requested = Clamp(requested, 1, 100),
                       !.percent = adjusted.percent,
                       !.reason = adjusted.reason]
        ELSE [s EXCEPT !.write_failures = IF @ < Safety.max_write_failures + 1
                                          THEN @ + 1 ELSE @,
                       !.reason = "ec-write-failure"]

\* Mutant of NeedsWrite: only a new request is worth a write.
NeedsWriteForRequest(f, s, target, forced) == target # s.requested

\* A poll writes a fan when the effective or the requested percentage differs
\* from the recorded one.
NeedsWrite(f, s, target, forced) ==
    \/ SafetyAdjust(f, s, target, forced).percent # s.percent
    \/ target # s.requested

\* The state main gives a fan before anything is observed; seed is the cached
\* temperature of an earlier run, 0 when there is none.
StartState(f, seed) ==
    [percent |-> FanConfig[f].reset_speed,
     requested |-> FanConfig[f].reset_speed,
     temp |-> seed, available |-> FALSE, seeded |-> seed > 0, pending |-> 0,
     critical |-> 0, read_failures |-> 0, write_failures |-> 0, reason |-> ""]
=============================================================================
