---------------------------- MODULE MCFanControl ----------------------------
(***************************************************************************)
(* Values for the constants of FanControl.                                 *)
(***************************************************************************)
EXTENDS FanControlProperties

CONSTANTS
    CriticalFullSpeed,  \* safety.critical_full_speed
    FailureLimit        \* safety.max_ec_read_failures and max_ec_write_failures

\* A curve of three points with hysteresis on the last.
Curve == << [up |-> 0, down |-> 0, speed |-> 0],
            [up |-> 60, down |-> 55, speed |-> 30],
            [up |-> 80, down |-> 70, speed |-> 60] >>

McFanConfig == [f \in Fan |-> [write_min |-> 0, write_max |-> 100,
                               reset_speed |-> 50, missing_speed_percent |-> 0,
                               curve |-> Curve]]

\* The shipped model's thresholds, but for the two constants above.
McSafety == [min_speed_percent |-> 30, min_speed_temperature |-> 70,
             critical_speed_percent |-> 100, critical_full_speed |-> CriticalFullSpeed,
             critical_step_percent |-> 20, critical_samples |-> 2,
             critical_release |-> 82, ramp_up_percent |-> 12,
             ramp_bypass_temperature |-> 0, missing_speed_percent |-> 35,
             max_read_failures |-> FailureLimit, max_write_failures |-> FailureLimit]

NoSeeds == {Both(0)}
WarmSeeds == {Both(0), Both(65)}
Reliable == {Both(TRUE)}
Fails(f) == [Both(TRUE) EXCEPT ![f] = FALSE]
CpuMayFail == {Both(TRUE), Fails("cpu")}
GpuMayFail == {Both(TRUE), Fails("gpu")}
AllScopes == {{"cpu"}, {"gpu"}, Fan}
CpuAndUnknown == {{"cpu"}, {}}
GpuOnly == {{"gpu"}}
NoPresets == [id \in {} |-> Both(1)]
OnePreset == [id \in {"quiet"} |-> [cpu |-> 25, gpu |-> 40]]

\* As on the AN517-51, both fans follow the hotter of CPU and GPU.
Shared(samples) == {Both(t) : t \in samples}

\* Fans with sensors of their own, which a model may also configure.
CpuAlone(hot, cool) == {[Both(cool) EXCEPT !["cpu"] = hot]}

WarmSample == Shared({75})
MildSamples == Shared({-1, 65, 75})
ThermalSamples == Shared({-1, 65, 75, 85, 95}) \cup CpuAlone(95, 65)
=============================================================================
