------------------------------ MODULE FanRecovery ------------------------------
(***************************************************************************)
(* What the fan controller must do in the end.  After any history of       *)
(* commands, samples and I/O failures the environment may fall calm: the   *)
(* sensors keep giving the same samples, every access succeeds and nobody  *)
(* sends a command.  Only the loop's own polls go on, and fairness is asked *)
(* of them alone: run_daemon_loop polls whenever its interval is over.     *)
(***************************************************************************)
EXTENDS FanControl

VARIABLES
    calm,     \* nothing but polls happens any more
    climate   \* the samples every poll reads from then on

recoveryVars == <<fan, speed, mode, auto, preset, coolboost, running, saved, calm, climate>>

RecoveryInit ==
    /\ Init
    /\ calm = FALSE
    /\ climate = [f \in Fan |-> -1]

Disturbed == ~calm /\ Next /\ UNCHANGED <<calm, climate>>

Settle ==
    /\ running /\ ~calm
    /\ calm' = TRUE
    /\ climate' \in Observations
    /\ UNCHANGED vars

SteadyPoll ==
    /\ calm
    /\ PollWith(climate, Both(TRUE), Both(TRUE), Both(TRUE), Both(TRUE))
    /\ UNCHANGED <<calm, climate>>

RecoveryNext == Disturbed \/ Settle \/ SteadyPoll

RecoverySpec == RecoveryInit /\ [][RecoveryNext]_recoveryVars /\ WF_recoveryVars(SteadyPoll)

-----------------------------------------------------------------------------

\* Some fan is at a critical temperature.
Hot == \E f \in Fan : climate[f] >= CriticalTemperature

\* Every fan is at a known temperature that no safety rule speaks of.
Cool == \A f \in Fan : /\ climate[f] > 0
                       /\ climate[f] <= Safety.critical_release
                       /\ climate[f] < Safety.min_speed_temperature

\* A lasting critical temperature of one fan puts both write registers at the
\* critical speed in the end, past the spike filter, the sample count and the
\* ramp, in manual mode whoever had the fans before (filter_temperature,
\* refresh_fan_observations, update_fan_states).
HeatIsAnswered ==
    calm /\ Hot ~> [](\A f \in Fan :
        /\ speed[f] = ClampWrite(f, Safety.critical_speed_percent)
        /\ FirmwareAuto /\ FanModesAvailable => mode[f] = "manual")

\* A safety override ends: in a lasting cool climate every fan is without a
\* safety reason in the end and at the percentage that was asked for, for good
\* (update_fan_states, refresh_fan_observations, fan_safety_adjust_percent).
SafetyIsReleased ==
    calm /\ Cool ~> [](\A f \in Fan :
        /\ fan[f].reason = ""
        /\ fan[f].percent = ClampWrite(f, fan[f].requested))

\* control.c: once every fan leaves safety control, the daemon should hand fan
\* mode back to firmware.  In firmware-auto and a lasting cool climate firmware
\* owns both fans in the end (restore_firmware_auto_mode_if_needed).
FirmwareRegainsFans ==
    calm /\ Cool /\ FirmwareAuto ~> [](\A f \in Fan :
        mode[f] = "auto" \/ (mode[f] = "turbo" /\ coolboost))

\* docs/safety.md: repeated EC write failures request critical speed on later
\* attempts.  There is a later attempt: once writes succeed again, a fan over
\* the limit is written and leaves the failure behind (set_fan_percent).
FailedWritesAreRetried ==
    \A f \in Fan : calm /\ WritesFailing(fan[f]) ~> ~WritesFailing(fan[f])

\* Automatic mode settles on the curve: in a lasting cool climate it asks for
\* the curve's speed in the end and stays there, without oscillating
\* (curve_speed, auto_ramped_percent).
AutoSettlesOnCurve ==
    calm /\ Cool /\ auto ~> [](\A f \in Fan :
        /\ fan[f].temp = climate[f]
        /\ fan[f].requested = Clamp(CurveSpeed(f, climate[f], fan[f].requested), 1, 100))
=============================================================================
