------------------------ MODULE FanControlProperties ------------------------
(***************************************************************************)
(* What the fan controller must guarantee: cooling floors, who owns the    *)
(* fans, and what survives a restart.                                      *)
(***************************************************************************)
EXTENDS FanControl

Lesser(a, b) == IF a < b THEN a ELSE b

\* The speed docs/safety.md promises for what is known of a fan's temperature,
\* as far as the fan's write range allows it.
Floor(f, s) ==
    IF ~s.available THEN Lesser(MissingPercent(f), FanConfig[f].write_max)
    ELSE IF s.temp >= Safety.min_speed_temperature
    THEN Lesser(Safety.min_speed_percent, FanConfig[f].write_max)
    ELSE 0

\* A fan with a failed write behind it is excused: its percentage is stale.
AboveFloor(f, s) == s.write_failures = 0 => s.percent >= Floor(f, s)

\* Every poll leaves every fan at or above its floor, in whatever mode the
\* daemon is, and no command, suspend or resume takes a fan that is above its
\* floor below it (update_fan_states, set_one, apply_current_control_state).
MinimumSpeedHeld ==
    [][ running /\ running' =>
        \A f \in Fan : (AboveFloor(f, fan[f]) \/ Poll) => AboveFloor(f, fan'[f]) ]_vars

\* What a refresh counts as a global condition: failing EC reads or a latched
\* critical temperature, of any fan (refresh_fan_observations).
PolledCondition(fans) == \E f \in Fan : ReadsFailing(fans[f]) \/ IsCritical(fans[f])

\* What docs/safety.md and global_safety_reason count as one: failing EC writes
\* of any fan too.
GlobalCondition(fans) == PolledCondition(fans) \/ \E f \in Fan : WritesFailing(fans[f])

AtCriticalSpeed(f, s) == s.percent >= ClampWrite(f, Safety.critical_speed_percent)

\* A poll that sees a failing EC read or a latched critical temperature leaves
\* both fans at no less than the critical speed, also the fan whose own sensor is
\* cool or missing, and so it leaves a fan whose own writes failed before it, if
\* it gets through to it.  The failing writes of the other fan are not in it: see
\* GlobalConditionsCoolBothFans (refresh_fan_observations, update_fan_states).
PolledConditionsCoolBothFans ==
    [][ running /\ (PolledCondition(fan') \/ \E f \in Fan : WritesFailing(fan[f])) /\ Poll =>
        \A f \in Fan :
            ( /\ PolledCondition(fan') \/ WritesFailing(fan[f])
              /\ fan'[f].write_failures = 0 )
            => AtCriticalSpeed(f, fan'[f]) ]_vars

\* docs/safety.md: critical temperature and repeated EC failures are global
\* safety conditions; when one fan reaches one, both fans are requested at
\* critical speed.  Stated for polls before and after which there is one
\* (refresh_fan_observations, whose forced reason leaves failing writes out).
GlobalConditionsCoolBothFans ==
    [][ running /\ GlobalCondition(fan) /\ GlobalCondition(fan') /\ Poll =>
        \A f \in Fan : fan'[f].write_failures = 0 => AtCriticalSpeed(f, fan'[f]) ]_vars

\* Commands do treat failing writes as global: while a fan's reads or writes fail
\* or its critical temperature is latched, a command, a resume included, leaves
\* every fan at its speed or moves it to no less than the critical one (set_one
\* and apply_current_control_state by global_safety_reason).  A failure that the
\* command itself cures does not count.
CommandsHeedGlobalConditions ==
    [][ /\ running /\ running'
        /\ \/ PolledCondition(fan)
           \/ \E g \in Fan : WritesFailing(fan[g]) /\ WritesFailing(fan'[g])
        => \/ \A f \in Fan : \/ fan'[f].percent = fan[f].percent
                             \/ AtCriticalSpeed(f, fan'[f])
           \/ Poll ]_vars

\* Once a fan cools at critical speed for a latched critical temperature or for
\* failing EC reads, no command and no poll slows it down before an accepted
\* sample at or below the release temperature, or a read that succeeds (set_one's
\* forced reason against handle_set_command and others).
CriticalSpeedHeld ==
    [][ running /\ running' /\ PolledCondition(fan) /\ PolledCondition(fan') =>
        \A f \in Fan : AtCriticalSpeed(f, fan[f]) => AtCriticalSpeed(f, fan'[f]) ]_vars

\* A firmware-auto override is effective: after the poll that raises it, the
\* fan is in manual mode and its write register holds the safety speed
\* (update_fan_states with firmware_auto).
OverrideTakesControl ==
    [][ FirmwareAuto /\ (\E f \in Fan : fan'[f].reason # "") /\ Poll =>
        \A f \in Fan :
            (fan'[f].reason # "")
            => mode'[f] = "manual" /\ speed'[f] = ClampWrite(f, fan'[f].percent) ]_vars

\* In firmware-auto with no safety reason left, firmware owns both fans again
\* (restore_firmware_auto_mode_if_needed), unless turbo was asked for.
FirmwareOwnsWhenSafe ==
    running /\ FirmwareAuto /\ (\A f \in Fan : fan[f].reason = "") =>
        \A f \in Fan : mode[f] = "auto" \/ (mode[f] = "turbo" /\ coolboost)

\* Turbo never outlives the flag that reports it, through presets, restarts
\* and firmware-auto (disable_coolboost_if_needed, restore_control_state).
TurboIsReported ==
    running /\ (\E f \in Fan : mode[f] = "turbo") => coolboost

\* The temperature at which a model lets the ramp go.
RampBypassed(s) ==
    /\ Safety.ramp_bypass_temperature > 0
    /\ s.available
    /\ s.temp >= Safety.ramp_bypass_temperature

\* While automatic mode tracks a temperature without a safety reason, below the
\* bypass temperature if the model has one, a poll raises the request by at most
\* one ramp step, whatever was written before (auto_ramped_percent).
RampBounded ==
    [][ auto /\ auto' /\ Poll =>
        \A f \in Fan :
            \/ fan'[f].reason # ""
            \/ fan'[f].temp <= 0
            \/ Safety.ramp_up_percent = 0
            \/ RampBypassed(fan'[f])
            \/ fan'[f].requested <= Target(fan[f]) + Safety.ramp_up_percent ]_vars

\* The state file always holds the control mode in force, so a crash at any
\* point loses no acknowledged choice; a restored named preset is in force as
\* manual percentages (write_control_state, restore_control_state).
ChoiceIsSaved ==
    running => \E file \in saved :
        /\ file.auto = auto
        /\ file.preset = preset \/ (file.preset \in DOMAIN Presets /\ preset = "manual")

\* In a manual mode the saved percentages are the ones the fans are asked to
\* run at, through safety overrides, suspends and restarts.
TargetsAreSaved ==
    running /\ ~auto /\ ~FirmwareAuto =>
        \A file \in saved, f \in Fan : file.percent[f] = Target(fan[f])

\* A restart puts back the control mode and the percentages of the state file,
\* whatever the sensors and the write range make of them (apply_saved_fan_
\* percentages, restore_saved_fan_targets).
RestartKeepsTargets ==
    [][ ~running /\ running' =>
        \A file \in saved :
            /\ auto' = file.auto
            /\ \A f \in Fan : (file.percent[f] > 0) => Target(fan'[f]) = file.percent[f] ]_vars

\* After the sleep hook's resume, and unless turbo was on, the EC is where the
\* daemon says it is: firmware owns the fans in firmware-auto, else manual mode
\* with every register at its percentage (handle_resume_command, on a model whose
\* init writes set the modes).  With turbo on it is not: resume puts the fans in
\* manual mode and leaves the flag, which status reports, as it was.
ResumeRestoresControl ==
    [][ Resume /\ ~coolboost =>
        \A f \in Fan : IF FirmwareAuto THEN mode'[f] = "auto"
                       ELSE /\ mode'[f] = "manual"
                            /\ speed'[f] = ClampWrite(f, fan'[f].percent) ]_vars

\* With failing EC writes too, a control mode is only ever entered with both
\* fan-mode registers in it: a command whose second register write fails is
\* refused (apply_fan_mode, fan_command_prepare_daemon_control).
ControlIsOwned ==
    [][ running /\ running' =>
        /\ (<<auto, preset>> # <<auto', preset'>>) =>
              \A f \in Fan : mode'[f] = IF FirmwareAuto' THEN "auto" ELSE "manual"
        /\ (coolboost' /\ ~coolboost) => \A f \in Fan : mode'[f] = "turbo" ]_vars

InStep(f) == speed[f] = ClampWrite(f, fan[f].percent)

\* In manual and automatic control a register that holds the reported
\* percentage keeps doing so through failed and skipped writes, overrides and
\* commands (set_fan_percent, and the poll that skips an unchanged fan).
RegisterStaysInStep ==
    [][ running /\ running' /\ ~FirmwareAuto /\ ~FirmwareAuto' =>
        \A f \in Fan : InStep(f) => InStep(f)' ]_vars

\* safety.c: the effective percentage records what was actually written.  In
\* manual and automatic control every register holds the reported percentage.
RegisterFollowsPercent ==
    running /\ ~FirmwareAuto => \A f \in Fan : InStep(f)

\* state.h: persisted state lets the service restore the preset across
\* restarts.  A start whose file names a known preset puts it in force.
PresetSurvivesRestart ==
    [][ ~running /\ running' =>
        \A file \in saved : file.preset \in DOMAIN Presets => preset' = file.preset ]_vars
=============================================================================
