------------------------------ MODULE FanControl ------------------------------
(***************************************************************************)
(* The daemon's fan controller: the state run_daemon_loop keeps, the EC    *)
(* registers it writes, and the state file it restores from.               *)
(*                                                                         *)
(* The daemon is single threaded, so a command handler or a poll is one    *)
(* action; what interleaves is polls, commands, suspends, crashes and      *)
(* restarts.  Inside an action every EC access may fail on its own: the    *)
(* outcome of each is chosen from Writes, ModeWrites and Reads, and the    *)
(* outcome of the state-file write from Saves.  A crash in the middle of a *)
(* handler leaves what the handler would leave with its remaining writes   *)
(* failing, so it is that outcome followed by Crash.                       *)
(***************************************************************************)
EXTENDS FanPolicy

CONSTANTS
    FanModesAvailable,  \* cfg.fan_modes.available
    InitWritesModes,    \* init_writes name the fan-mode registers
    Presets,            \* presets: id -> [Fan -> 1..100]
    DefaultPreset,      \* cfg.default_preset
    Commands,           \* the operations the environment may use
    SetScopes,          \* the sets of fans a name in `set` stands for
    SetPercents,        \* the percentages a user may ask for
    Observations,       \* the samples one poll may read
    Seeds,              \* the temperature cache a start may find
    Reads, Writes, ModeWrites, Saves  \* the outcomes of I/O

CommandNames ==
    {"set", "preset", "auto", "firmware-auto", "fan-mode", "coolboost",
     "keyboard", "resume", "stop", "crash", "suspend"}

\* Names with a meaning of their own are not preset ids.
ReservedNames == {"auto", "manual", "firmware-auto"}

ASSUME FanControlAssumption ==
    /\ FanModesAvailable \in BOOLEAN
    /\ InitWritesModes \in BOOLEAN
    /\ Presets \in [DOMAIN Presets -> [Fan -> 1..100]]
    /\ DOMAIN Presets \cap ReservedNames = {}
    /\ DefaultPreset \notin {"manual"}
    /\ Commands \subseteq CommandNames
    /\ SetScopes \subseteq SUBSET Fan
    /\ SetPercents \subseteq 1..100
    /\ Observations \subseteq [Fan -> Int]
    /\ Seeds \subseteq [Fan -> 0..129]
    /\ Reads \subseteq [Fan -> BOOLEAN]
    /\ Writes \subseteq [Fan -> BOOLEAN]
    /\ ModeWrites \subseteq [Fan -> BOOLEAN]
    /\ Saves \subseteq BOOLEAN

PresetNames == DOMAIN Presets \cup ReservedNames

FanMode == {"auto", "manual", "turbo"}

VARIABLES
    fan,        \* fan_state of each fan
    speed,      \* EC: the fans' write registers
    mode,       \* EC: the fan-mode registers
    auto,       \* auto_mode
    preset,     \* preset
    coolboost,  \* coolboost_enabled
    running,    \* the daemon process is in its loop
    saved       \* the state file: {} when there is none, else {its contents}

vars == <<fan, speed, mode, auto, preset, coolboost, running, saved>>

\* What write_control_state puts in the file; coolboost is always saved FALSE.
SavedState == [auto : BOOLEAN, preset : PresetNames, percent : [Fan -> Percent]]

TypeOK ==
    /\ fan \in [Fan -> FanState]
    /\ speed \in [Fan -> Percent]
    /\ mode \in [Fan -> FanMode]
    /\ auto \in BOOLEAN
    /\ preset \in PresetNames
    /\ coolboost \in BOOLEAN
    /\ running \in BOOLEAN
    /\ saved \subseteq SavedState

FirmwareAuto == ~auto /\ preset = "firmware-auto"

ControlMode(a, p) ==
    IF a THEN "auto" ELSE IF p \in ReservedNames \ {"auto"} THEN p ELSE "preset"

-----------------------------------------------------------------------------
\* A handler's working copy of the fans and the EC, and the helpers it is
\* threaded through.  ok gives the outcome of each register write.

Both(v) == [f \in Fan |-> v]

Now == [fan |-> fan, speed |-> speed, mode |-> mode]

Commit(m) == fan' = m.fan /\ speed' = m.speed /\ mode' = m.mode

\* The outcomes to choose from for writes a handler makes only when used holds.
Outcomes(used, set) == IF used THEN set ELSE {Both(TRUE)}

\* set_fan_percent on each fan of S, all with one reason.
SetFans(m, S, requested, forced, ok) ==
    [m EXCEPT
       !.fan = [f \in Fan |->
                  IF f \in S THEN SetFanState(f, m.fan[f], requested[f], forced, ok[f])
                             ELSE m.fan[f]],
       !.speed = [f \in Fan |->
                    IF f \in S /\ ok[f]
                    THEN WrittenSpeed(f, m.fan[f], requested[f], forced)
                    ELSE m.speed[f]]]

\* One fan after the other, each with the reason the fans before it left.
SetInTurn(m, requested, ok) ==
    LET cpu == SetFans(m, {"cpu"}, requested, GlobalReason(m.fan), ok)
    IN  SetFans(cpu, {"gpu"}, requested, GlobalReason(cpu.fan), ok)

ApplyCurrentControlState(m, ok) ==
    SetFans(m, Fan, [f \in Fan |-> Target(m.fan[f])], GlobalReason(m.fan), ok)

\* Mutant of ApplyFanMode: turbo is left alone.
ApplyFanModeKeepTurbo(m, new, ok) ==
    IF ~FanModesAvailable \/ (new = "manual" /\ m.mode["cpu"] = "turbo") THEN m
    ELSE [m EXCEPT !.mode = [f \in Fan |-> IF ok[f] THEN new ELSE m.mode[f]]]

\* The cpu register first; the gpu register only if that write succeeded.
ApplyFanMode(m, new, ok) ==
    IF ~FanModesAvailable THEN m
    ELSE [m EXCEPT !.mode = [cpu |-> IF ok["cpu"] THEN new ELSE m.mode["cpu"],
                             gpu |-> IF ok["cpu"] /\ ok["gpu"] THEN new ELSE m.mode["gpu"]]]

\* Mutant of BothWritten: the second outcome is dropped.
FirstWritten(ok) == ok["cpu"]

BothWritten(ok) == ok["cpu"] /\ ok["gpu"]

FanModeApplied(ok) == FanModesAvailable /\ BothWritten(ok)

\* Without fan modes there is nothing to switch and the daemon is in control.
DaemonControlApplied(ok) == FanModesAvailable => BothWritten(ok)

\* Mutant of CoolBoostOff: the percentages are applied in turbo mode.
CoolBoostOffInTurbo(m, modeOk, ok) == ApplyCurrentControlState(m, ok)

CoolBoostOff(m, modeOk, ok) ==
    LET manual == ApplyFanMode(m, "manual", modeOk)
    IN  IF FanModeApplied(modeOk) THEN ApplyCurrentControlState(manual, ok) ELSE manual

\* Mutant of Save: stores the speed safety made of a request.
SaveEffective(m, a, p, ok) ==
    saved' = IF ok THEN {[auto |-> a, preset |-> p,
                          percent |-> [f \in Fan |-> m.fan[f].percent]]}
                   ELSE saved

Save(m, a, p, ok) ==
    saved' = IF ok THEN {[auto |-> a, preset |-> p,
                          percent |-> [f \in Fan |-> Target(m.fan[f])]]}
                   ELSE saved

\* Mutant of SetControlMode: automatic mode leaves the old preset behind.
SetControlModeKeepPreset(a, p) == auto' = a /\ preset' = IF a THEN preset ELSE p

SetControlMode(a, p) == auto' = a /\ preset' = p

-----------------------------------------------------------------------------
\* The poll

\* Mutant of ShouldRestore: only the first fan's override is remembered.
ShouldRestoreCpu(override) == fan["cpu"].reason # "" /\ override = {}

\* Firmware gets the fan modes back in the poll that ends the last override.
ShouldRestore(override) == (\E f \in Fan : fan[f].reason # "") /\ override = {}

\* In firmware-auto only a fan with a safety reason is written; the first such
\* fan switches the fan mode, the second retries if that failed, and firmware
\* gets the mode back when the last reason is gone.
PollFirmwareAuto(seen, forced, first, second, ok) ==
    LET target == [f \in Fan |-> Target(seen[f])]
        override == {f \in Fan : SafetyAdjust(f, seen[f], target[f], forced).reason # ""}
        tracked == [f \in Fan |->
                      [seen[f] EXCEPT !.percent = Clamp(target[f], 1, 100),
                                      !.requested = Clamp(target[f], 1, 100),
                                      !.reason = ""]]
        base == [Now EXCEPT !.fan = [f \in Fan |-> IF f \in override THEN seen[f] ELSE tracked[f]]]
        switched == IF override # {} THEN ApplyFanMode(base, "manual", first) ELSE base
        retried == IF override = Fan /\ ~DaemonControlApplied(first)
                   THEN ApplyFanMode(switched, "manual", second) ELSE switched
        restored == IF ShouldRestore(override)
                    THEN ApplyFanMode(retried, "auto", second) ELSE retried
    IN  Commit(SetFans(restored, override, target, forced, ok))

\* In every other mode a fan is written when it needs to be; else only its
\* reason is brought up to date.
PollDaemonControl(seen, forced, ok) ==
    \E target \in {[f \in Fan |-> IF auto THEN AutoPercent(f, seen[f], forced)
                                         ELSE Target(seen[f])]} :
    LET changed == {f \in Fan : NeedsWrite(f, seen[f], target[f], forced)}
        base == [Now EXCEPT !.fan = [f \in Fan |->
                    IF f \in changed THEN seen[f]
                    ELSE [seen[f] EXCEPT !.reason =
                             SafetyAdjust(f, seen[f], target[f], forced).reason]]]
    IN  Commit(SetFans(base, changed, target, forced, ok))

\* update_fan_states on one set of samples, with one outcome of its I/O
PollWith(sample, reads, first, second, ok) ==
    /\ running
    /\ \E seen \in {[f \in Fan |-> Observe(fan[f], reads[f], sample[f])]} :
          \E forced \in {ForcedReason(seen)} :
             \/ FirmwareAuto /\ PollFirmwareAuto(seen, forced, first, second, ok)
             \/ ~FirmwareAuto /\ PollDaemonControl(seen, forced, ok)
    /\ UNCHANGED <<auto, preset, coolboost, running, saved>>

Poll ==
    \E sample \in Observations, reads \in Reads, ok \in Writes,
       first, second \in Outcomes(FirmwareAuto, ModeWrites) :
       PollWith(sample, reads, first, second, ok)

-----------------------------------------------------------------------------
\* Commands.  Each is a whole handler of the control socket: it replies after
\* its last write, and no poll runs in between.

Offered(command) == running /\ command \in Commands

\* fan_command_prepare_daemon_control: turbo is cleared first (its outcome is
\* ignored), then the fan mode is switched to manual, which must succeed.
Prepared(offMode, off, toManual) ==
    ApplyFanMode(IF coolboost THEN CoolBoostOff(Now, offMode, off) ELSE Now,
                 "manual", toManual)

\* The handler gave up after its fan-mode write failed.
Refused(m) == Commit(m) /\ UNCHANGED <<auto, preset, saved>>

\* S is empty for a name the parser let through that no fan has.  The control
\* mode changes before the fans are written, and stays changed, unsaved, when
\* none could be.
Set(S, percent) ==
    /\ Offered("set")
    /\ \E offMode \in Outcomes(coolboost, ModeWrites), off \in Outcomes(coolboost, Writes),
          toManual \in ModeWrites, ok \in Writes, save \in Saves :
          LET ready == Prepared(offMode, off, toManual)
              m == SetFans(ready, S, [f \in Fan |-> percent], GlobalReason(ready.fan), ok)
          IN  \/ ~DaemonControlApplied(toManual) /\ Refused(ready)
              \/ /\ DaemonControlApplied(toManual)
                 /\ Commit(m)
                 /\ SetControlMode(FALSE, "manual")
                 /\ Save(m, FALSE, "manual", save /\ \E f \in S : ok[f])
    /\ coolboost' = FALSE
    /\ UNCHANGED running

\* A preset is acknowledged and saved whether or not its fans could be written.
ApplyPreset(id) ==
    /\ Offered("preset")
    /\ \E offMode \in Outcomes(coolboost, ModeWrites), off \in Outcomes(coolboost, Writes),
          toManual \in ModeWrites, ok \in Writes, save \in Saves :
          LET ready == Prepared(offMode, off, toManual)
              m == SetInTurn(ready, Presets[id], ok)
          IN  \/ ~DaemonControlApplied(toManual) /\ Refused(ready)
              \/ /\ DaemonControlApplied(toManual)
                 /\ Commit(m)
                 /\ SetControlMode(FALSE, id)
                 /\ Save(m, FALSE, id, save)
    /\ coolboost' = FALSE
    /\ UNCHANGED running

AutoMode ==
    /\ Offered("auto")
    /\ \E offMode \in Outcomes(coolboost, ModeWrites), off \in Outcomes(coolboost, Writes),
          toManual \in ModeWrites, ok \in Writes, save \in Saves :
          LET ready == Prepared(offMode, off, toManual)
              m == SetInTurn(ready, [f \in Fan |-> FanConfig[f].reset_speed], ok)
          IN  \/ ~DaemonControlApplied(toManual) /\ Refused(ready)
              \/ /\ DaemonControlApplied(toManual)
                 /\ Commit(m)
                 /\ SetControlMode(TRUE, "auto")
                 /\ Save(m, TRUE, "auto", save)
    /\ coolboost' = FALSE
    /\ UNCHANGED running

\* The commands firmware-auto and fan-mode auto differ only in their replies.
FirmwareAutoMode ==
    /\ \/ Offered("firmware-auto")
       \/ Offered("fan-mode")
    /\ FanModesAvailable
    /\ \E ok \in ModeWrites, save \in Saves :
          LET m == ApplyFanMode(Now, "auto", ok)
          IN  \/ ~BothWritten(ok) /\ Refused(m) /\ UNCHANGED coolboost
              \/ /\ BothWritten(ok)
                 /\ Commit(m)
                 /\ SetControlMode(FALSE, "firmware-auto")
                 /\ coolboost' = FALSE
                 /\ Save(m, FALSE, "firmware-auto", save)
    /\ UNCHANGED running

FanModeManual ==
    /\ Offered("fan-mode")
    /\ FanModesAvailable
    /\ \E toManual \in ModeWrites, ok \in Writes, save \in Saves :
          LET switched == ApplyFanMode(Now, "manual", toManual)
              m == ApplyCurrentControlState(switched, ok)
          IN  \/ ~BothWritten(toManual) /\ Refused(switched) /\ UNCHANGED coolboost
              \/ /\ BothWritten(toManual)
                 /\ Commit(m)
                 /\ SetControlMode(FALSE, "manual")
                 /\ coolboost' = FALSE
                 /\ Save(m, FALSE, "manual", save)
    /\ UNCHANGED running

\* coolboost on and fan-mode turbo: the control mode underneath is kept.
CoolBoostOn ==
    /\ \/ Offered("coolboost")
       \/ Offered("fan-mode")
    /\ FanModesAvailable
    /\ \E ok \in ModeWrites, save \in Saves :
          LET m == ApplyFanMode(Now, "turbo", ok)
          IN  \/ ~BothWritten(ok) /\ Refused(m) /\ UNCHANGED coolboost
              \/ /\ BothWritten(ok)
                 /\ Commit(m)
                 /\ coolboost' = TRUE
                 /\ Save(m, auto, preset, save)
                 /\ UNCHANGED <<auto, preset>>
    /\ UNCHANGED running

CoolBoostOffCommand ==
    /\ Offered("coolboost")
    /\ FanModesAvailable
    /\ \E back \in ModeWrites, ok \in Writes, save \in Saves :
          LET m == IF FirmwareAuto THEN ApplyFanMode(Now, "auto", back)
                                   ELSE CoolBoostOff(Now, back, ok)
          IN  \/ ~BothWritten(back) /\ Refused(m) /\ UNCHANGED coolboost
              \/ /\ BothWritten(back)
                 /\ Commit(m)
                 /\ coolboost' = FALSE
                 /\ Save(m, auto, preset, save)
                 /\ UNCHANGED <<auto, preset>>
    /\ UNCHANGED running

\* Keyboard and power-source commands change nothing here but save everything.
SaveWithOtherSetting ==
    /\ Offered("keyboard")
    /\ \E save \in Saves : Save(Now, auto, preset, save)
    /\ UNCHANGED <<fan, speed, mode, auto, preset, coolboost, running>>

-----------------------------------------------------------------------------
\* Suspend, stop, crash, start

\* Mutant of ApplyInitWrites: not made.
ApplyNoInitWrites(m, ok) == m

\* Init writes are independent: one that fails does not stop the next.
ApplyInitWrites(m, ok) ==
    IF InitWritesModes
    THEN [m EXCEPT !.mode = [f \in Fan |-> IF ok[f] THEN "manual" ELSE m.mode[f]]]
    ELSE m

Resume ==
    /\ Offered("resume")
    /\ \E init, back \in ModeWrites, ok \in Writes :
          LET m == ApplyInitWrites(Now, init)
          IN  \/ FirmwareAuto /\ Commit(ApplyFanMode(m, "auto", back))
              \/ ~FirmwareAuto /\ Commit(ApplyCurrentControlState(m, ok))
    /\ UNCHANGED <<auto, preset, coolboost, running, saved>>

\* The system sleeps and the EC comes back in its own automatic fan mode.
Suspend ==
    /\ Offered("suspend")
    /\ mode' = [f \in Fan |-> "auto"]
    /\ UNCHANGED <<fan, speed, auto, preset, coolboost, running, saved>>

\* What a process that ended knew is gone; Start reads the state file again.
MemoryLost ==
    /\ fan' = [f \in Fan |-> StartState(f, 0)]
    /\ SetControlMode(TRUE, "auto")
    /\ coolboost' = FALSE
    /\ running' = FALSE

\* The stop command or a signal: the loop ends and apply_reset_writes runs.
Stop ==
    /\ Offered("stop")
    /\ \E ok \in Writes, modeOk \in ModeWrites :
          /\ speed' = [f \in Fan |-> IF ok[f] THEN FanConfig[f].reset_speed ELSE speed[f]]
          /\ mode' = [f \in Fan |-> IF InitWritesModes /\ modeOk[f] THEN "auto" ELSE mode[f]]
    /\ MemoryLost
    /\ UNCHANGED saved

Crash ==
    /\ Offered("crash")
    /\ MemoryLost
    /\ UNCHANGED <<speed, mode, saved>>

\* json_string_key looks for the first "preset" in quotes.  When the saved
\* control mode is preset that is the value of "mode", whose next colon belongs
\* to "auto": no string is found and the preset keeps the default just copied.
RestoredPreset(file) ==
    IF ControlMode(file.auto, file.preset) = "preset" THEN "auto" ELSE file.preset

\* Mutant of RestoredPercent: the first percentage in the file is every fan's.
RestoredPercentFirst(f, file) == file.percent["cpu"]

\* json_saved_percent_for_fan
RestoredPercent(f, file) ==
    IF file.percent[f] \in 1..100 THEN file.percent[f] ELSE FanConfig[f].reset_speed

\* restore_control_state_from_json: the machine, the auto flag and the preset.
Restored(fresh, file, toMode, ok, offMode, off) ==
    LET percent == [f \in Fan |-> RestoredPercent(f, file)]
        name == RestoredPreset(file)
        manual == ApplyFanMode(fresh, "manual", toMode)
        targets == [fresh EXCEPT !.fan = [f \in Fan |->
                      [fresh.fan[f] EXCEPT !.percent = percent[f], !.requested = percent[f]]]]
        branch ==
            IF file.auto THEN [m |-> SetInTurn(manual, percent, ok), preset |-> "auto"]
            ELSE IF name = "firmware-auto"
            THEN [m |-> ApplyFanMode(targets, "auto", toMode),
                  preset |-> IF FanModeApplied(toMode) THEN name ELSE "manual"]
            ELSE IF name \in DOMAIN Presets
            THEN [m |-> SetInTurn(manual, Presets[name], ok), preset |-> name]
            ELSE [m |-> SetInTurn(manual, percent, ok), preset |-> "manual"]
    IN  IF FanModesAvailable /\ branch.preset # "firmware-auto"
        THEN [branch EXCEPT !.m = CoolBoostOff(branch.m, offMode, off)]
        ELSE branch

\* main without a state file: the model's default preset.
StartDefault(fresh, toMode, ok, save) ==
    LET switched(new) == ApplyFanMode(fresh, new, toMode)
        firmware == DefaultPreset = "firmware-auto"
    IN  \/ /\ DefaultPreset = "auto"
           /\ Commit(switched("manual"))
           /\ SetControlMode(TRUE, "auto")
           /\ Save(fresh, TRUE, "auto", save)
        \/ /\ firmware /\ FanModeApplied(toMode)
           /\ Commit(switched("auto"))
           /\ SetControlMode(FALSE, "firmware-auto")
           /\ Save(fresh, FALSE, "firmware-auto", save)
        \/ /\ firmware /\ ~FanModeApplied(toMode)
           /\ Commit(switched("auto"))
           /\ SetControlMode(TRUE, "auto")
           /\ UNCHANGED saved
        \/ /\ DefaultPreset \in DOMAIN Presets
           /\ LET m == SetInTurn(fresh, Presets[DefaultPreset], ok)
              IN  Commit(m) /\ Save(m, FALSE, DefaultPreset, save)
           /\ SetControlMode(FALSE, DefaultPreset)
        \/ /\ DefaultPreset \notin DOMAIN Presets \cup {"auto", "firmware-auto"}
           /\ Commit(fresh)
           /\ SetControlMode(TRUE, "auto")
           /\ UNCHANGED saved

\* main, up to its loop
Start ==
    /\ ~running
    /\ \E seed \in Seeds, init, toMode, offMode \in ModeWrites, ok, off \in Writes,
          save \in Saves :
          LET powered == [Now EXCEPT !.fan = [f \in Fan |-> StartState(f, seed[f])]]
              fresh == ApplyInitWrites(powered, init)
          IN  \/ saved = {} /\ StartDefault(fresh, toMode, ok, save)
              \/ \E file \in saved :
                    LET restored == Restored(fresh, file, toMode, ok, offMode, off)
                    IN  /\ Commit(restored.m)
                        /\ SetControlMode(file.auto, restored.preset)
                        /\ UNCHANGED saved
    /\ coolboost' = FALSE
    /\ running' = TRUE

\* The machine as firmware leaves it, the daemon not started yet.
Init ==
    /\ fan = [f \in Fan |-> StartState(f, 0)]
    /\ speed = [f \in Fan |-> 0]
    /\ mode = [f \in Fan |-> "auto"]
    /\ auto = TRUE
    /\ preset = "auto"
    /\ coolboost = FALSE
    /\ running = FALSE
    /\ saved = {}

Next ==
    \/ Poll
    \/ \E S \in SetScopes, p \in SetPercents : Set(S, p)
    \/ \E id \in DOMAIN Presets : ApplyPreset(id)
    \/ AutoMode
    \/ FirmwareAutoMode
    \/ FanModeManual
    \/ CoolBoostOn
    \/ CoolBoostOffCommand
    \/ SaveWithOtherSetting
    \/ Resume
    \/ Suspend
    \/ Stop
    \/ Crash
    \/ Start

Spec == Init /\ [][Next]_vars
=============================================================================
