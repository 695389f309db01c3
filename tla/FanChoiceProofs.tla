--------------------------- MODULE FanChoiceProofs ---------------------------
(***************************************************************************)
(* With EC writes and saves that succeed, for every configuration, set of  *)
(* samples and failing sensor: the state file holds the choice in force    *)
(* and the targets that go with it, a restart and a resume put them back,  *)
(* turbo never outlives its flag, and firmware owns the fans whenever      *)
(* firmware-auto has nothing to override and loses them when it has.       *)
(*                                                                         *)
(* Choice and modes need each other: that turbo is gone after a start      *)
(* rests on there being a file to restore whenever a daemon ran before.    *)
(* The targets need only the types.                                        *)
(***************************************************************************)
EXTENDS FanControlProofs

\* Writes to the EC and the state file succeed, and the default preset exists
\* on the model.
ReliableWrites ==
    /\ ModeWrites = {Both(TRUE)} /\ Writes = {Both(TRUE)} /\ Saves = {TRUE}
    /\ DefaultPreset \in DOMAIN Presets \cup {"auto", "firmware-auto"}
    /\ DefaultPreset = "firmware-auto" => FanModesAvailable

\* A control mode a model can be in; automatic mode has one name.
Proper(a, p) == (a <=> p = "auto") /\ (p = "firmware-auto" => FanModesAvailable)

\* What the file says of a control mode that is in force.
Tells(file, a, p) ==
    file.auto = a /\ (file.preset = p \/ (file.preset \in DOMAIN Presets /\ p = "manual"))

\* `set` always names a fan: what it changes it also saves.
SetNamesFans == {} \notin SetScopes

ChoiceInv ==
    /\ Proper(auto, preset)
    /\ \A file \in saved : Proper(file.auto, file.preset)
    /\ running => saved # {}
    /\ running /\ SetNamesFans => \E file \in saved : Tells(file, auto, preset)

-----------------------------------------------------------------------------
\* The choice

LEMMA BothTrue == ReliableWrites =>
    /\ \A ok \in ModeWrites : ok = Both(TRUE) /\ BothWritten(ok) /\ DaemonControlApplied(ok)
    /\ \A ok \in Writes, f \in Fan : ok[f]
  BY DEF ReliableWrites, BothWritten, DaemonControlApplied, Both, Fan

\* A handler that saves the control mode it leaves in force.
LEMMA ChoiceSavedBy ==
    ASSUME NEW m, NEW a \in BOOLEAN, NEW p, Proper(a, p), NEW ok, ok, Save(m, a, p, ok),
           auto' = a, preset' = p
    PROVE  ChoiceInv' /\ saved' # {}
  <1> DEFINE file == [auto |-> a, preset |-> p, percent |-> [f \in Fan |-> Target(m.fan[f])]]
  <1>1. saved' = {file} /\ file.auto = a /\ file.preset = p
    BY DEF Save
  <1> HIDE DEF file
  <1>2. QED
    BY <1>1 DEF ChoiceInv, Proper, Tells

\* A step that leaves the control mode and the file alone.
LEMMA ChoiceUntouched ==
    ASSUME ChoiceInv, UNCHANGED <<auto, preset, saved>>, running' = running
    PROVE  ChoiceInv'
  BY DEF ChoiceInv, Proper, Tells

\* The names that are not presets.
LEMMA NamesApart ==
    /\ \A id \in DOMAIN Presets : id # "auto" /\ id # "manual" /\ id # "firmware-auto"
  BY FanControlAssumption DEF ReservedNames

\* The control mode a restart makes of a file is the one the file tells of.
LEMMA RestoredChoice ==
    ASSUME NEW fresh, NEW file \in SavedState, Proper(file.auto, file.preset),
           NEW toMode, FanModesAvailable => FanModeApplied(toMode), NEW ok, NEW offMode, NEW off
    PROVE  LET restored == Restored(fresh, file, toMode, ok, offMode, off)
           IN  /\ Proper(file.auto, restored.preset)
               /\ Tells(file, file.auto, restored.preset)
  <1> DEFINE percent == [f \in Fan |-> RestoredPercent(f, file)]
             name == RestoredPreset(file)
             manual == ApplyFanMode(fresh, "manual", toMode)
             targets == [fresh EXCEPT !.fan = [f \in Fan |->
                      [fresh.fan[f] EXCEPT !.percent = percent[f], !.requested = percent[f]]]]
             applied == SetInTurn(manual, percent, ok)
             named == SetInTurn(manual, Presets[name], ok)
             firmware == ApplyFanMode(targets, "auto", toMode)
             back == IF FanModeApplied(toMode) THEN name ELSE "manual"
             branch ==
                 IF file.auto THEN [m |-> applied, preset |-> "auto"]
                 ELSE IF name = "firmware-auto" THEN [m |-> firmware, preset |-> back]
                 ELSE IF name \in DOMAIN Presets THEN [m |-> named, preset |-> name]
                 ELSE [m |-> applied, preset |-> "manual"]
             r == Restored(fresh, file, toMode, ok, offMode, off)
  <1>1. r = IF FanModesAvailable /\ branch.preset # "firmware-auto"
            THEN [branch EXCEPT !.m = CoolBoostOff(branch.m, offMode, off)]
            ELSE branch
    BY DEF Restored
  <1>2. /\ file.auto \in BOOLEAN /\ file.preset \in PresetNames
        /\ file.auto <=> file.preset = "auto"
        /\ file.preset = "firmware-auto" => FanModesAvailable
    BY DEF SavedState, Proper
  <1>3. name = IF file.preset \in DOMAIN Presets THEN "auto" ELSE file.preset
    BY <1>2, NamesApart DEF RestoredPreset, ControlMode, PresetNames, ReservedNames
  <1> HIDE DEF name, applied, named, firmware
  <1>4. branch.preset = IF file.auto THEN "auto"
                        ELSE IF file.preset = "firmware-auto" THEN "firmware-auto" ELSE "manual"
    BY <1>2, <1>3, NamesApart
  <1>5. branch = [m |-> branch.m, preset |-> branch.preset]
    OBVIOUS
  <1> HIDE DEF branch
  <1>6. r.preset = branch.preset
    BY <1>1, <1>5
  <1> HIDE DEF r
  <1>7. Proper(file.auto, r.preset) /\ Tells(file, file.auto, r.preset)
    <2>1. file.preset \in DOMAIN Presets \cup {"auto", "manual", "firmware-auto"}
      BY <1>2 DEF PresetNames, ReservedNames
    <2>2. QED
      BY <1>2, <1>4, <1>6, <2>1, NamesApart DEF Proper, Tells
  <1>8. QED
    BY <1>7 DEF r

LEMMA ChoiceStart ==
    ASSUME ReliableWrites, TypeOK, ChoiceInv, Start
    PROVE  ChoiceInv' /\ saved' # {} /\ running'
  <1>1. PICK seed \in Seeds, init \in ModeWrites, toMode \in ModeWrites,
             offMode \in ModeWrites, ok \in Writes, off \in Writes, save \in Saves :
          LET powered == [Now EXCEPT !.fan = [f \in Fan |-> StartState(f, seed[f])]]
              fresh == ApplyInitWrites(powered, init)
          IN  \/ saved = {} /\ StartDefault(fresh, toMode, ok, save)
              \/ \E file \in saved :
                    LET restored == Restored(fresh, file, toMode, ok, offMode, off)
                    IN  /\ Commit(restored.m)
                        /\ SetControlMode(file.auto, restored.preset)
                        /\ UNCHANGED saved
    BY DEF Start
  <1>2. PICK fresh : \/ StartDefault(fresh, toMode, ok, save)
                     \/ \E file \in saved :
                          LET restored == Restored(fresh, file, toMode, ok, offMode, off)
                          IN  /\ SetControlMode(file.auto, restored.preset)
                              /\ UNCHANGED saved
    BY <1>1
  <1>3. save /\ (FanModesAvailable => FanModeApplied(toMode))
    BY BothTrue DEF ReliableWrites, FanModeApplied
  <1>4. running'
    BY DEF Start
  <1>5. CASE StartDefault(fresh, toMode, ok, save)
    <2>1. \/ \E m : /\ SetControlMode(TRUE, "auto") /\ Save(m, TRUE, "auto", save)
          \/ \E m : /\ SetControlMode(FALSE, "firmware-auto") /\ FanModesAvailable
                    /\ Save(m, FALSE, "firmware-auto", save)
          \/ \E m : /\ DefaultPreset \in DOMAIN Presets
                    /\ SetControlMode(FALSE, DefaultPreset) /\ Save(m, FALSE, DefaultPreset, save)
      BY <1>3, <1>5 DEF StartDefault, ReliableWrites
    <2>2. /\ Proper(TRUE, "auto") /\ (FanModesAvailable => Proper(FALSE, "firmware-auto"))
          /\ DefaultPreset \in DOMAIN Presets => Proper(FALSE, DefaultPreset)
      BY NamesApart DEF Proper
    <2>3. QED
      BY <1>3, <1>4, <2>1, <2>2, ChoiceSavedBy DEF SetControlMode
  <1>6. ASSUME NEW file \in saved, UNCHANGED saved,
               SetControlMode(file.auto, Restored(fresh, file, toMode, ok, offMode, off).preset)
        PROVE  ChoiceInv' /\ saved' # {}
    <2> DEFINE p == Restored(fresh, file, toMode, ok, offMode, off).preset
    <2>1. file \in SavedState /\ Proper(file.auto, file.preset)
      BY DEF TypeOK, ChoiceInv
    <2>2. Proper(file.auto, p) /\ Tells(file, file.auto, p)
      BY <1>3, <2>1, RestoredChoice
    <2>3. auto' = file.auto /\ preset' = p
      BY <1>6 DEF SetControlMode
    <2> HIDE DEF p
    <2>4. QED
      BY <1>6, <2>2, <2>3 DEF ChoiceInv
  <1>7. QED
    BY <1>2, <1>4, <1>5, <1>6

\* A command that saves what it puts in force.
LEMMA ChoiceCommand ==
    ASSUME ReliableWrites, TypeOK, ChoiceInv,
           \/ \E S \in SetScopes, p \in SetPercents : Set(S, p)
           \/ \E id \in DOMAIN Presets : ApplyPreset(id)
           \/ AutoMode \/ FirmwareAutoMode \/ FanModeManual
           \/ CoolBoostOn \/ CoolBoostOffCommand \/ SaveWithOtherSetting
    PROVE  ChoiceInv' /\ saved' # {}
  <1>1. /\ Proper(FALSE, "manual") /\ Proper(TRUE, "auto") /\ Proper(auto, preset)
        /\ FanModesAvailable => Proper(FALSE, "firmware-auto")
        /\ \A id \in DOMAIN Presets : Proper(FALSE, id)
        /\ auto \in BOOLEAN
    BY NamesApart DEF ChoiceInv, Proper, TypeOK
  <1>2. ASSUME NEW S \in SetScopes, NEW p \in SetPercents, Set(S, p)
        PROVE  ChoiceInv' /\ saved' # {}
    <2>1. PICK ok \in Writes, save \in Saves : \E m :
             /\ SetControlMode(FALSE, "manual") /\ Save(m, FALSE, "manual", save /\ \E f \in S : ok[f])
      BY <1>2, BothTrue DEF Set
    <2>2. CASE S # {}
      <3>1. S \subseteq Fan
        BY FanControlAssumption
      <3>2. save /\ \E f \in S : ok[f]
        BY <2>2, <3>1, BothTrue DEF ReliableWrites
      <3>3. QED
        BY <1>1, <2>1, <3>2, ChoiceSavedBy DEF SetControlMode
    <2>3. CASE S = {}
      <3>1. saved' = saved /\ running /\ auto' = FALSE /\ preset' = "manual"
        BY <1>2, <2>1, <2>3 DEF Save, SetControlMode, Set, Offered
      <3>2. QED
        BY <1>1, <2>3, <3>1 DEF ChoiceInv, SetNamesFans
    <2>4. QED
      BY <2>2, <2>3
  <1>3. ASSUME NEW id \in DOMAIN Presets, ApplyPreset(id) PROVE ChoiceInv' /\ saved' # {}
    <2>1. PICK save \in Saves : \E m : SetControlMode(FALSE, id) /\ Save(m, FALSE, id, save)
      BY <1>3, BothTrue DEF ApplyPreset
    <2>2. QED
      BY <1>1, <2>1, ChoiceSavedBy DEF SetControlMode, ReliableWrites
  <1>4. ASSUME AutoMode PROVE ChoiceInv' /\ saved' # {}
    <2>1. PICK save \in Saves : \E m : SetControlMode(TRUE, "auto") /\ Save(m, TRUE, "auto", save)
      BY <1>4, BothTrue DEF AutoMode
    <2>2. QED
      BY <1>1, <2>1, ChoiceSavedBy DEF SetControlMode, ReliableWrites
  <1>5. ASSUME FirmwareAutoMode PROVE ChoiceInv' /\ saved' # {}
    <2>1. PICK save \in Saves : \E m : /\ SetControlMode(FALSE, "firmware-auto")
                                         /\ Save(m, FALSE, "firmware-auto", save)
      BY <1>5, BothTrue DEF FirmwareAutoMode
    <2>2. FanModesAvailable
      BY <1>5 DEF FirmwareAutoMode
    <2>3. QED
      BY <1>1, <2>1, <2>2, ChoiceSavedBy DEF SetControlMode, ReliableWrites
  <1>6. ASSUME FanModeManual PROVE ChoiceInv' /\ saved' # {}
    <2>1. PICK save \in Saves : \E m : /\ SetControlMode(FALSE, "manual")
                                         /\ Save(m, FALSE, "manual", save)
      BY <1>6, BothTrue DEF FanModeManual
    <2>2. QED
      BY <1>1, <2>1, ChoiceSavedBy DEF SetControlMode, ReliableWrites
  <1>7. ASSUME CoolBoostOn \/ CoolBoostOffCommand PROVE ChoiceInv' /\ saved' # {}
    <2>1. PICK save \in Saves : \E m : /\ auto' = auto /\ preset' = preset
                                         /\ Save(m, auto, preset, save)
      BY <1>7, BothTrue DEF CoolBoostOn, CoolBoostOffCommand
    <2>2. QED
      BY <1>1, <2>1, ChoiceSavedBy DEF ReliableWrites
  <1>8. ASSUME SaveWithOtherSetting PROVE ChoiceInv' /\ saved' # {}
    <2>1. PICK save \in Saves : auto' = auto /\ preset' = preset /\ Save(Now, auto, preset, save)
      BY <1>8 DEF SaveWithOtherSetting
    <2>2. QED
      BY <1>1, <2>1, ChoiceSavedBy DEF ReliableWrites
  <1>9. QED
    BY <1>2, <1>3, <1>4, <1>5, <1>6, <1>7, <1>8

\* What is left of a process that ended.
LEMMA ChoiceForgotten ==
    ASSUME ChoiceInv, Stop \/ Crash
    PROVE  ChoiceInv' /\ saved' = saved /\ ~running'
  BY DEF Stop, Crash, MemoryLost, SetControlMode, ChoiceInv, Proper, Tells

LEMMA ChoiceStep ==
    ASSUME ReliableWrites, TypeOK, ChoiceInv, [Next]_vars
    PROVE  ChoiceInv'
  <1>1. CASE Poll \/ Resume \/ Suspend \/ UNCHANGED vars
    BY <1>1, ChoiceUntouched DEF Poll, PollWith, Resume, Suspend, vars
  <1>2. CASE Stop \/ Crash
    BY <1>2, ChoiceForgotten
  <1>3. CASE Start
    BY <1>3, ChoiceStart
  <1>4. QED
    BY <1>1, <1>2, <1>3, ChoiceCommand DEF Next

LEMMA ChoiceAtStart == Init => ChoiceInv
  BY DEF Init, ChoiceInv, Proper

\* Whatever commands, sleeps, stops and crashes follow each other, the file
\* holds the control mode in force, so a restart comes back with it
\* (write_control_state, restore_control_state_from_json).
THEOREM ChoiceSaved ==
    ASSUME ReliableWrites, SetNamesFans
    PROVE  Spec => []ChoiceIsSaved
  <1>1. Init => ChoiceInv
    BY ChoiceAtStart
  <1>2. TypeOK /\ ChoiceInv /\ [Next]_vars => ChoiceInv'
    BY ChoiceStep
  <1>3. ChoiceInv => ChoiceIsSaved
    BY DEF ChoiceInv, Tells, ChoiceIsSaved
  <1>4. QED
    BY <1>1, <1>2, <1>3, TypeCorrect, PTL DEF Spec

-----------------------------------------------------------------------------
\* The fan modes

NoTurbo(modes) == \A f \in Fan : modes[f] # "turbo"
AllIn(modes, new) == \A f \in Fan : modes[f] = new

\* Turbo needs its flag while a daemon runs, and a file that a restart can
\* take it back from when none does.
ModeInv ==
    /\ saved = {} \/ ~FanModesAvailable => NoTurbo(mode)
    /\ running /\ ~coolboost => NoTurbo(mode)

\* apply_fan_mode with writes that succeed.
LEMMA ModeApplied ==
    ASSUME ReliableWrites, NEW m \in Machine, NEW new \in FanMode, NEW ok \in ModeWrites
    PROVE  /\ ApplyFanMode(m, new, ok) \in Machine
           /\ FanModesAvailable => AllIn(ApplyFanMode(m, new, ok).mode, new)
           /\ ~FanModesAvailable => ApplyFanMode(m, new, ok) = m
           /\ new # "turbo" /\ NoTurbo(m.mode) => NoTurbo(ApplyFanMode(m, new, ok).mode)
  <1>1. ok \in Io
    BY IoType
  <1>2. FanModesAvailable => FanModeApplied(ok)
    BY BothTrue DEF FanModeApplied
  <1>3. FanModesAvailable => AllIn(ApplyFanMode(m, new, ok).mode, new)
    BY <1>1, <1>2, ApplyFanModeType DEF AllIn
  <1>4. ~FanModesAvailable => ApplyFanMode(m, new, ok) = m
    BY DEF ApplyFanMode
  <1>5. QED
    BY <1>1, <1>3, <1>4, ApplyFanModeType DEF AllIn, NoTurbo

\* Leaving turbo.
LEMMA TurboLeft ==
    ASSUME ReliableWrites, NEW m \in Machine, NEW modeOk \in ModeWrites, NEW ok \in Writes
    PROVE  /\ CoolBoostOff(m, modeOk, ok) \in Machine
           /\ FanModesAvailable => AllIn(CoolBoostOff(m, modeOk, ok).mode, "manual")
           /\ ~FanModesAvailable => CoolBoostOff(m, modeOk, ok) = m
  <1>1. modeOk \in Io /\ ok \in Io
    BY IoType
  <1>2. FanModesAvailable => FanModeApplied(modeOk)
    BY BothTrue DEF FanModeApplied
  <1>3. ~FanModesAvailable => CoolBoostOff(m, modeOk, ok) = m
    BY DEF CoolBoostOff, ApplyFanMode, FanModeApplied
  <1>4. QED
    BY <1>1, <1>2, <1>3, CoolBoostOffType DEF AllIn

LEMMA ManualHasNoTurbo ==
    ASSUME NEW modes, AllIn(modes, "manual") \/ AllIn(modes, "auto")
    PROVE  NoTurbo(modes)
  BY DEF AllIn, NoTurbo

\* What a mode command starts from.
LEMMA PreparedNoTurbo ==
    ASSUME ReliableWrites, TypeOK, ModeInv,
           NEW offMode \in Outcomes(coolboost, ModeWrites), NEW off \in Outcomes(coolboost, Writes),
           NEW toManual \in ModeWrites
    PROVE  /\ Prepared(offMode, off, toManual) \in Machine
           /\ NoTurbo(Prepared(offMode, off, toManual).mode)
  <1>1. offMode \in ModeWrites /\ off \in Writes
    BY DEF Outcomes, ReliableWrites
  <1>2. Now \in Machine /\ Now.mode = mode
    BY NowType DEF Now
  <1> DEFINE calm == IF coolboost THEN CoolBoostOff(Now, offMode, off) ELSE Now
  <1>3. calm \in Machine /\ (~FanModesAvailable => calm = Now)
    BY <1>1, <1>2, TurboLeft
  <1>4. Prepared(offMode, off, toManual) = ApplyFanMode(calm, "manual", toManual)
    BY DEF Prepared
  <1> HIDE DEF calm
  <1>5. "manual" \in FanMode
    BY DEF FanMode
  <1>6. /\ ApplyFanMode(calm, "manual", toManual) \in Machine
        /\ FanModesAvailable => AllIn(ApplyFanMode(calm, "manual", toManual).mode, "manual")
        /\ ~FanModesAvailable => ApplyFanMode(calm, "manual", toManual) = Now
    BY <1>3, <1>5, ModeApplied
  <1>7. QED
    BY <1>2, <1>4, <1>6, ManualHasNoTurbo DEF ModeInv

\* Commands that end in the daemon's control.
LEMMA ControlNoTurbo ==
    ASSUME ReliableWrites, TypeOK, ModeInv,
           \/ \E S \in SetScopes, p \in SetPercents : Set(S, p)
           \/ \E id \in DOMAIN Presets : ApplyPreset(id)
           \/ AutoMode
    PROVE  NoTurbo(mode') /\ auto' \in BOOLEAN /\ preset' # "firmware-auto"
  <1>1. ASSUME NEW offMode \in Outcomes(coolboost, ModeWrites),
               NEW off \in Outcomes(coolboost, Writes), NEW toManual \in ModeWrites,
               NEW m, m.mode = Prepared(offMode, off, toManual).mode, Commit(m)
        PROVE  NoTurbo(mode')
    BY <1>1, PreparedNoTurbo DEF Commit
  <1>2. ASSUME NEW S \in SetScopes, NEW p \in SetPercents, Set(S, p)
        PROVE  NoTurbo(mode') /\ auto' = FALSE /\ preset' = "manual"
    <2>1. PICK offMode \in Outcomes(coolboost, ModeWrites), off \in Outcomes(coolboost, Writes),
               toManual \in ModeWrites, ok \in Writes, save \in Saves :
            LET ready == Prepared(offMode, off, toManual)
            IN  /\ Commit(SetFans(ready, S, [f \in Fan |-> p], GlobalReason(ready.fan), ok))
                /\ SetControlMode(FALSE, "manual")
      BY <1>2, BothTrue DEF Set
    <2> DEFINE ready == Prepared(offMode, off, toManual)
               m == SetFans(ready, S, [f \in Fan |-> p], GlobalReason(ready.fan), ok)
    <2>2. /\ S \in SUBSET Fan /\ [f \in Fan |-> p] \in [Fan -> Int] /\ ok \in Io
          /\ ready \in Machine
      BY PreparedNoTurbo, FanControlAssumption, IoType
    <2>3. m.mode = ready.mode
      BY <2>2, GlobalReasonType, SetFansType
    <2> HIDE DEF m, ready
    <2>4. Commit(m)
      BY <2>1 DEF m, ready
    <2>5. QED
      BY <1>1, <2>1, <2>3, <2>4 DEF ready, SetControlMode
  <1>3. ASSUME NEW offMode \in Outcomes(coolboost, ModeWrites),
               NEW off \in Outcomes(coolboost, Writes), NEW toManual \in ModeWrites,
               NEW requested \in [Fan -> Int], NEW ok \in Writes,
               Commit(SetInTurn(Prepared(offMode, off, toManual), requested, ok))
        PROVE  NoTurbo(mode')
    <2>1. ok \in Io /\ Prepared(offMode, off, toManual) \in Machine
      BY IoType, PreparedNoTurbo
    <2>2. QED
      BY <1>1, <1>3, <2>1, SetInTurnType
  <1>4. ASSUME NEW id \in DOMAIN Presets, ApplyPreset(id)
        PROVE  NoTurbo(mode') /\ auto' = FALSE /\ preset' = id
    <2>1. PICK offMode \in Outcomes(coolboost, ModeWrites), off \in Outcomes(coolboost, Writes),
               toManual \in ModeWrites, ok \in Writes, save \in Saves :
            /\ Commit(SetInTurn(Prepared(offMode, off, toManual), Presets[id], ok))
            /\ SetControlMode(FALSE, id)
      BY <1>4, BothTrue DEF ApplyPreset
    <2>2. Presets[id] \in [Fan -> Int]
      BY FanControlAssumption
    <2>3. QED
      BY <1>3, <2>1, <2>2 DEF SetControlMode
  <1>5. ASSUME AutoMode PROVE NoTurbo(mode') /\ auto' = TRUE /\ preset' = "auto"
    <2> DEFINE reset == [f \in Fan |-> FanConfig[f].reset_speed]
    <2>1. PICK offMode \in Outcomes(coolboost, ModeWrites), off \in Outcomes(coolboost, Writes),
               toManual \in ModeWrites, ok \in Writes, save \in Saves :
            /\ Commit(SetInTurn(Prepared(offMode, off, toManual), reset, ok))
            /\ SetControlMode(TRUE, "auto")
      BY <1>5, BothTrue DEF AutoMode
    <2>2. reset \in [Fan -> Int]
      <3>1. \A f \in Fan : FanConfig[f].reset_speed \in Int
        BY WriteRange, PercentFacts
      <3>2. QED
        BY <3>1
    <2> HIDE DEF reset
    <2>3. QED
      BY <1>3, <2>1, <2>2 DEF SetControlMode
  <1>6. QED
    BY <1>2, <1>4, <1>5, NamesApart

\* Commands that put both registers in one mode.
LEMMA CommandModes ==
    ASSUME ReliableWrites, TypeOK,
           FirmwareAutoMode \/ FanModeManual \/ CoolBoostOn \/ CoolBoostOffCommand
    PROVE  /\ FanModesAvailable
           /\ \/ FirmwareAutoMode /\ AllIn(mode', "auto") /\ ~coolboost'
              \/ /\ FanModeManual /\ AllIn(mode', "manual") /\ ~coolboost'
                 /\ preset' = "manual"
              \/ CoolBoostOn /\ AllIn(mode', "turbo") /\ coolboost'
              \/ /\ CoolBoostOffCommand /\ ~coolboost' /\ UNCHANGED <<auto, preset>>
                 /\ AllIn(mode', IF FirmwareAuto THEN "auto" ELSE "manual")
  <1>1. Now \in Machine /\ FanMode = {"auto", "manual", "turbo"}
    BY NowType DEF FanMode
  <1>2. FanModesAvailable
    BY DEF FirmwareAutoMode, FanModeManual, CoolBoostOn, CoolBoostOffCommand
  <1>3. ASSUME FirmwareAutoMode PROVE AllIn(mode', "auto") /\ ~coolboost'
    <2>1. PICK ok \in ModeWrites : Commit(ApplyFanMode(Now, "auto", ok)) /\ coolboost' = FALSE
      BY <1>3, BothTrue DEF FirmwareAutoMode
    <2>2. QED
      BY <1>1, <1>2, <2>1, ModeApplied DEF Commit
  <1>4. ASSUME FanModeManual PROVE AllIn(mode', "manual") /\ ~coolboost' /\ preset' = "manual"
    <2>1. PICK toManual \in ModeWrites, ok \in Writes :
            /\ Commit(ApplyCurrentControlState(ApplyFanMode(Now, "manual", toManual), ok))
            /\ coolboost' = FALSE /\ preset' = "manual"
      BY <1>4, BothTrue DEF FanModeManual, SetControlMode
    <2> DEFINE switched == ApplyFanMode(Now, "manual", toManual)
    <2>2. switched \in Machine /\ AllIn(switched.mode, "manual") /\ ok \in Io
      BY <1>1, <1>2, ModeApplied, IoType
    <2> HIDE DEF switched
    <2>3. ApplyCurrentControlState(switched, ok).mode = switched.mode
      BY <2>2, ApplyCurrentType
    <2>4. QED
      BY <2>1, <2>2, <2>3 DEF Commit, switched
  <1>5. ASSUME CoolBoostOn PROVE AllIn(mode', "turbo") /\ coolboost'
    <2>1. PICK ok \in ModeWrites : Commit(ApplyFanMode(Now, "turbo", ok)) /\ coolboost' = TRUE
      BY <1>5, BothTrue DEF CoolBoostOn
    <2>2. QED
      BY <1>1, <1>2, <2>1, ModeApplied DEF Commit
  <1>6. ASSUME CoolBoostOffCommand
        PROVE  /\ ~coolboost' /\ UNCHANGED <<auto, preset>>
               /\ AllIn(mode', IF FirmwareAuto THEN "auto" ELSE "manual")
    <2>1. PICK back \in ModeWrites, ok \in Writes :
            /\ Commit(IF FirmwareAuto THEN ApplyFanMode(Now, "auto", back)
                                      ELSE CoolBoostOff(Now, back, ok))
            /\ coolboost' = FALSE /\ UNCHANGED <<auto, preset>>
      BY <1>6, BothTrue DEF CoolBoostOffCommand
    <2>2. /\ AllIn(ApplyFanMode(Now, "auto", back).mode, "auto")
          /\ AllIn(CoolBoostOff(Now, back, ok).mode, "manual")
      BY <1>1, <1>2, ModeApplied, TurboLeft
    <2>3. QED
      BY <2>1, <2>2 DEF Commit
  <1>7. QED
    BY <1>2, <1>3, <1>4, <1>5, <1>6

\* Switching the fan mode leaves the fans as they are.
LEMMA ModeKeepsFans ==
    ASSUME NEW m \in Machine, NEW new, NEW ok
    PROVE  ApplyFanMode(m, new, ok).fan = m.fan
  BY DEF ApplyFanMode, Machine

\* A write that succeeds records the reason safety gave for it.
LEMMA ReasonRecorded ==
    ASSUME NEW f \in Fan, NEW s \in FanState, NEW requested \in Int, NEW forced \in Reason,
           NEW ok, ok = TRUE
    PROVE  SetFanState(f, s, requested, forced, ok).reason
              = SafetyAdjust(f, s, requested, forced).reason
  <1> DEFINE q == Clamp(requested, 1, 100)
             p == SafetyAdjust(f, s, requested, forced).percent
             r == SafetyAdjust(f, s, requested, forced).reason
  <1>1. q \in Percent /\ p \in Percent /\ r \in Reason
    BY RequestRange, AdjustType DEF Adjusted
  <1>2. SetFanState(f, s, requested, forced, ok) = Written(s, q, p, r)
    BY DEF SetFanState, Written
  <1> HIDE DEF q, p, r
  <1>3. Written(s, q, p, r).reason = r
    BY <1>1, RecordedWrite
  <1>4. QED
    BY <1>2, <1>3 DEF r

\* A poll in firmware-auto: when it leaves no reason behind, it either found
\* none, or gave both registers back.
LEMMA PollFirmwareModes ==
    ASSUME ReliableWrites, TypeOK, NEW seen \in [Fan -> FanState], NEW forced \in Reason,
           NEW first \in ModeWrites, NEW second \in ModeWrites, NEW ok \in Writes,
           PollFirmwareAuto(seen, forced, first, second, ok)
    PROVE  /\ NoTurbo(mode) => NoTurbo(mode')
           /\ FanModesAvailable /\ (\A f \in Fan : fan'[f].reason = "")
                => \/ AllIn(mode', "auto")
                   \/ mode' = mode /\ \A f \in Fan : fan[f].reason = ""
  <1> DEFINE target == [f \in Fan |-> Target(seen[f])]
             override == {f \in Fan : SafetyAdjust(f, seen[f], target[f], forced).reason # ""}
             tracked == [f \in Fan |->
                      [seen[f] EXCEPT !.percent = Clamp(target[f], 1, 100),
                                      !.requested = Clamp(target[f], 1, 100),
                                      !.reason = ""]]
             fans == [f \in Fan |-> IF f \in override THEN seen[f] ELSE tracked[f]]
             base == [Now EXCEPT !.fan = fans]
             switched == IF override # {} THEN ApplyFanMode(base, "manual", first) ELSE base
             retried == IF override = Fan /\ ~DaemonControlApplied(first)
                        THEN ApplyFanMode(switched, "manual", second) ELSE switched
             restored == IF ShouldRestore(override)
                         THEN ApplyFanMode(retried, "auto", second) ELSE retried
             m == SetFans(restored, override, target, forced, ok)
  <1>1. Commit(m)
    BY DEF PollFirmwareAuto
  <1>2. override \in SUBSET Fan /\ ok \in Io
    BY IoType
  <1>3. \A f \in Fan : target[f] \in Int
    BY TargetRange DEF Percent
  <1>4. target \in [Fan -> Int]
    BY <1>3
  <1>5. \A f \in override : /\ f \in Fan
                            /\ SafetyAdjust(f, seen[f], target[f], forced).reason # ""
    OBVIOUS
  <1> HIDE DEF target, override
  <1>6. tracked \in [Fan -> FanState]
    <2>1. ASSUME NEW f \in Fan
          PROVE  [seen[f] EXCEPT !.percent = Clamp(target[f], 1, 100),
                                 !.requested = Clamp(target[f], 1, 100),
                                 !.reason = ""] \in FanState
      <3>1. seen[f] \in FanState /\ Clamp(target[f], 1, 100) \in Percent /\ "" \in Reason
        BY <1>3, RequestRange DEF Reason
      <3>2. QED
        BY <3>1, TrackedType
    <2>2. QED
      BY <2>1
  <1> HIDE DEF tracked
  <1>7. fans \in [Fan -> FanState] /\ \A f \in override : fans[f] = seen[f]
    BY <1>2, <1>6
  <1> HIDE DEF fans
  <1>8. base \in Machine /\ base.fan = fans /\ base.mode = mode
    BY <1>7, NowType DEF Machine, Now
  <1> HIDE DEF base
  <1>9. "manual" \in FanMode /\ "auto" \in FanMode
    BY DEF FanMode
  <1>10. /\ switched \in Machine /\ switched.fan = fans
         /\ NoTurbo(mode) => NoTurbo(switched.mode)
         /\ override = {} => switched.mode = mode
    BY <1>8, <1>9, ModeApplied, ModeKeepsFans
  <1> HIDE DEF switched
  <1>11. retried = switched
    BY BothTrue
  <1> HIDE DEF retried
  <1>12. /\ restored \in Machine /\ restored.fan = fans
         /\ NoTurbo(mode) => NoTurbo(restored.mode)
         /\ ShouldRestore(override) /\ FanModesAvailable => AllIn(restored.mode, "auto")
         /\ override = {} /\ ~ShouldRestore(override) => restored.mode = mode
    BY <1>9, <1>10, <1>11, ModeApplied, ModeKeepsFans
  <1> HIDE DEF restored
  <1>13. m.mode = restored.mode
    BY <1>2, <1>4, <1>12, SetFansType
  <1>14. ASSUME NEW f \in override PROVE m.fan[f].reason # ""
    <2>1. m.fan[f] = SetFanState(f, fans[f], target[f], forced, ok[f])
      BY <1>5, <1>12 DEF SetFans, Machine
    <2>2. ok[f] = TRUE
      BY <1>5 DEF ReliableWrites, Both
    <2>3. SetFanState(f, fans[f], target[f], forced, ok[f]).reason
             = SafetyAdjust(f, fans[f], target[f], forced).reason
      <3>1. f \in Fan /\ fans[f] \in FanState /\ target[f] \in Int
        BY <1>3, <1>5, <1>7
      <3>2. QED
        BY <2>2, <3>1, ReasonRecorded
    <2>4. QED
      BY <1>5, <1>7, <2>1, <2>3
  <1> HIDE DEF m
  <1>15. fan' = m.fan /\ mode' = m.mode
    BY <1>1 DEF Commit
  <1>16. ASSUME FanModesAvailable, \A f \in Fan : fan'[f].reason = ""
         PROVE  AllIn(mode', "auto") \/ (mode' = mode /\ \A f \in Fan : fan[f].reason = "")
    <2>1. override = {}
      BY <1>2, <1>14, <1>15, <1>16
    <2>2. QED
      BY <1>12, <1>13, <1>15, <1>16, <2>1 DEF ShouldRestore
  <1>17. QED
    BY <1>12, <1>13, <1>15, <1>16

\* In every other mode a poll leaves the fan modes alone.
LEMMA PollDaemonModes ==
    ASSUME TypeOK, NEW seen \in [Fan -> FanState], NEW forced \in Reason, NEW ok \in Io,
           PollDaemonControl(seen, forced, ok)
    PROVE  mode' = mode
  <1> DEFINE target == [f \in Fan |-> IF auto THEN AutoPercent(f, seen[f], forced)
                                              ELSE Target(seen[f])]
             changed == {f \in Fan : NeedsWrite(f, seen[f], target[f], forced)}
             fans == [f \in Fan |->
                    IF f \in changed THEN seen[f]
                    ELSE [seen[f] EXCEPT !.reason =
                             SafetyAdjust(f, seen[f], target[f], forced).reason]]
             base == [Now EXCEPT !.fan = fans]
             m == SetFans(base, changed, target, forced, ok)
  <1>1. Commit(m)
    BY DEF PollDaemonControl
  <1> HIDE DEF target, changed, fans
  <1>2. base.mode = mode
    BY DEF Now
  <1>3. m.mode = base.mode
    BY DEF SetFans
  <1>4. QED
    BY <1>1, <1>2, <1>3 DEF Commit

\* What a restart makes of the fan modes: firmware's in firmware-auto, else its
\* own; without fan modes what they were.
LEMMA RestoredModes ==
    ASSUME ReliableWrites, NEW fresh \in Machine, NEW file \in SavedState,
           NEW toMode \in ModeWrites, NEW ok \in Writes,
           NEW offMode \in ModeWrites, NEW off \in Writes
    PROVE  LET r == Restored(fresh, file, toMode, ok, offMode, off)
           IN  /\ FanModesAvailable =>
                     AllIn(r.m.mode, IF r.preset = "firmware-auto" THEN "auto" ELSE "manual")
               /\ ~FanModesAvailable => r.m.mode = fresh.mode
  <1> DEFINE percent == [f \in Fan |-> RestoredPercent(f, file)]
             name == RestoredPreset(file)
             manual == ApplyFanMode(fresh, "manual", toMode)
             targetFans == [f \in Fan |->
                      [fresh.fan[f] EXCEPT !.percent = percent[f], !.requested = percent[f]]]
             targets == [fresh EXCEPT !.fan = targetFans]
             applied == SetInTurn(manual, percent, ok)
             named == SetInTurn(manual, Presets[name], ok)
             firmware == ApplyFanMode(targets, "auto", toMode)
             back == IF FanModeApplied(toMode) THEN name ELSE "manual"
             branch ==
                 IF file.auto THEN [m |-> applied, preset |-> "auto"]
                 ELSE IF name = "firmware-auto" THEN [m |-> firmware, preset |-> back]
                 ELSE IF name \in DOMAIN Presets THEN [m |-> named, preset |-> name]
                 ELSE [m |-> applied, preset |-> "manual"]
             r == Restored(fresh, file, toMode, ok, offMode, off)
  <1>1. r = IF FanModesAvailable /\ branch.preset # "firmware-auto"
            THEN [branch EXCEPT !.m = CoolBoostOff(branch.m, offMode, off)]
            ELSE branch
    BY DEF Restored
  <1>2. \A f \in Fan : RestoredPercent(f, file) \in Percent
    BY WriteRange DEF RestoredPercent, Percent
  <1>3. percent \in [Fan -> Percent]
    BY <1>2
  <1>4. percent \in [Fan -> Int]
    BY <1>3 DEF Percent
  <1> HIDE DEF percent, name
  <1>5. "manual" \in FanMode /\ "auto" \in FanMode
    BY DEF FanMode
  <1>6. manual \in Machine /\ (~FanModesAvailable => manual = fresh)
    BY <1>5, ModeApplied
  <1>7. targetFans \in [Fan -> FanState]
    <2>1. ASSUME NEW f \in Fan
          PROVE  [fresh.fan[f] EXCEPT !.percent = percent[f], !.requested = percent[f]]
                    \in FanState
      <3>1. fresh.fan[f] \in FanState /\ percent[f] \in Percent /\ "" \in Reason
        BY <1>3 DEF Machine, Reason
      <3>2. QED
        BY <3>1, TrackedType
    <2>2. QED
      BY <2>1
  <1> HIDE DEF targetFans
  <1>8. targets \in Machine /\ targets.mode = fresh.mode
    BY <1>7 DEF Machine
  <1> HIDE DEF targets, manual
  <1>9. /\ firmware \in Machine
        /\ FanModesAvailable => AllIn(firmware.mode, "auto")
        /\ ~FanModesAvailable => firmware.mode = fresh.mode
    BY <1>5, <1>8, ModeApplied
  <1>10. ok \in Io
    BY IoType
  <1>11. applied \in Machine /\ (~FanModesAvailable => applied.mode = fresh.mode)
    BY <1>4, <1>6, <1>10, SetInTurnType
  <1>12. name \in DOMAIN Presets
           => named \in Machine /\ (~FanModesAvailable => named.mode = fresh.mode)
    <2>1. ASSUME name \in DOMAIN Presets PROVE Presets[name] \in [Fan -> Int]
      BY <2>1, FanControlAssumption
    <2>2. QED
      BY <1>6, <1>10, <2>1, SetInTurnType
  <1> HIDE DEF firmware, applied, named, back
  <1>13. /\ branch = [m |-> branch.m, preset |-> branch.preset]
         /\ branch.m \in Machine
         /\ ~FanModesAvailable => branch.m.mode = fresh.mode
         /\ branch.preset = "firmware-auto" => branch.m = firmware
    BY <1>9, <1>11, <1>12, NamesApart
  <1> HIDE DEF branch
  <1>14. AllIn(CoolBoostOff(branch.m, offMode, off).mode, "manual") \/ ~FanModesAvailable
    BY <1>13, TurboLeft
  <1>15. CASE FanModesAvailable /\ branch.preset # "firmware-auto"
    <2>1. r.m = CoolBoostOff(branch.m, offMode, off) /\ r.preset = branch.preset
      BY <1>1, <1>13, <1>15
    <2> HIDE DEF r
    <2>2. QED
      BY <1>14, <1>15, <2>1 DEF r
  <1>16. CASE ~(FanModesAvailable /\ branch.preset # "firmware-auto")
    <2>1. r = branch
      BY <1>1, <1>16
    <2> HIDE DEF r
    <2>2. QED
      BY <1>9, <1>13, <1>16, <2>1 DEF r
  <1>17. QED
    BY <1>15, <1>16

\* Init writes never switch turbo on.
LEMMA InitNoTurbo ==
    ASSUME NEW m \in Machine, NEW ok, NoTurbo(m.mode)
    PROVE  NoTurbo(ApplyInitWrites(m, ok).mode)
  <1> DEFINE modes == [f \in Fan |-> IF ok[f] THEN "manual" ELSE m.mode[f]]
  <1>1. ApplyInitWrites(m, ok) = IF InitWritesModes THEN [m EXCEPT !.mode = modes] ELSE m
    BY DEF ApplyInitWrites
  <1>2. NoTurbo(modes)
    BY DEF NoTurbo
  <1> HIDE DEF modes
  <1>3. QED
    BY <1>1, <1>2 DEF Machine

LEMMA StartModes ==
    ASSUME ReliableWrites, TypeOK, ChoiceInv, ModeInv, Start
    PROVE  NoTurbo(mode') /\ (FirmwareAuto' => AllIn(mode', "auto"))
  <1>1. PICK seed \in Seeds, init \in ModeWrites, toMode \in ModeWrites,
             offMode \in ModeWrites, ok \in Writes, off \in Writes, save \in Saves :
          LET powered == [Now EXCEPT !.fan = [f \in Fan |-> StartState(f, seed[f])]]
              fresh == ApplyInitWrites(powered, init)
          IN  \/ saved = {} /\ StartDefault(fresh, toMode, ok, save)
              \/ \E file \in saved :
                    LET restored == Restored(fresh, file, toMode, ok, offMode, off)
                    IN  /\ Commit(restored.m)
                        /\ SetControlMode(file.auto, restored.preset)
                        /\ UNCHANGED saved
    BY DEF Start
  <1>2. init \in Io /\ ok \in Io /\ seed \in [Fan -> 0..129]
    BY IoType, FanControlAssumption
  <1> DEFINE started == [f \in Fan |-> StartState(f, seed[f])]
             powered == [Now EXCEPT !.fan = started]
             fresh == ApplyInitWrites(powered, init)
  <1>3. started \in [Fan -> FanState]
    <2>1. \A f \in Fan : seed[f] \in Int
      BY <1>2
    <2>2. QED
      BY <2>1, StartStateType
  <1>4. \/ saved = {} /\ StartDefault(fresh, toMode, ok, save)
        \/ \E file \in saved :
              LET restored == Restored(fresh, file, toMode, ok, offMode, off)
              IN  /\ Commit(restored.m)
                  /\ SetControlMode(file.auto, restored.preset)
    BY <1>1
  <1> HIDE DEF started
  <1>5. powered \in Machine /\ powered.mode = mode
    BY <1>3, NowType DEF Machine, Now
  <1> HIDE DEF powered
  <1>6. fresh \in Machine /\ (NoTurbo(mode) => NoTurbo(fresh.mode))
    BY <1>2, <1>5, ApplyInitWritesType, InitNoTurbo
  <1> HIDE DEF fresh
  <1>7. CASE saved = {} /\ StartDefault(fresh, toMode, ok, save)
    <2>1. NoTurbo(fresh.mode) /\ "manual" \in FanMode /\ "auto" \in FanMode
      BY <1>6, <1>7 DEF ModeInv, FanMode
    <2>2. \/ Commit(ApplyFanMode(fresh, "manual", toMode)) /\ SetControlMode(TRUE, "auto")
          \/ /\ FanModesAvailable /\ Commit(ApplyFanMode(fresh, "auto", toMode))
             /\ SetControlMode(FALSE, "firmware-auto")
          \/ /\ DefaultPreset \in DOMAIN Presets
             /\ Commit(SetInTurn(fresh, Presets[DefaultPreset], ok))
             /\ SetControlMode(FALSE, DefaultPreset)
      BY <1>7, BothTrue DEF StartDefault, ReliableWrites, FanModeApplied
    <2>3. DefaultPreset \in DOMAIN Presets =>
            /\ SetInTurn(fresh, Presets[DefaultPreset], ok).mode = fresh.mode
            /\ DefaultPreset # "firmware-auto"
      <3>1. ASSUME DefaultPreset \in DOMAIN Presets
            PROVE  Presets[DefaultPreset] \in [Fan -> Int]
        BY <3>1, FanControlAssumption
      <3>2. QED
        BY <1>2, <1>6, <3>1, SetInTurnType, NamesApart
    <2>4. /\ NoTurbo(ApplyFanMode(fresh, "manual", toMode).mode)
          /\ FanModesAvailable => AllIn(ApplyFanMode(fresh, "auto", toMode).mode, "auto")
      BY <1>6, <2>1, ModeApplied
    <2>5. QED
      BY <2>1, <2>2, <2>3, <2>4, ManualHasNoTurbo DEF Commit, SetControlMode, FirmwareAuto
  <1>8. ASSUME NEW file \in saved,
               Commit(Restored(fresh, file, toMode, ok, offMode, off).m),
               SetControlMode(file.auto, Restored(fresh, file, toMode, ok, offMode, off).preset)
        PROVE  NoTurbo(mode') /\ (FirmwareAuto' => AllIn(mode', "auto"))
    <2> DEFINE r == Restored(fresh, file, toMode, ok, offMode, off)
    <2>1. file \in SavedState
      BY DEF TypeOK
    <2>2. /\ FanModesAvailable =>
                AllIn(r.m.mode, IF r.preset = "firmware-auto" THEN "auto" ELSE "manual")
          /\ ~FanModesAvailable => r.m.mode = fresh.mode
      BY <1>6, <2>1, RestoredModes
    <2>3. mode' = r.m.mode /\ preset' = r.preset
      BY <1>8 DEF Commit, SetControlMode
    <2> HIDE DEF r
    <2>4. ChoiceInv'
      BY ChoiceStart
    <2>5. CASE FanModesAvailable
      BY <2>2, <2>3, <2>5, ManualHasNoTurbo DEF FirmwareAuto
    <2>6. CASE ~FanModesAvailable
      <3>1. NoTurbo(mode')
        BY <1>6, <2>2, <2>3, <2>6 DEF ModeInv
      <3>2. ~FirmwareAuto'
        BY <2>4, <2>6 DEF ChoiceInv, Proper, FirmwareAuto
      <3>3. QED
        BY <3>1, <3>2
    <2>7. QED
      BY <2>5, <2>6
  <1>9. QED
    BY <1>4, <1>7, <1>8

LEMMA ResumeModes ==
    ASSUME ReliableWrites, TypeOK, ChoiceInv, Resume
    PROVE  /\ NoTurbo(mode) => NoTurbo(mode')
           /\ FirmwareAuto => AllIn(mode', "auto")
  <1>1. PICK init \in ModeWrites, back \in ModeWrites, ok \in Writes :
          LET m == ApplyInitWrites(Now, init)
          IN  \/ FirmwareAuto /\ Commit(ApplyFanMode(m, "auto", back))
              \/ ~FirmwareAuto /\ Commit(ApplyCurrentControlState(m, ok))
    BY DEF Resume
  <1>2. init \in Io /\ ok \in Io /\ Now \in Machine /\ Now.mode = mode /\ "auto" \in FanMode
    BY IoType, NowType DEF Now, FanMode
  <1> DEFINE m == ApplyInitWrites(Now, init)
  <1>3. m \in Machine /\ (NoTurbo(mode) => NoTurbo(m.mode))
    BY <1>2, ApplyInitWritesType, InitNoTurbo
  <1>4. \/ FirmwareAuto /\ Commit(ApplyFanMode(m, "auto", back))
        \/ ~FirmwareAuto /\ Commit(ApplyCurrentControlState(m, ok))
    BY <1>1
  <1> HIDE DEF m
  <1>5. /\ ApplyCurrentControlState(m, ok).mode = m.mode
        /\ FanModesAvailable => AllIn(ApplyFanMode(m, "auto", back).mode, "auto")
        /\ NoTurbo(mode) => NoTurbo(ApplyFanMode(m, "auto", back).mode)
    BY <1>2, <1>3, ApplyCurrentType, ModeApplied
  <1>6. FirmwareAuto => FanModesAvailable
    BY DEF FirmwareAuto, ChoiceInv, Proper
  <1>7. QED
    BY <1>3, <1>4, <1>5, <1>6 DEF Commit

LEMMA PollModes ==
    ASSUME ReliableWrites, TypeOK, Poll
    PROVE  /\ NoTurbo(mode) => NoTurbo(mode')
           /\ FanModesAvailable /\ FirmwareAuto /\ (\A f \in Fan : fan'[f].reason = "")
                => \/ AllIn(mode', "auto")
                   \/ mode' = mode /\ \A f \in Fan : fan[f].reason = ""
  <1>1. PICK sample \in Observations, reads \in Reads, ok \in Writes,
             first \in Outcomes(FirmwareAuto, ModeWrites),
             second \in Outcomes(FirmwareAuto, ModeWrites) :
             PollWith(sample, reads, first, second, ok)
    BY DEF Poll
  <1>2. ok \in Io /\ first \in ModeWrites /\ second \in ModeWrites
    BY IoType DEF Outcomes, ReliableWrites
  <1> DEFINE seen == [f \in Fan |-> Observe(fan[f], reads[f], sample[f])]
             forced == ForcedReason(seen)
  <1>3. \/ FirmwareAuto /\ PollFirmwareAuto(seen, forced, first, second, ok)
        \/ ~FirmwareAuto /\ PollDaemonControl(seen, forced, ok)
    BY <1>1 DEF PollWith
  <1>4. seen \in [Fan -> FanState] /\ forced \in Reason
    BY SeenType, ForcedReasonType
  <1> HIDE DEF seen, forced
  <1>5. CASE FirmwareAuto /\ PollFirmwareAuto(seen, forced, first, second, ok)
    BY <1>2, <1>4, <1>5, PollFirmwareModes
  <1>6. CASE ~FirmwareAuto /\ PollDaemonControl(seen, forced, ok)
    BY <1>2, <1>4, <1>6, PollDaemonModes
  <1>7. QED
    BY <1>3, <1>5, <1>6

\* The whole invariant: choice, file and fan modes.
LEMMA ModeStep ==
    ASSUME ReliableWrites, TypeOK, ChoiceInv, ModeInv, FirmwareOwnsWhenSafe, [Next]_vars
    PROVE  ModeInv' /\ FirmwareOwnsWhenSafe'
  <1>1. ASSUME NoTurbo(mode'), ~FirmwareAuto' \/ AllIn(mode', "auto")
        PROVE  ModeInv' /\ FirmwareOwnsWhenSafe'
    BY <1>1 DEF ModeInv, FirmwareOwnsWhenSafe, AllIn, FirmwareAuto
  <1>2. FirmwareAuto => FanModesAvailable
    BY DEF FirmwareAuto, ChoiceInv, Proper
  <1>3. CASE \/ \E S \in SetScopes, p \in SetPercents : Set(S, p)
             \/ \E id \in DOMAIN Presets : ApplyPreset(id)
             \/ AutoMode
    BY <1>1, <1>3, ControlNoTurbo, ChoiceCommand DEF FirmwareAuto
  <1>4. CASE FirmwareAutoMode \/ FanModeManual \/ CoolBoostOffCommand
    <2>1. /\ \/ AllIn(mode', "auto")
             \/ AllIn(mode', "manual") /\ ~FirmwareAuto'
          /\ saved' # {}
      <3>1. saved' # {}
        BY <1>4, ChoiceCommand
      <3>2. ~CoolBoostOn
        BY <1>4, CommandModes, BothTrue DEF CoolBoostOn, FirmwareAutoMode, FanModeManual,
           CoolBoostOffCommand
      <3>3. QED
        BY <1>4, <3>1, <3>2, CommandModes DEF FirmwareAuto
    <2>2. QED
      BY <1>1, <2>1, ManualHasNoTurbo
  <1>5. CASE CoolBoostOn
    <2>1. /\ FanModesAvailable /\ saved' # {}
          /\ AllIn(mode', "turbo") /\ coolboost'
      <3>1. PICK ok \in ModeWrites : Commit(ApplyFanMode(Now, "turbo", ok)) /\ coolboost' = TRUE
        BY <1>5, BothTrue DEF CoolBoostOn
      <3>2. Now \in Machine /\ "turbo" \in FanMode /\ FanModesAvailable
        BY <1>5, NowType DEF FanMode, CoolBoostOn
      <3>3. QED
        BY <1>5, <3>1, <3>2, ModeApplied, ChoiceCommand DEF Commit
    <2>2. QED
      BY <2>1 DEF ModeInv, FirmwareOwnsWhenSafe, AllIn
  <1>6. CASE SaveWithOtherSetting
    <2>1. saved' # {} /\ UNCHANGED <<fan, speed, mode, auto, preset, coolboost, running>>
      BY <1>6, ChoiceCommand DEF SaveWithOtherSetting
    <2>2. QED
      BY <2>1 DEF ModeInv, FirmwareOwnsWhenSafe, FirmwareAuto, NoTurbo
  <1>7. CASE Poll
    <2>1. UNCHANGED <<auto, preset, coolboost, running, saved>>
      BY <1>7 DEF Poll, PollWith
    <2>2. /\ NoTurbo(mode) => NoTurbo(mode')
          /\ FirmwareAuto /\ (\A f \in Fan : fan'[f].reason = "")
                => \/ AllIn(mode', "auto")
                   \/ mode' = mode /\ \A f \in Fan : fan[f].reason = ""
      BY <1>2, <1>7, PollModes
    <2>3. ModeInv'
      BY <2>1, <2>2 DEF ModeInv
    <2>4. FirmwareOwnsWhenSafe'
      BY <2>1, <2>2 DEF FirmwareOwnsWhenSafe, FirmwareAuto, AllIn
    <2>5. QED
      BY <2>3, <2>4
  <1>8. CASE Resume
    <2>1. UNCHANGED <<auto, preset, coolboost, running, saved>>
      BY <1>8 DEF Resume
    <2>2. /\ NoTurbo(mode) => NoTurbo(mode')
          /\ FirmwareAuto => AllIn(mode', "auto")
      BY <1>8, ResumeModes
    <2>3. QED
      BY <2>1, <2>2 DEF ModeInv, FirmwareOwnsWhenSafe, FirmwareAuto, AllIn
  <1>9. CASE Suspend
    <2>1. AllIn(mode', "auto") /\ UNCHANGED <<running, saved>>
      BY <1>9 DEF Suspend, AllIn
    <2>2. QED
      BY <1>1, <2>1, ManualHasNoTurbo DEF ModeInv
  <1>10. CASE Stop
    <2>1. NoTurbo(mode) => NoTurbo(mode')
      BY <1>10 DEF Stop, NoTurbo
    <2>2. QED
      BY <1>10, <2>1, ChoiceForgotten DEF ModeInv, FirmwareOwnsWhenSafe
  <1>11. CASE Crash
    <2>1. mode' = mode
      BY <1>11 DEF Crash
    <2>2. QED
      BY <1>11, <2>1, ChoiceForgotten DEF ModeInv, FirmwareOwnsWhenSafe
  <1>12. CASE Start
    BY <1>1, <1>12, StartModes, ChoiceStart
  <1>13. CASE UNCHANGED vars
    BY <1>13 DEF vars, ModeInv, FirmwareOwnsWhenSafe, FirmwareAuto
  <1>14. QED
    BY <1>3, <1>4, <1>5, <1>6, <1>7, <1>8, <1>9, <1>10, <1>11, <1>12, <1>13 DEF Next

LEMMA ModeAtStart == Init => ModeInv /\ FirmwareOwnsWhenSafe
  BY DEF Init, ModeInv, NoTurbo, FirmwareOwnsWhenSafe

LEMMA ModesHold == ASSUME ReliableWrites PROVE Spec => [](ModeInv /\ FirmwareOwnsWhenSafe)
  <1>1. Init => ChoiceInv /\ ModeInv /\ FirmwareOwnsWhenSafe
    BY ChoiceAtStart, ModeAtStart
  <1>2. TypeOK /\ ChoiceInv /\ ModeInv /\ FirmwareOwnsWhenSafe /\ [Next]_vars
          => ChoiceInv' /\ ModeInv' /\ FirmwareOwnsWhenSafe'
    BY ChoiceStep, ModeStep
  <1>3. QED
    BY <1>1, <1>2, TypeCorrect, PTL DEF Spec

\* Turbo never outlives the flag that reports it: not through presets, failed
\* sensors, sleeps or crashes, on models with and without fan modes
\* (disable_coolboost_if_needed, restore_control_state_from_json).
THEOREM TurboReported ==
    ASSUME ReliableWrites
    PROVE  Spec => []TurboIsReported
  <1>1. ModeInv => TurboIsReported
    BY DEF ModeInv, NoTurbo, TurboIsReported
  <1>2. QED
    BY <1>1, ModesHold, PTL

\* In firmware-auto with no safety reason left, firmware owns both fans, or
\* turbo was asked for (restore_firmware_auto_mode_if_needed).
THEOREM FirmwareOwns ==
    ASSUME ReliableWrites
    PROVE  Spec => []FirmwareOwnsWhenSafe
  BY ModesHold, PTL

-----------------------------------------------------------------------------
\* The targets

\* No fan starts at 0.
ResetAboveZero == \A f \in Fan : FanConfig[f].reset_speed > 0

\* Once every request is above 0 it is what the fan is asked to run at.
Requests(fans) == \A f \in Fan : fans[f].requested > 0

\* One set of fans asks for the same as another.
SameRequests(fans, others) == \A f \in Fan : fans[f].requested = others[f].requested

TargetInv ==
    /\ Requests(fan)
    /\ \A file, other \in saved : file = other
    /\ \A file \in saved, f \in Fan : file.percent[f] > 0
    /\ TargetsAreSaved

\* A write that succeeds records the request.
LEMMA RequestRecorded ==
    ASSUME NEW f \in Fan, NEW s \in FanState, NEW requested \in Int, NEW forced \in Reason,
           NEW ok, ok = TRUE
    PROVE  SetFanState(f, s, requested, forced, ok).requested = Clamp(requested, 1, 100)
  <1> DEFINE q == Clamp(requested, 1, 100)
             p == SafetyAdjust(f, s, requested, forced).percent
             r == SafetyAdjust(f, s, requested, forced).reason
  <1>1. q \in Percent /\ p \in Percent /\ r \in Reason
    BY RequestRange, AdjustType DEF Adjusted
  <1>2. SetFanState(f, s, requested, forced, ok) = Written(s, q, p, r)
    BY DEF SetFanState, Written
  <1> HIDE DEF q, p, r
  <1>3. Written(s, q, p, r).requested = q
    BY <1>1, RecordedWrite
  <1>4. QED
    BY <1>2, <1>3 DEF q

LEMMA SetFansRequests ==
    ASSUME ReliableWrites, NEW m \in Machine, NEW S \in SUBSET Fan,
           NEW requested \in [Fan -> Int], NEW forced \in Reason, NEW ok \in Writes
    PROVE  /\ SetFans(m, S, requested, forced, ok) \in Machine
           /\ \A f \in Fan : SetFans(m, S, requested, forced, ok).fan[f].requested
                = IF f \in S THEN Clamp(requested[f], 1, 100) ELSE m.fan[f].requested
  <1>1. SetFans(m, S, requested, forced, ok) \in Machine
    BY IoType, SetFansType
  <1>2. ASSUME NEW f \in Fan
        PROVE  SetFans(m, S, requested, forced, ok).fan[f]
                 = IF f \in S THEN SetFanState(f, m.fan[f], requested[f], forced, ok[f])
                              ELSE m.fan[f]
    BY DEF SetFans, Machine
  <1>3. ASSUME NEW f \in Fan PROVE ok[f] = TRUE /\ m.fan[f] \in FanState /\ requested[f] \in Int
    BY DEF ReliableWrites, Both, Machine
  <1>4. ASSUME NEW f \in S
        PROVE  SetFanState(f, m.fan[f], requested[f], forced, ok[f]).requested
                 = Clamp(requested[f], 1, 100)
    <2>1. f \in Fan
      OBVIOUS
    <2>2. ok[f] = TRUE /\ m.fan[f] \in FanState /\ requested[f] \in Int
      BY <1>3, <2>1
    <2> DEFINE s == m.fan[f]
               q == requested[f]
               o == ok[f]
    <2>3. o = TRUE /\ s \in FanState /\ q \in Int
      BY <2>2
    <2> HIDE DEF s, q, o
    <2>4. SetFanState(f, s, q, forced, o).requested = Clamp(q, 1, 100)
      BY <2>1, <2>3, RequestRecorded
    <2>5. QED
      BY <2>4 DEF s, q, o
  <1>5. QED
    BY <1>1, <1>2, <1>4

LEMMA InTurnRequests ==
    ASSUME ReliableWrites, NEW m \in Machine, NEW requested \in [Fan -> Int], NEW ok \in Writes
    PROVE  /\ SetInTurn(m, requested, ok) \in Machine
           /\ \A f \in Fan :
                SetInTurn(m, requested, ok).fan[f].requested = Clamp(requested[f], 1, 100)
  <1> DEFINE cpu == SetFans(m, {"cpu"}, requested, GlobalReason(m.fan), ok)
             n == SetFans(cpu, {"gpu"}, requested, GlobalReason(cpu.fan), ok)
  <1>1. {"cpu"} \in SUBSET Fan /\ {"gpu"} \in SUBSET Fan
    BY DEF Fan
  <1>2. cpu \in Machine /\ cpu.fan["cpu"].requested = Clamp(requested["cpu"], 1, 100)
    <2>1. /\ cpu \in Machine
          /\ \A f \in Fan : cpu.fan[f].requested
               = IF f \in {"cpu"} THEN Clamp(requested[f], 1, 100) ELSE m.fan[f].requested
      BY <1>1, GlobalReasonType, SetFansRequests
    <2> HIDE DEF cpu
    <2>2. QED
      BY <2>1 DEF Fan
  <1>3. SetInTurn(m, requested, ok) = n
    BY DEF SetInTurn
  <1> HIDE DEF cpu
  <1>4. /\ n \in Machine
        /\ \A f \in Fan : n.fan[f].requested
             = IF f \in {"gpu"} THEN Clamp(requested[f], 1, 100) ELSE cpu.fan[f].requested
    BY <1>1, <1>2, GlobalReasonType, SetFansRequests
  <1> HIDE DEF n
  <1>5. QED
    BY <1>2, <1>3, <1>4 DEF Fan

\* A request above 0 is the target, and is within the range of requests.
LEMMA RequestIsTarget ==
    ASSUME NEW s \in FanState, s.requested > 0
    PROVE  /\ Target(s) = s.requested /\ s.requested \in 1..100
           /\ Clamp(s.requested, 1, 100) = s.requested
  BY FanStateFields DEF Target, Percent, Clamp

LEMMA ApplyCurrentRequests ==
    ASSUME ReliableWrites, NEW m \in Machine, Requests(m.fan), NEW ok \in Writes
    PROVE  SameRequests(ApplyCurrentControlState(m, ok).fan, m.fan)
  <1> DEFINE target == [f \in Fan |-> Target(m.fan[f])]
  <1>1. ASSUME NEW f \in Fan
        PROVE  target[f] \in Int /\ Clamp(target[f], 1, 100) = m.fan[f].requested
    BY RequestIsTarget DEF Machine, Requests
  <1>2. target \in [Fan -> Int] /\ Fan \in SUBSET Fan
    BY <1>1
  <1>3. ApplyCurrentControlState(m, ok) = SetFans(m, Fan, target, GlobalReason(m.fan), ok)
    BY DEF ApplyCurrentControlState
  <1> HIDE DEF target
  <1>4. QED
    BY <1>1, <1>2, <1>3, GlobalReasonType, SetFansRequests DEF SameRequests

LEMMA CoolBoostOffRequests ==
    ASSUME ReliableWrites, NEW m \in Machine, Requests(m.fan),
           NEW modeOk \in ModeWrites, NEW ok \in Writes
    PROVE  SameRequests(CoolBoostOff(m, modeOk, ok).fan, m.fan)
  <1> DEFINE manual == ApplyFanMode(m, "manual", modeOk)
  <1>1. manual.fan = m.fan /\ manual \in Machine
    BY ModeKeepsFans, ModeApplied DEF FanMode
  <1>2. CoolBoostOff(m, modeOk, ok)
          = IF FanModeApplied(modeOk) THEN ApplyCurrentControlState(manual, ok) ELSE manual
    BY DEF CoolBoostOff
  <1> HIDE DEF manual
  <1>3. SameRequests(ApplyCurrentControlState(manual, ok).fan, manual.fan)
    BY <1>1, ApplyCurrentRequests
  <1>4. QED
    BY <1>1, <1>2, <1>3 DEF SameRequests

LEMMA PreparedRequests ==
    ASSUME ReliableWrites, TypeOK, Requests(fan),
           NEW offMode \in Outcomes(coolboost, ModeWrites), NEW off \in Outcomes(coolboost, Writes),
           NEW toManual \in ModeWrites
    PROVE  /\ Prepared(offMode, off, toManual) \in Machine
           /\ SameRequests(Prepared(offMode, off, toManual).fan, fan)
  <1>1. offMode \in ModeWrites /\ off \in Writes
    BY DEF Outcomes, ReliableWrites
  <1>2. Now \in Machine /\ Now.fan = fan
    BY NowType DEF Now
  <1> DEFINE calm == IF coolboost THEN CoolBoostOff(Now, offMode, off) ELSE Now
  <1>3. calm \in Machine /\ SameRequests(calm.fan, fan)
    BY <1>1, <1>2, TurboLeft, CoolBoostOffRequests DEF SameRequests
  <1>4. Prepared(offMode, off, toManual) = ApplyFanMode(calm, "manual", toManual)
    BY DEF Prepared
  <1> HIDE DEF calm
  <1>5. QED
    BY <1>3, <1>4, ModeKeepsFans, ModeApplied DEF FanMode

-----------------------------------------------------------------------------

\* A handler that saves what it leaves the fans asked for.
LEMMA TargetsSavedBy ==
    ASSUME ReliableWrites, NEW m \in Machine, NEW a, NEW p, NEW ok, ok, Save(m, a, p, ok),
           SameRequests(fan', m.fan), fan' \in [Fan -> FanState], Requests(m.fan)
    PROVE  TargetInv'
  <1> DEFINE percent == [f \in Fan |-> Target(m.fan[f])]
             file == [auto |-> a, preset |-> p, percent |-> percent]
  <1>1. saved' = {file} /\ file.percent = percent
    BY DEF Save
  <1> HIDE DEF file
  <1>2. Requests(fan')
    BY DEF Requests, SameRequests
  <1>3. ASSUME NEW f \in Fan PROVE percent[f] = Target(fan'[f]) /\ percent[f] > 0
    <2>1. Target(m.fan[f]) = m.fan[f].requested /\ m.fan[f].requested > 0
      BY RequestIsTarget DEF Machine, Requests
    <2>2. Target(fan'[f]) = fan'[f].requested
      BY <1>2, RequestIsTarget DEF Requests
    <2>3. QED
      BY <2>1, <2>2 DEF SameRequests
  <1> HIDE DEF percent
  <1>4. QED
    BY <1>1, <1>2, <1>3 DEF TargetInv, TargetsAreSaved

\* A step that leaves the requests, the file and the control mode alone.
LEMMA TargetsUntouched ==
    ASSUME TypeOK, TypeOK', TargetInv, SameRequests(fan', fan),
           UNCHANGED <<auto, preset, saved, running>>
    PROVE  TargetInv'
  <1>1. Requests(fan')
    BY DEF TargetInv, Requests, SameRequests
  <1>2. ASSUME NEW f \in Fan PROVE Target(fan'[f]) = Target(fan[f])
    <2>1. Target(fan[f]) = fan[f].requested /\ Target(fan'[f]) = fan'[f].requested
      BY <1>1, RequestIsTarget DEF TargetInv, Requests, TypeOK
    <2>2. QED
      BY <2>1 DEF SameRequests
  <1>3. QED
    BY <1>1, <1>2 DEF TargetInv, TargetsAreSaved, FirmwareAuto

LEMMA TargetsCommand ==
    ASSUME ReliableWrites, SetNamesFans, TypeOK, TypeOK', TargetInv,
           \/ \E S \in SetScopes, p \in SetPercents : Set(S, p)
           \/ \E id \in DOMAIN Presets : ApplyPreset(id)
           \/ AutoMode
    PROVE  TargetInv'
  <1>1. ASSUME NEW m \in Machine, Requests(m.fan), Commit(m), NEW a, NEW p, NEW ok, ok,
               Save(m, a, p, ok)
        PROVE  TargetInv'
    BY <1>1, TargetsSavedBy DEF Commit, SameRequests, TypeOK
  <1>2. ASSUME NEW requested \in [Fan -> Int], NEW m \in Machine, NEW ok \in Writes
        PROVE  Requests(SetInTurn(m, requested, ok).fan) /\ SetInTurn(m, requested, ok) \in Machine
    <2>1. \A f \in Fan : SetInTurn(m, requested, ok).fan[f].requested = Clamp(requested[f], 1, 100)
      BY <1>2, InTurnRequests
    <2>2. \A f \in Fan : Clamp(requested[f], 1, 100) > 0
      BY RequestRange
    <2>3. QED
      BY <1>2, <2>1, <2>2, InTurnRequests DEF Requests
  <1>3. ASSUME NEW S \in SetScopes, NEW p \in SetPercents, Set(S, p) PROVE TargetInv'
    <2>1. PICK offMode \in Outcomes(coolboost, ModeWrites), off \in Outcomes(coolboost, Writes),
               toManual \in ModeWrites, ok \in Writes, save \in Saves :
            LET ready == Prepared(offMode, off, toManual)
                m == SetFans(ready, S, [f \in Fan |-> p], GlobalReason(ready.fan), ok)
            IN  Commit(m) /\ Save(m, FALSE, "manual", save /\ \E f \in S : ok[f])
      BY <1>3, BothTrue, ZenonT(30) DEF Set
    <2> DEFINE ready == Prepared(offMode, off, toManual)
               all == [f \in Fan |-> p]
               m == SetFans(ready, S, all, GlobalReason(ready.fan), ok)
    <2>2. ready \in Machine /\ Requests(ready.fan)
      BY PreparedRequests DEF TargetInv, SameRequests, Requests
    <2>3. S \in SUBSET Fan /\ p \in 1..100 /\ S # {} /\ all \in [Fan -> Int]
      <3>1. S \in SUBSET Fan /\ p \in 1..100
        BY FanControlAssumption
      <3>2. S # {}
        BY DEF SetNamesFans
      <3>3. QED
        BY <3>1, <3>2
    <2>4. Clamp(p, 1, 100) > 0
      BY <2>3, RequestRange
    <2>5. Commit(m) /\ Save(m, FALSE, "manual", save /\ \E f \in S : ok[f])
      BY <2>1
    <2> HIDE DEF ready
    <2>6. /\ m \in Machine
          /\ \A f \in Fan : m.fan[f].requested
               = IF f \in S THEN Clamp(all[f], 1, 100) ELSE ready.fan[f].requested
      BY <2>2, <2>3, GlobalReasonType, SetFansRequests
    <2> HIDE DEF m
    <2>7. Requests(m.fan)
      BY <2>2, <2>4, <2>6 DEF Requests
    <2>8. save /\ \E f \in S : ok[f]
      BY <2>3, BothTrue DEF ReliableWrites
    <2>9. QED
      BY <1>1, <2>5, <2>6, <2>7, <2>8
  <1>4. ASSUME NEW requested \in [Fan -> Int], NEW offMode \in Outcomes(coolboost, ModeWrites),
               NEW off \in Outcomes(coolboost, Writes), NEW toManual \in ModeWrites,
               NEW ok \in Writes, NEW save \in Saves, NEW a, NEW p,
               Commit(SetInTurn(Prepared(offMode, off, toManual), requested, ok)),
               Save(SetInTurn(Prepared(offMode, off, toManual), requested, ok), a, p, save)
        PROVE  TargetInv'
    <2>1. Prepared(offMode, off, toManual) \in Machine /\ save
      BY PreparedRequests DEF TargetInv, ReliableWrites
    <2>2. QED
      BY <1>1, <1>2, <1>4, <2>1
  <1>5. ASSUME NEW id \in DOMAIN Presets, ApplyPreset(id) PROVE TargetInv'
    <2>1. PICK offMode \in Outcomes(coolboost, ModeWrites), off \in Outcomes(coolboost, Writes),
               toManual \in ModeWrites, ok \in Writes, save \in Saves :
            /\ Commit(SetInTurn(Prepared(offMode, off, toManual), Presets[id], ok))
            /\ Save(SetInTurn(Prepared(offMode, off, toManual), Presets[id], ok), FALSE, id, save)
      BY <1>5, BothTrue DEF ApplyPreset
    <2>2. Presets[id] \in [Fan -> Int]
      BY FanControlAssumption
    <2>3. QED
      BY <1>4, <2>1, <2>2
  <1>6. ASSUME AutoMode PROVE TargetInv'
    <2> DEFINE reset == [f \in Fan |-> FanConfig[f].reset_speed]
    <2>1. PICK offMode \in Outcomes(coolboost, ModeWrites), off \in Outcomes(coolboost, Writes),
               toManual \in ModeWrites, ok \in Writes, save \in Saves :
            /\ Commit(SetInTurn(Prepared(offMode, off, toManual), reset, ok))
            /\ Save(SetInTurn(Prepared(offMode, off, toManual), reset, ok), TRUE, "auto", save)
      BY <1>6, BothTrue DEF AutoMode
    <2>2. reset \in [Fan -> Int]
      <3>1. ASSUME NEW f \in Fan PROVE FanConfig[f].reset_speed \in Int
        <4>1. FanConfig[f].reset_speed \in Percent
          BY WriteRange
        <4>2. QED
          BY <4>1 DEF Percent
      <3>2. QED
        BY <3>1
    <2> HIDE DEF reset
    <2>3. QED
      BY <1>4, <2>1, <2>2
  <1>7. QED
    BY <1>3, <1>5, <1>6

LEMMA TargetsModeCommand ==
    ASSUME ReliableWrites, TypeOK, TypeOK', TargetInv,
           \/ FirmwareAutoMode \/ FanModeManual \/ CoolBoostOn \/ CoolBoostOffCommand
           \/ SaveWithOtherSetting
    PROVE  TargetInv'
  <1>1. Now \in Machine /\ Now.fan = fan /\ Requests(fan)
    BY NowType DEF Now, TargetInv
  <1>2. ASSUME NEW m, SameRequests(m.fan, fan), m \in Machine, Commit(m), NEW a, NEW p, NEW ok, ok,
               Save(m, a, p, ok)
        PROVE  TargetInv'
    <2>1. Requests(m.fan)
      BY <1>1, <1>2 DEF SameRequests, Requests
    <2>2. QED
      BY <1>2, <2>1, TargetsSavedBy DEF Commit, SameRequests, TypeOK
  <1>3. ASSUME NEW new \in FanMode, NEW ok \in ModeWrites
        PROVE  /\ ApplyFanMode(Now, new, ok) \in Machine
               /\ ApplyFanMode(Now, new, ok).fan = fan
               /\ SameRequests(ApplyFanMode(Now, new, ok).fan, fan)
    BY <1>1, ModeApplied, ModeKeepsFans DEF SameRequests
  <1>4. "auto" \in FanMode /\ "manual" \in FanMode /\ "turbo" \in FanMode
    BY DEF FanMode
  <1>5. ASSUME FirmwareAutoMode PROVE TargetInv'
    <2>1. PICK ok \in ModeWrites, save \in Saves :
            /\ Commit(ApplyFanMode(Now, "auto", ok))
            /\ Save(ApplyFanMode(Now, "auto", ok), FALSE, "firmware-auto", save)
      BY <1>5, BothTrue DEF FirmwareAutoMode
    <2>2. QED
      BY <1>2, <1>3, <1>4, <2>1 DEF ReliableWrites
  <1>6. ASSUME FanModeManual PROVE TargetInv'
    <2>1. PICK toManual \in ModeWrites, ok \in Writes, save \in Saves :
            LET m == ApplyCurrentControlState(ApplyFanMode(Now, "manual", toManual), ok)
            IN  Commit(m) /\ Save(m, FALSE, "manual", save)
      BY <1>6, BothTrue DEF FanModeManual
    <2> DEFINE switched == ApplyFanMode(Now, "manual", toManual)
               m == ApplyCurrentControlState(switched, ok)
    <2>2. switched \in Machine /\ switched.fan = fan /\ ok \in Io
      BY <1>3, <1>4, IoType
    <2>3. Commit(m) /\ Save(m, FALSE, "manual", save) /\ save
      BY <2>1 DEF ReliableWrites
    <2> HIDE DEF switched
    <2>4. m \in Machine /\ SameRequests(m.fan, fan)
      BY <1>1, <2>2, ApplyCurrentType, ApplyCurrentRequests
    <2> HIDE DEF m
    <2>5. QED
      BY <1>2, <2>3, <2>4
  <1>7. ASSUME CoolBoostOn PROVE TargetInv'
    <2>1. PICK ok \in ModeWrites, save \in Saves :
            /\ Commit(ApplyFanMode(Now, "turbo", ok))
            /\ Save(ApplyFanMode(Now, "turbo", ok), auto, preset, save)
      BY <1>7, BothTrue DEF CoolBoostOn
    <2>2. QED
      BY <1>2, <1>3, <1>4, <2>1 DEF ReliableWrites
  <1>8. ASSUME CoolBoostOffCommand PROVE TargetInv'
    <2>1. PICK back \in ModeWrites, ok \in Writes, save \in Saves :
            LET m == IF FirmwareAuto THEN ApplyFanMode(Now, "auto", back)
                                     ELSE CoolBoostOff(Now, back, ok)
            IN  Commit(m) /\ Save(m, auto, preset, save)
      BY <1>8, BothTrue DEF CoolBoostOffCommand
    <2> DEFINE m == IF FirmwareAuto THEN ApplyFanMode(Now, "auto", back)
                                    ELSE CoolBoostOff(Now, back, ok)
    <2>2. m \in Machine /\ SameRequests(m.fan, fan)
      BY <1>1, <1>3, <1>4, TurboLeft, CoolBoostOffRequests
    <2>3. Commit(m) /\ Save(m, auto, preset, save) /\ save
      BY <2>1 DEF ReliableWrites
    <2> HIDE DEF m
    <2>4. QED
      BY <1>2, <2>2, <2>3
  <1>9. ASSUME SaveWithOtherSetting PROVE TargetInv'
    <2>1. PICK save \in Saves : Save(Now, auto, preset, save) /\ UNCHANGED <<fan, speed, mode>>
      BY <1>9 DEF SaveWithOtherSetting
    <2>2. Commit(Now) /\ SameRequests(Now.fan, fan)
      BY <1>1, <2>1 DEF Commit, Now, SameRequests
    <2>3. QED
      BY <1>1, <1>2, <2>1, <2>2 DEF ReliableWrites
  <1>10. QED
    BY <1>5, <1>6, <1>7, <1>8, <1>9

-----------------------------------------------------------------------------

\* What a poll observes is not a request.
LEMMA SeenRequests ==
    ASSUME TypeOK, NEW sample \in Observations, NEW reads \in Reads,
           NEW seen, seen = [f \in Fan |-> Observe(fan[f], reads[f], sample[f])]
    PROVE  SameRequests(seen, fan)
  <1>1. ASSUME NEW f \in Fan
        PROVE  Observe(fan[f], reads[f], sample[f]).requested = fan[f].requested
    <2>1. fan[f] \in FanState /\ reads[f] \in BOOLEAN /\ sample[f] \in Int
      BY IoType, FanControlAssumption DEF TypeOK, Io
    <2>2. QED
      BY <2>1, ObserveType
  <1>2. QED
    BY <1>1 DEF SameRequests

\* In firmware-auto a poll asks a fan for its target, which is its request.
LEMMA PollFirmwareRequests ==
    ASSUME ReliableWrites, TypeOK, NEW seen \in [Fan -> FanState], Requests(seen),
           NEW forced \in Reason,
           NEW first \in ModeWrites, NEW second \in ModeWrites, NEW ok \in Writes,
           PollFirmwareAuto(seen, forced, first, second, ok)
    PROVE  SameRequests(fan', seen)
  <1> DEFINE target == [f \in Fan |-> Target(seen[f])]
             override == {f \in Fan : SafetyAdjust(f, seen[f], target[f], forced).reason # ""}
             tracked == [f \in Fan |->
                      [seen[f] EXCEPT !.percent = Clamp(target[f], 1, 100),
                                      !.requested = Clamp(target[f], 1, 100),
                                      !.reason = ""]]
             fans == [f \in Fan |-> IF f \in override THEN seen[f] ELSE tracked[f]]
             base == [Now EXCEPT !.fan = fans]
             switched == IF override # {} THEN ApplyFanMode(base, "manual", first) ELSE base
             retried == IF override = Fan /\ ~DaemonControlApplied(first)
                        THEN ApplyFanMode(switched, "manual", second) ELSE switched
             restored == IF ShouldRestore(override)
                         THEN ApplyFanMode(retried, "auto", second) ELSE retried
             m == SetFans(restored, override, target, forced, ok)
  <1>1. Commit(m)
    BY DEF PollFirmwareAuto
  <1>2. override \in SUBSET Fan
    OBVIOUS
  <1>3. ASSUME NEW f \in Fan
        PROVE  /\ seen[f] \in FanState /\ target[f] \in Int
               /\ Clamp(target[f], 1, 100) = seen[f].requested
    <2>1. seen[f] \in FanState /\ seen[f].requested > 0
      BY DEF Requests
    <2>2. QED
      BY <2>1, RequestIsTarget
  <1>4. target \in [Fan -> Int]
    BY <1>3
  <1> HIDE DEF target, override
  <1>5. ASSUME NEW f \in Fan
        PROVE  tracked[f] \in FanState /\ tracked[f].requested = seen[f].requested
    <2>1. seen[f] \in FanState /\ Clamp(target[f], 1, 100) \in Percent /\ "" \in Reason
      BY <1>3, RequestRange DEF Reason
    <2>2. [seen[f] EXCEPT !.percent = Clamp(target[f], 1, 100),
                          !.requested = Clamp(target[f], 1, 100), !.reason = ""] \in FanState
      BY <2>1, TrackedType
    <2>3. [seen[f] EXCEPT !.percent = Clamp(target[f], 1, 100),
                          !.requested = Clamp(target[f], 1, 100),
                          !.reason = ""].requested = Clamp(target[f], 1, 100)
      BY <2>1 DEF FanState
    <2>4. QED
      BY <1>3, <2>2, <2>3
  <1> HIDE DEF tracked
  <1>6. fans \in [Fan -> FanState] /\ SameRequests(fans, seen)
    BY <1>3, <1>5 DEF SameRequests
  <1> HIDE DEF fans
  <1>7. base \in Machine /\ base.fan = fans
    BY <1>6, NowType DEF Machine, Now
  <1> HIDE DEF base
  <1>8. "manual" \in FanMode /\ "auto" \in FanMode
    BY DEF FanMode
  <1>9. switched \in Machine /\ switched.fan = fans
    BY <1>7, <1>8, ModeApplied, ModeKeepsFans
  <1> HIDE DEF switched
  <1>10. retried = switched
    BY BothTrue
  <1> HIDE DEF retried
  <1>11. restored \in Machine /\ restored.fan = fans
    BY <1>8, <1>9, <1>10, ModeApplied, ModeKeepsFans
  <1> HIDE DEF restored
  <1>12. \A f \in Fan : m.fan[f].requested
           = IF f \in override THEN Clamp(target[f], 1, 100) ELSE fans[f].requested
    BY <1>2, <1>4, <1>11, SetFansRequests
  <1> HIDE DEF m
  <1>13. QED
    BY <1>1, <1>3, <1>6, <1>12 DEF Commit, SameRequests

\* In every other mode a poll asks for its target when it writes; only
\* automatic mode has a target of its own.
LEMMA PollDaemonRequests ==
    ASSUME ReliableWrites, TypeOK, NEW seen \in [Fan -> FanState], Requests(seen),
           NEW forced \in Reason, NEW ok \in Writes,
           PollDaemonControl(seen, forced, ok)
    PROVE  Requests(fan') /\ (~auto => SameRequests(fan', seen))
  <1> DEFINE target == [f \in Fan |-> IF auto THEN AutoPercent(f, seen[f], forced)
                                              ELSE Target(seen[f])]
             changed == {f \in Fan : NeedsWrite(f, seen[f], target[f], forced)}
             fans == [f \in Fan |->
                    IF f \in changed THEN seen[f]
                    ELSE [seen[f] EXCEPT !.reason =
                             SafetyAdjust(f, seen[f], target[f], forced).reason]]
             base == [Now EXCEPT !.fan = fans]
             m == SetFans(base, changed, target, forced, ok)
  <1>1. Commit(m)
    BY DEF PollDaemonControl
  <1>2. changed \in SUBSET Fan
    OBVIOUS
  <1>3. ASSUME NEW f \in Fan
        PROVE  /\ seen[f] \in FanState /\ target[f] \in Int
               /\ ~auto => Clamp(target[f], 1, 100) = seen[f].requested
    <2>1. seen[f] \in FanState /\ seen[f].requested > 0
      BY DEF Requests
    <2>2. AutoPercent(f, seen[f], forced) \in Int
      BY <2>1, AutoPercentRange DEF Percent
    <2>3. QED
      BY <2>1, <2>2, RequestIsTarget
  <1>4. target \in [Fan -> Int]
    BY <1>3
  <1> HIDE DEF target, changed
  <1>5. ASSUME NEW f \in Fan
        PROVE  fans[f] \in FanState /\ fans[f].requested = seen[f].requested
    <2> DEFINE r == SafetyAdjust(f, seen[f], target[f], forced).reason
    <2>1. seen[f] \in FanState /\ r \in Reason
      BY <1>3, AdjustType DEF Adjusted
    <2> HIDE DEF r
    <2>2. /\ [seen[f] EXCEPT !.reason = r] \in FanState
          /\ [seen[f] EXCEPT !.reason = r].requested = seen[f].requested
      BY <2>1 DEF FanState
    <2>3. QED
      BY <2>1, <2>2 DEF r
  <1>6. fans \in [Fan -> FanState] /\ SameRequests(fans, seen)
    BY <1>5 DEF SameRequests
  <1> HIDE DEF fans
  <1>7. base \in Machine /\ base.fan = fans
    BY <1>6, NowType DEF Machine, Now
  <1> HIDE DEF base
  <1>8. \A f \in Fan : m.fan[f].requested
           = IF f \in changed THEN Clamp(target[f], 1, 100) ELSE fans[f].requested
    BY <1>2, <1>4, <1>7, SetFansRequests
  <1> HIDE DEF m
  <1>9. ~auto => SameRequests(fan', seen)
    BY <1>1, <1>3, <1>6, <1>8 DEF Commit, SameRequests
  <1>10. \A f \in Fan : Clamp(target[f], 1, 100) > 0
    BY <1>3, RequestRange
  <1>11. Requests(fan')
    BY <1>1, <1>6, <1>8, <1>10 DEF Commit, SameRequests, Requests
  <1>12. QED
    BY <1>9, <1>11

LEMMA TargetsPoll ==
    ASSUME ReliableWrites, TypeOK, TypeOK', TargetInv, Poll
    PROVE  TargetInv'
  <1>1. PICK sample \in Observations, reads \in Reads, ok \in Writes,
             first \in Outcomes(FirmwareAuto, ModeWrites),
             second \in Outcomes(FirmwareAuto, ModeWrites) :
             PollWith(sample, reads, first, second, ok)
    BY DEF Poll
  <1>2. first \in ModeWrites /\ second \in ModeWrites
    BY DEF Outcomes, ReliableWrites
  <1> DEFINE seen == [f \in Fan |-> Observe(fan[f], reads[f], sample[f])]
             forced == ForcedReason(seen)
  <1>3. /\ \/ FirmwareAuto /\ PollFirmwareAuto(seen, forced, first, second, ok)
           \/ ~FirmwareAuto /\ PollDaemonControl(seen, forced, ok)
        /\ UNCHANGED <<auto, preset, saved, running>>
    BY <1>1 DEF PollWith
  <1>4. seen \in [Fan -> FanState] /\ forced \in Reason /\ SameRequests(seen, fan)
    BY SeenType, ForcedReasonType, SeenRequests
  <1> HIDE DEF seen, forced
  <1>5. Requests(seen)
    BY <1>4 DEF TargetInv, Requests, SameRequests
  <1>6. ASSUME SameRequests(fan', seen) PROVE TargetInv'
    <2>1. SameRequests(fan', fan)
      BY <1>4, <1>6 DEF SameRequests
    <2>2. QED
      BY <1>3, <2>1, TargetsUntouched
  <1>7. CASE FirmwareAuto /\ PollFirmwareAuto(seen, forced, first, second, ok)
    BY <1>2, <1>4, <1>5, <1>6, <1>7, PollFirmwareRequests
  <1>8. CASE ~FirmwareAuto /\ PollDaemonControl(seen, forced, ok)
    <2>1. Requests(fan') /\ (~auto => SameRequests(fan', seen))
      BY <1>4, <1>5, <1>8, PollDaemonRequests
    <2>2. CASE auto
      BY <1>3, <2>1, <2>2 DEF TargetInv, TargetsAreSaved
    <2>3. QED
      BY <1>6, <2>1, <2>2
  <1>9. QED
    BY <1>3, <1>7, <1>8

\* Init writes are about the fan modes.
LEMMA InitKeepsFans ==
    ASSUME NEW m \in Machine, NEW ok
    PROVE  ApplyInitWrites(m, ok).fan = m.fan
  BY DEF ApplyInitWrites, Machine

LEMMA TargetsResume ==
    ASSUME ReliableWrites, TypeOK, TypeOK', TargetInv, Resume
    PROVE  TargetInv'
  <1>1. PICK init \in ModeWrites, back \in ModeWrites, ok \in Writes :
          LET m == ApplyInitWrites(Now, init)
          IN  \/ FirmwareAuto /\ Commit(ApplyFanMode(m, "auto", back))
              \/ ~FirmwareAuto /\ Commit(ApplyCurrentControlState(m, ok))
    BY DEF Resume
  <1> DEFINE m == ApplyInitWrites(Now, init)
  <1>2. m \in Machine /\ m.fan = fan
    <2>1. init \in Io /\ Now \in Machine /\ Now.fan = fan
      BY IoType, NowType DEF Now
    <2>2. QED
      BY <2>1, ApplyInitWritesType, InitKeepsFans
  <1>3. Commit(ApplyFanMode(m, "auto", back)) \/ Commit(ApplyCurrentControlState(m, ok))
    BY <1>1
  <1> HIDE DEF m
  <1>4. SameRequests(ApplyFanMode(m, "auto", back).fan, fan)
    BY <1>2, ModeKeepsFans DEF SameRequests
  <1>5. SameRequests(ApplyCurrentControlState(m, ok).fan, fan)
    BY <1>2, ApplyCurrentRequests DEF TargetInv
  <1>6. SameRequests(fan', fan) /\ UNCHANGED <<auto, preset, saved, running>>
    BY <1>3, <1>4, <1>5 DEF Commit, Resume
  <1>7. QED
    BY <1>6, TargetsUntouched

LEMMA TargetsForgotten ==
    ASSUME ResetAboveZero, TargetInv, Stop \/ Crash
    PROVE  TargetInv'
  <1>1. MemoryLost /\ saved' = saved
    BY DEF Stop, Crash
  <1>2. Requests(fan')
    BY <1>1 DEF MemoryLost, StartState, Requests, ResetAboveZero
  <1>3. QED
    BY <1>1, <1>2 DEF MemoryLost, TargetInv, TargetsAreSaved

\* A restart asks for the percentages of the file: the name of a preset is
\* never restored, so its own percentages are not used.
LEMMA RestoredRequests ==
    ASSUME ReliableWrites, NEW fresh \in Machine, NEW file \in SavedState,
           \A f \in Fan : file.percent[f] > 0,
           NEW toMode \in ModeWrites, NEW ok \in Writes,
           NEW offMode \in ModeWrites, NEW off \in Writes
    PROVE  \A f \in Fan :
             Restored(fresh, file, toMode, ok, offMode, off).m.fan[f].requested = file.percent[f]
  <1> DEFINE percent == [f \in Fan |-> RestoredPercent(f, file)]
             name == RestoredPreset(file)
             manual == ApplyFanMode(fresh, "manual", toMode)
             targetFans == [f \in Fan |->
                      [fresh.fan[f] EXCEPT !.percent = percent[f], !.requested = percent[f]]]
             targets == [fresh EXCEPT !.fan = targetFans]
             applied == SetInTurn(manual, percent, ok)
             named == SetInTurn(manual, Presets[name], ok)
             firmware == ApplyFanMode(targets, "auto", toMode)
             back == IF FanModeApplied(toMode) THEN name ELSE "manual"
             branch ==
                 IF file.auto THEN [m |-> applied, preset |-> "auto"]
                 ELSE IF name = "firmware-auto" THEN [m |-> firmware, preset |-> back]
                 ELSE IF name \in DOMAIN Presets THEN [m |-> named, preset |-> name]
                 ELSE [m |-> applied, preset |-> "manual"]
             r == Restored(fresh, file, toMode, ok, offMode, off)
             Asked(m) == m \in Machine /\ \A f \in Fan : m.fan[f].requested = file.percent[f]
  <1>1. r = IF FanModesAvailable /\ branch.preset # "firmware-auto"
            THEN [branch EXCEPT !.m = CoolBoostOff(branch.m, offMode, off)]
            ELSE branch
    BY DEF Restored
  <1>2. ~file.auto => name \notin DOMAIN Presets
    BY NamesApart DEF RestoredPreset, ControlMode, SavedState, PresetNames, ReservedNames
  <1>3. ASSUME NEW f \in Fan
        PROVE  percent[f] = file.percent[f] /\ percent[f] \in Percent /\ percent[f] \in Int
               /\ Clamp(percent[f], 1, 100) = file.percent[f]
    BY DEF RestoredPercent, SavedState, Percent, Clamp
  <1>4. percent \in [Fan -> Int]
    BY <1>3
  <1> HIDE DEF percent, name
  <1>5. manual \in Machine
    BY ModeApplied DEF FanMode
  <1>6. targetFans \in [Fan -> FanState] /\ \A f \in Fan : targetFans[f].requested = percent[f]
    <2>1. ASSUME NEW f \in Fan
          PROVE  /\ [fresh.fan[f] EXCEPT !.percent = percent[f], !.requested = percent[f]]
                       \in FanState
                 /\ [fresh.fan[f] EXCEPT !.percent = percent[f],
                                         !.requested = percent[f]].requested = percent[f]
      <3>1. fresh.fan[f] \in FanState /\ percent[f] \in Percent /\ "" \in Reason
        BY <1>3 DEF Machine, Reason
      <3>2. QED
        BY <3>1, TrackedType DEF FanState
    <2>2. QED
      BY <2>1
  <1> HIDE DEF targetFans
  <1>7. targets \in Machine /\ targets.fan = targetFans
    BY <1>6 DEF Machine
  <1> HIDE DEF targets, manual
  <1>8. Asked(firmware)
    <2>1. firmware.fan = targetFans /\ firmware \in Machine
      BY <1>7, ModeApplied, ModeKeepsFans DEF FanMode
    <2>2. QED
      BY <1>3, <1>6, <2>1
  <1>9. Asked(applied)
    BY <1>3, <1>4, <1>5, InTurnRequests
  <1> HIDE DEF firmware, applied, named, back
  <1>10. branch = [m |-> branch.m, preset |-> branch.preset] /\ Asked(branch.m)
    BY <1>2, <1>8, <1>9
  <1> HIDE DEF branch
  <1>11. \A f \in Fan :
           CoolBoostOff(branch.m, offMode, off).fan[f].requested = file.percent[f]
    BY <1>10, CoolBoostOffRequests DEF Requests, SameRequests
  <1>12. r.m = CoolBoostOff(branch.m, offMode, off) \/ r = branch
    BY <1>1, <1>10
  <1> HIDE DEF r
  <1>13. \A f \in Fan : r.m.fan[f].requested = file.percent[f]
    BY <1>10, <1>11, <1>12
  <1>14. QED
    BY <1>13 DEF r

LEMMA TargetsStart ==
    ASSUME ReliableWrites, ResetAboveZero, TypeOK, TypeOK', TargetInv, Start
    PROVE  TargetInv'
  <1>1. PICK seed \in Seeds, init \in ModeWrites, toMode \in ModeWrites,
             offMode \in ModeWrites, ok \in Writes, off \in Writes, save \in Saves :
          LET powered == [Now EXCEPT !.fan = [f \in Fan |-> StartState(f, seed[f])]]
              fresh == ApplyInitWrites(powered, init)
          IN  \/ saved = {} /\ StartDefault(fresh, toMode, ok, save)
              \/ \E file \in saved :
                    LET restored == Restored(fresh, file, toMode, ok, offMode, off)
                    IN  /\ Commit(restored.m)
                        /\ SetControlMode(file.auto, restored.preset)
                        /\ UNCHANGED saved
    BY DEF Start
  <1>2. init \in Io /\ seed \in [Fan -> 0..129] /\ save
    BY IoType, FanControlAssumption DEF ReliableWrites
  <1> DEFINE started == [f \in Fan |-> StartState(f, seed[f])]
             powered == [Now EXCEPT !.fan = started]
             fresh == ApplyInitWrites(powered, init)
  <1>3. started \in [Fan -> FanState] /\ Requests(started)
    <2>1. \A f \in Fan : seed[f] \in Int
      BY <1>2
    <2>2. \A f \in Fan : StartState(f, seed[f]) \in FanState
      BY <2>1, StartStateType
    <2>3. \A f \in Fan : StartState(f, seed[f]).requested > 0
      BY DEF StartState, ResetAboveZero
    <2>4. QED
      BY <2>2, <2>3 DEF Requests
  <1>4. \/ saved = {} /\ StartDefault(fresh, toMode, ok, save)
        \/ \E file \in saved :
              /\ Commit(Restored(fresh, file, toMode, ok, offMode, off).m)
              /\ UNCHANGED saved
    BY <1>1
  <1> HIDE DEF started
  <1>5. powered \in Machine /\ powered.fan = started
    BY <1>3, NowType DEF Machine, Now
  <1> HIDE DEF powered
  <1>6. fresh \in Machine /\ Requests(fresh.fan)
    <2>1. fresh \in Machine /\ fresh.fan = started
      BY <1>2, <1>5, ApplyInitWritesType, InitKeepsFans
    <2>2. QED
      BY <1>3, <2>1
  <1> HIDE DEF fresh
  <1>7. fan' \in [Fan -> FanState]
    BY DEF TypeOK
  <1>8. CASE StartDefault(fresh, toMode, ok, save)
    <2>1. ASSUME NEW m \in Machine, Requests(m.fan), fan' = m.fan, NEW a, NEW p,
                 Save(m, a, p, save)
          PROVE  TargetInv'
      BY <1>2, <1>7, <2>1, TargetsSavedBy DEF SameRequests
    <2>2. \/ fan' = fresh.fan /\ Save(fresh, TRUE, "auto", save)
          \/ fan' = fresh.fan /\ Save(fresh, FALSE, "firmware-auto", save)
          \/ /\ DefaultPreset \in DOMAIN Presets
             /\ fan' = SetInTurn(fresh, Presets[DefaultPreset], ok).fan
             /\ Save(SetInTurn(fresh, Presets[DefaultPreset], ok), FALSE, DefaultPreset, save)
      <3>1. DefaultPreset = "firmware-auto" => FanModeApplied(toMode)
        BY BothTrue DEF ReliableWrites, FanModeApplied
      <3>2. /\ ApplyFanMode(fresh, "manual", toMode).fan = fresh.fan
            /\ ApplyFanMode(fresh, "auto", toMode).fan = fresh.fan
        BY <1>6, ModeKeepsFans
      <3>3. DefaultPreset \in DOMAIN Presets \cup {"auto", "firmware-auto"}
        BY DEF ReliableWrites
      <3>4. QED
        BY <1>8, <3>1, <3>2, <3>3 DEF StartDefault, Commit
    <2>3. CASE /\ DefaultPreset \in DOMAIN Presets
               /\ fan' = SetInTurn(fresh, Presets[DefaultPreset], ok).fan
               /\ Save(SetInTurn(fresh, Presets[DefaultPreset], ok), FALSE, DefaultPreset, save)
      <3> DEFINE speeds == Presets[DefaultPreset]
                 m == SetInTurn(fresh, speeds, ok)
      <3>1. speeds \in [Fan -> Int]
        BY <2>3, FanControlAssumption, SMTT(30)
      <3>2. fan' = m.fan /\ Save(m, FALSE, DefaultPreset, save)
        BY <2>3
      <3> HIDE DEF speeds
      <3>3. m \in Machine /\ \A f \in Fan : m.fan[f].requested = Clamp(speeds[f], 1, 100)
        BY <1>6, <3>1, InTurnRequests
      <3>4. \A f \in Fan : Clamp(speeds[f], 1, 100) > 0
        BY <3>1, RequestRange
      <3> HIDE DEF m
      <3>5. Requests(m.fan)
        BY <3>3, <3>4 DEF Requests
      <3>6. QED
        BY <2>1, <3>2, <3>3, <3>5
    <2>4. QED
      BY <1>6, <2>1, <2>2, <2>3
  <1>9. ASSUME NEW file \in saved, UNCHANGED saved,
               Commit(Restored(fresh, file, toMode, ok, offMode, off).m)
        PROVE  TargetInv'
    <2>1. file \in SavedState /\ \A f \in Fan : file.percent[f] > 0
      BY DEF TypeOK, TargetInv
    <2>2. \A f \in Fan : fan'[f].requested = file.percent[f]
      BY <1>6, <1>9, <2>1, RestoredRequests DEF Commit
    <2>3. Requests(fan')
      BY <2>1, <2>2 DEF Requests
    <2>4. \A f \in Fan : Target(fan'[f]) = file.percent[f]
      BY <1>7, <2>2, <2>3, RequestIsTarget DEF Requests
    <2>5. \A other \in saved' : other = file
      BY <1>9 DEF TargetInv
    <2>6. QED
      BY <1>9, <2>3, <2>4, <2>5 DEF TargetInv, TargetsAreSaved
  <1>10. QED
    BY <1>4, <1>8, <1>9

LEMMA TargetsAtStart == ASSUME ResetAboveZero, Init PROVE TargetInv
  <1>1. Requests(fan)
    BY DEF Init, StartState, Requests, ResetAboveZero
  <1>2. saved = {} /\ ~running
    BY DEF Init
  <1>3. QED
    BY <1>1, <1>2 DEF TargetInv, TargetsAreSaved

LEMMA TargetsStep ==
    ASSUME ReliableWrites, SetNamesFans, ResetAboveZero, TypeOK, TypeOK', TargetInv, [Next]_vars
    PROVE  TargetInv'
  <1>1. CASE \/ \E S \in SetScopes, p \in SetPercents : Set(S, p)
             \/ \E id \in DOMAIN Presets : ApplyPreset(id)
             \/ AutoMode
    BY <1>1, TargetsCommand
  <1>2. CASE \/ FirmwareAutoMode \/ FanModeManual \/ CoolBoostOn \/ CoolBoostOffCommand
             \/ SaveWithOtherSetting
    BY <1>2, TargetsModeCommand
  <1>3. CASE Suspend \/ UNCHANGED vars
    <2>1. fan' = fan /\ UNCHANGED <<auto, preset, saved, running>>
      BY <1>3 DEF Suspend, vars
    <2>2. QED
      BY <2>1, TargetsUntouched DEF SameRequests
  <1>4. QED
    BY <1>1, <1>2, <1>3, TargetsPoll, TargetsResume, TargetsForgotten, TargetsStart DEF Next

\* In a manual mode the saved percentages are the ones the fans are asked to run
\* at: through safety overrides, firmware-auto, sleeps, crashes and restarts, the
\* speeds safety makes of a request never reach the file
\* (write_control_state, fan_target_percent, restore_control_state_from_json).
THEOREM TargetsSaved ==
    ASSUME ReliableWrites, SetNamesFans, ResetAboveZero
    PROVE  Spec => []TargetsAreSaved
  <1>1. Init => TargetInv
    BY TargetsAtStart
  <1>2. TypeOK /\ TypeOK' /\ TargetInv /\ [Next]_vars => TargetInv'
    BY TargetsStep
  <1>3. TargetInv => TargetsAreSaved
    BY DEF TargetInv
  <1>4. QED
    BY <1>1, <1>2, <1>3, TypeCorrect, PTL DEF Spec

\* Every handler but main's needs a daemon.
LEMMA OnlyStartStarts == ASSUME [Next]_vars, ~running, running' PROVE Start
  BY DEF Next, vars, Offered, Poll, PollWith, Set, ApplyPreset, AutoMode, FirmwareAutoMode,
     FanModeManual, CoolBoostOn, CoolBoostOffCommand, SaveWithOtherSetting, Resume, Suspend,
     Stop, Crash

LEMMA RestartStep ==
    ASSUME ReliableWrites, TypeOK, TypeOK', TargetInv, Start, NEW file \in saved
    PROVE  /\ auto' = file.auto
           /\ \A f \in Fan : Target(fan'[f]) = file.percent[f]
  <1>1. PICK seed \in Seeds, init \in ModeWrites, toMode \in ModeWrites,
             offMode \in ModeWrites, ok \in Writes, off \in Writes, save \in Saves :
          LET powered == [Now EXCEPT !.fan = [f \in Fan |-> StartState(f, seed[f])]]
              fresh == ApplyInitWrites(powered, init)
          IN  \/ saved = {} /\ StartDefault(fresh, toMode, ok, save)
              \/ \E other \in saved :
                    LET restored == Restored(fresh, other, toMode, ok, offMode, off)
                    IN  /\ Commit(restored.m)
                        /\ SetControlMode(other.auto, restored.preset)
                        /\ UNCHANGED saved
    BY DEF Start
  <1> DEFINE started == [f \in Fan |-> StartState(f, seed[f])]
             powered == [Now EXCEPT !.fan = started]
             fresh == ApplyInitWrites(powered, init)
  <1>2. started \in [Fan -> FanState]
    <2>1. \A f \in Fan : seed[f] \in Int
      BY FanControlAssumption, SMTT(30)
    <2>2. QED
      BY <2>1, StartStateType
  <1>3. fresh \in Machine
    <2>1. powered \in Machine
      BY <1>2, NowType DEF Machine, Now
    <2> HIDE DEF powered
    <2>2. QED
      BY <2>1, IoType, ApplyInitWritesType
  <1>4. \E other \in saved :
          /\ Commit(Restored(fresh, other, toMode, ok, offMode, off).m)
          /\ auto' = other.auto
    BY <1>1 DEF SetControlMode
  <1> HIDE DEF fresh
  <1>5. /\ Commit(Restored(fresh, file, toMode, ok, offMode, off).m)
        /\ auto' = file.auto
    BY <1>4 DEF TargetInv
  <1>6. file \in SavedState /\ \A f \in Fan : file.percent[f] > 0
    BY DEF TypeOK, TargetInv
  <1>7. \A f \in Fan : fan'[f].requested = file.percent[f]
    BY <1>3, <1>5, <1>6, RestoredRequests DEF Commit
  <1>8. \A f \in Fan : Target(fan'[f]) = file.percent[f]
    BY <1>6, <1>7, RequestIsTarget DEF TypeOK
  <1>9. QED
    BY <1>5, <1>8

\* A restart puts back the control mode and every percentage of the state file,
\* whatever the sensors say when it happens, and also for a preset, whose name
\* it loses (restore_control_state_from_json, json_saved_percent_for_fan).
THEOREM TargetsRestored ==
    ASSUME ReliableWrites, SetNamesFans, ResetAboveZero
    PROVE  Spec => RestartKeepsTargets
  <1>1. Init => TargetInv
    BY TargetsAtStart
  <1>2. TypeOK /\ TypeOK' /\ TargetInv /\ [Next]_vars => TargetInv'
    BY TargetsStep
  <1>3. TypeOK /\ TypeOK' /\ TargetInv /\ [Next]_vars =>
          (~running /\ running' =>
            \A file \in saved :
                /\ auto' = file.auto
                /\ \A f \in Fan : (file.percent[f] > 0) => Target(fan'[f]) = file.percent[f])
    BY OnlyStartStarts, RestartStep
  <1>4. QED
    BY <1>1, <1>2, <1>3, TypeCorrect, PTL DEF Spec, RestartKeepsTargets

-----------------------------------------------------------------------------
\* Who holds the fans after a resume and during an override

\* A fan that is written runs at its percentage.
LEMMA WrittenFansHold ==
    ASSUME ReliableWrites, NEW m \in Machine, NEW S \in SUBSET Fan,
           NEW requested \in [Fan -> Int], NEW forced \in Reason, NEW ok \in Writes, NEW f \in S
    PROVE  Holds(SetFans(m, S, requested, forced, ok), f)
  <1> DEFINE n == SetFans(m, S, requested, forced, ok)
             s == m.fan[f]
             q == requested[f]
  <1>1. f \in Fan /\ ok[f] = TRUE /\ s \in FanState /\ q \in Int
    BY DEF ReliableWrites, Both, Machine
  <1>2. n.fan[f] = SetFanState(f, s, q, forced, TRUE) /\ n.speed[f] = WrittenSpeed(f, s, q, forced)
    BY <1>1 DEF SetFans, Machine
  <1> HIDE DEF n, s, q
  <1>3. SetFanState(f, s, q, forced, TRUE).percent = SafetyAdjust(f, s, q, forced).percent
    BY <1>1, SetFanStateType
  <1>4. Holds(n, f)
    BY <1>2, <1>3 DEF Holds, WrittenSpeed
  <1>5. QED
    BY <1>4 DEF n

LEMMA ResumeStepHolds ==
    ASSUME ReliableWrites, InitWritesModes, TypeOK, ChoiceInv, Resume, NEW f \in Fan
    PROVE  IF FirmwareAuto THEN mode'[f] = "auto"
           ELSE mode'[f] = "manual" /\ speed'[f] = ClampWrite(f, fan'[f].percent)
  <1>1. PICK init \in ModeWrites, back \in ModeWrites, ok \in Writes :
          LET m == ApplyInitWrites(Now, init)
          IN  \/ FirmwareAuto /\ Commit(ApplyFanMode(m, "auto", back))
              \/ ~FirmwareAuto /\ Commit(ApplyCurrentControlState(m, ok))
    BY DEF Resume
  <1> DEFINE m == ApplyInitWrites(Now, init)
  <1>2. \/ FirmwareAuto /\ Commit(ApplyFanMode(m, "auto", back))
        \/ ~FirmwareAuto /\ Commit(ApplyCurrentControlState(m, ok))
    BY <1>1
  <1>3. m \in Machine /\ m.mode[f] = "manual"
    <2>1. init \in Io /\ Now \in Machine /\ init[f]
      BY IoType, NowType DEF ReliableWrites, Both
    <2>2. m.mode[f] = "manual"
      BY <2>1 DEF ApplyInitWrites, Machine
    <2>3. QED
      BY <2>1, <2>2, ApplyInitWritesType
  <1> HIDE DEF m
  <1>4. CASE FirmwareAuto /\ Commit(ApplyFanMode(m, "auto", back))
    <2>1. FanModesAvailable /\ "auto" \in FanMode
      BY <1>4 DEF FirmwareAuto, ChoiceInv, Proper, FanMode
    <2>2. AllIn(ApplyFanMode(m, "auto", back).mode, "auto")
      BY <1>3, <2>1, ModeApplied
    <2>3. QED
      BY <1>4, <2>2 DEF Commit, AllIn
  <1>5. CASE ~FirmwareAuto /\ Commit(ApplyCurrentControlState(m, ok))
    <2> DEFINE target == [g \in Fan |-> Target(m.fan[g])]
               n == SetFans(m, Fan, target, GlobalReason(m.fan), ok)
    <2>1. \A g \in Fan : Target(m.fan[g]) \in Int
      BY <1>3, TargetRange DEF Machine, Percent
    <2>2. target \in [Fan -> Int] /\ Fan \in SUBSET Fan /\ ok \in Io
      BY <2>1, IoType
    <2>3. Commit(n)
      BY <1>5 DEF ApplyCurrentControlState
    <2> HIDE DEF target
    <2>4. Holds(n, f) /\ n.mode = m.mode
      BY <1>3, <2>2, GlobalReasonType, WrittenFansHold, SetFansType
    <2> HIDE DEF n
    <2>5. QED
      BY <1>3, <1>5, <2>3, <2>4 DEF Commit, Holds
  <1>6. QED
    BY <1>2, <1>4, <1>5

\* After the sleep hook's resume, unless turbo was on, the EC is where the daemon
\* says it is: firmware owns the fans in firmware-auto, else both are in manual
\* mode with their registers at the recorded percentages, on a model whose init
\* writes switch the modes (handle_resume_command).
THEOREM ResumeRestores ==
    ASSUME ReliableWrites, InitWritesModes
    PROVE  Spec => ResumeRestoresControl
  <1>1. Init => ChoiceInv
    BY ChoiceAtStart
  <1>2. TypeOK /\ ChoiceInv /\ [Next]_vars => ChoiceInv'
    BY ChoiceStep
  <1>3. TypeOK /\ ChoiceInv =>
          (Resume /\ ~coolboost => \A f \in Fan : IF FirmwareAuto THEN mode'[f] = "auto"
                       ELSE /\ mode'[f] = "manual"
                            /\ speed'[f] = ClampWrite(f, fan'[f].percent))
    BY ResumeStepHolds
  <1>4. QED
    BY <1>1, <1>2, <1>3, TypeCorrect, PTL DEF Spec, ResumeRestoresControl

\* The target is a number.
LEMMA TargetInt == ASSUME NEW s \in FanState PROVE Target(s) \in Int
  BY TargetRange DEF Percent

LEMMA OverridePoll ==
    ASSUME ReliableWrites, FanModesAvailable, TypeOK, NEW seen \in [Fan -> FanState],
           NEW forced \in Reason, NEW first \in ModeWrites, NEW second \in ModeWrites,
           NEW ok \in Writes, PollFirmwareAuto(seen, forced, first, second, ok),
           NEW f \in Fan, fan'[f].reason # ""
    PROVE  mode'[f] = "manual" /\ speed'[f] = ClampWrite(f, fan'[f].percent)
  <1> DEFINE target == [g \in Fan |-> Target(seen[g])]
             override == {g \in Fan : SafetyAdjust(g, seen[g], target[g], forced).reason # ""}
             tracked == [g \in Fan |->
                      [seen[g] EXCEPT !.percent = Clamp(target[g], 1, 100),
                                      !.requested = Clamp(target[g], 1, 100),
                                      !.reason = ""]]
             fans == [g \in Fan |-> IF g \in override THEN seen[g] ELSE tracked[g]]
             base == [Now EXCEPT !.fan = fans]
             switched == IF override # {} THEN ApplyFanMode(base, "manual", first) ELSE base
             retried == IF override = Fan /\ ~DaemonControlApplied(first)
                        THEN ApplyFanMode(switched, "manual", second) ELSE switched
             restored == IF ShouldRestore(override)
                         THEN ApplyFanMode(retried, "auto", second) ELSE retried
             m == SetFans(restored, override, target, forced, ok)
  <1>1. Commit(m)
    BY DEF PollFirmwareAuto
  <1>2. override \in SUBSET Fan /\ ok \in Io
    BY IoType
  <1>3. ASSUME NEW g \in Fan PROVE target[g] \in Int
    <2>1. Target(seen[g]) \in Int
      BY TargetInt
    <2>2. QED
      BY <2>1
  <1>4. target \in [Fan -> Int]
    BY <1>3
  <1> HIDE DEF target, override
  <1>5. ASSUME NEW g \in Fan PROVE tracked[g] \in FanState /\ tracked[g].reason = ""
    <2>1. seen[g] \in FanState /\ Clamp(target[g], 1, 100) \in Percent /\ "" \in Reason
      BY <1>3, RequestRange DEF Reason
    <2>2. [seen[g] EXCEPT !.percent = Clamp(target[g], 1, 100),
                          !.requested = Clamp(target[g], 1, 100), !.reason = ""] \in FanState
      BY <2>1, TrackedType
    <2>3. [seen[g] EXCEPT !.percent = Clamp(target[g], 1, 100),
                          !.requested = Clamp(target[g], 1, 100), !.reason = ""].reason = ""
      BY <2>1 DEF FanState
    <2>4. QED
      BY <2>2, <2>3
  <1> HIDE DEF tracked
  <1>6. fans \in [Fan -> FanState] /\ (f \notin override => fans[f].reason = "")
    BY <1>5
  <1> HIDE DEF fans
  <1>7. base \in Machine /\ base.fan = fans
    BY <1>6, NowType DEF Machine, Now
  <1> HIDE DEF base
  <1>8. "manual" \in FanMode /\ "auto" \in FanMode
    BY DEF FanMode
  <1>9. /\ switched \in Machine /\ switched.fan = fans
        /\ override # {} => AllIn(switched.mode, "manual")
    BY <1>7, <1>8, ModeApplied, ModeKeepsFans
  <1> HIDE DEF switched
  <1>10. retried = switched
    BY BothTrue
  <1> HIDE DEF retried
  <1>11. /\ restored \in Machine /\ restored.fan = fans
         /\ override # {} => restored = retried
    BY <1>8, <1>9, <1>10, ModeApplied, ModeKeepsFans DEF ShouldRestore
  <1> HIDE DEF restored
  <1>12. f \notin override => m.fan[f] = fans[f]
    BY <1>11 DEF SetFans, Machine
  <1>13. m.mode = restored.mode /\ (f \in override => Holds(m, f))
    <2>1. m.mode = restored.mode
      BY <1>2, <1>4, <1>11, SetFansType
    <2>2. ASSUME f \in override PROVE Holds(m, f)
      BY <1>2, <1>4, <1>11, <2>2, WrittenFansHold
    <2>3. QED
      BY <2>1, <2>2
  <1> HIDE DEF m
  <1>14. f \in override
    BY <1>1, <1>6, <1>12 DEF Commit
  <1>15. QED
    BY <1>1, <1>9, <1>10, <1>11, <1>13, <1>14 DEF Commit, Holds, AllIn

LEMMA OverrideStep ==
    ASSUME ReliableWrites, TypeOK, ChoiceInv, FirmwareAuto, Poll,
           NEW f \in Fan, fan'[f].reason # ""
    PROVE  mode'[f] = "manual" /\ speed'[f] = ClampWrite(f, fan'[f].percent)
  <1>1. PICK sample \in Observations, reads \in Reads, ok \in Writes,
             first \in Outcomes(FirmwareAuto, ModeWrites),
             second \in Outcomes(FirmwareAuto, ModeWrites) :
             PollWith(sample, reads, first, second, ok)
    BY DEF Poll
  <1> DEFINE seen == [g \in Fan |-> Observe(fan[g], reads[g], sample[g])]
             forced == ForcedReason(seen)
  <1>2. PollFirmwareAuto(seen, forced, first, second, ok)
    BY <1>1 DEF PollWith
  <1>3. seen \in [Fan -> FanState] /\ forced \in Reason
    BY SeenType, ForcedReasonType
  <1> HIDE DEF seen, forced
  <1>4. first \in ModeWrites /\ second \in ModeWrites /\ FanModesAvailable
    BY DEF Outcomes, ReliableWrites, FirmwareAuto, ChoiceInv, Proper
  <1>5. QED
    BY <1>2, <1>3, <1>4, OverridePoll

\* A safety override in firmware-auto takes the fan from the firmware: after the
\* poll that raises it the fan is in manual mode and its write register holds the
\* safety speed (update_fan_states with firmware_auto).
THEOREM OverridesTakeControl ==
    ASSUME ReliableWrites
    PROVE  Spec => OverrideTakesControl
  <1>1. Init => ChoiceInv
    BY ChoiceAtStart
  <1>2. TypeOK /\ ChoiceInv /\ [Next]_vars => ChoiceInv'
    BY ChoiceStep
  <1>3. TypeOK /\ ChoiceInv =>
          (FirmwareAuto /\ (\E f \in Fan : fan'[f].reason # "") /\ Poll =>
            \A f \in Fan : (fan'[f].reason # "")
              => mode'[f] = "manual" /\ speed'[f] = ClampWrite(f, fan'[f].percent))
    BY OverrideStep
  <1>4. QED
    BY <1>1, <1>2, <1>3, TypeCorrect, PTL DEF Spec, OverrideTakesControl
=============================================================================
